------------------------- MODULE ControlPlaneProofs -------------------------
(***************************************************************************)
(* What users of the web application can never do to a stored pipeline,    *)
(* and what its pages never tell them, for any number of tabs, requests,   *)
(* copies and graphs: first the editor and its rivals (PipelineEditing),   *)
(* then the round trip of a button (RunRequests), then the creation wizard *)
(* and the way of a draft to the database and back (PipelineBuilder).      *)
(***************************************************************************)
EXTENDS PipelineEditing, RunRequests, PipelineBuilder, FiniteSetTheorems, SequenceTheorems, WellFoundedInduction, TLAPS

\* A save in flight and a stored pipeline name a real graph.
RealGraphs ==
    /\ \A t \in Editors : request[t].phase = "sent" => request[t].steps \in Shapes
    /\ row.exists => row.steps \in Shapes

EditingInv == EditingTypeOK /\ RealGraphs /\ StoredGraphFits /\ CopiesFit /\ HistoryKeepsItsGraph

\* A pipeline starts as created: its edges join its steps and nothing refers to it.
LEMMA EditingInitInv == EditingInit => EditingInv
  <1> SUFFICES ASSUME EditingInit PROVE EditingInv
    OBVIOUS
  <1> USE EditingAssumption DEF EditingInit
  <1>1. EditingTypeOK
    <2>1. PICK shape \in Shapes, sched \in Schedules :
            row = [exists |-> TRUE, state |-> "draft", steps |-> shape, edges |-> shape,
                   sched |-> sched, gen |-> 0]
      OBVIOUS
    <2>2. row \in [exists : BOOLEAN, state : PipelineStates, steps : Stored, edges : Stored,
                   sched : Schedules, gen : 0..MaxWrites + 1]
      BY <2>1 DEF PipelineStates, Stored
    <2>3. reading \in [Readers -> [phase : {"idle", "reading"}, steps : Seen, edges : Seen,
                                   sched : Schedules \cup {"unread"}, gen : 0..MaxWrites + 1]]
      BY DEF Idle, Seen, Unread
    <2>4. tab \in [Editors -> [graph : Drafts, sched : Schedules, gen : 0..MaxWrites + 1]]
      BY DEF Drafts, Schedules, Unread
    <2>5. request \in [Editors -> [phase : {"none", "sent", "ok", "locked", "invalid", "failed", "missing"},
                                   steps : Drafts, sched : Schedules, gen : Versions]]
      BY DEF NoSave, Drafts, Schedules, Versions, Unread
    <2>6. writes \in Versions /\ reads \in [Readers -> 0..MaxReads] /\ runs \in 0..MaxRuns
      BY DEF Versions
    <2> QED
      BY <2>2, <2>3, <2>4, <2>5, <2>6 DEF EditingTypeOK
  <1>2. RealGraphs /\ StoredGraphFits /\ CopiesFit /\ HistoryKeepsItsGraph
    BY DEF RealGraphs, StoredGraphFits, CopiesFit, HistoryKeepsItsGraph, NoSave
  <1> QED
    BY <1>1, <1>2 DEF EditingInv

\* The rows a pipeline can have.
Rows == [exists : BOOLEAN, state : PipelineStates, steps : Stored, edges : Stored,
         sched : Schedules, gen : 0..MaxWrites + 1]

\* What replaceGraphRecords writes, and what it leaves alone.
LEMMA ReplaceFacts ==
  ASSUME row \in Rows, NEW parts \in SUBSET Parts, NEW steps \in Stored, NEW edges \in Stored,
         NEW sched \in Schedules, NEW gen \in 0..MaxWrites + 1,
         NEW new, new = ReplaceGraphRecords(parts, steps, edges, sched, gen)
  PROVE  /\ new \in Rows
         /\ (row.exists => new.exists)
         /\ new.steps = IF "steps" \in parts THEN steps ELSE row.steps
         /\ new.edges = IF {"steps", "edges"} \cap parts # {} THEN edges ELSE row.edges
  BY DEF ReplaceGraphRecords, ReplaceTriggers, InsertEdges, Rows

\* An accepted update is one of an existing, idle pipeline, and its result fits.
LEMMA AcceptedFits ==
  ASSUME NEW parts, NEW steps, NEW edges, Outcome(parts, steps, edges) = "ok"
  PROVE  /\ row.exists /\ ~ FindActiveRun
         /\ "steps" \in parts => history = {}
         /\ (IF "steps" \in parts THEN steps ELSE row.steps)
              = (IF "edges" \in parts THEN edges ELSE row.edges)
  BY DEF Outcome, MergedFits, Joined, ReplacingIsRestricted

\* A read of the four tables changes nothing but what the reader has seen.
LEMMA ReadingInv ==
  ASSUME EditingInv, NEW r \in Readers,
         BeginRead(r) \/ FailRead(r) \/ \E part \in Parts : ReadPart(r, part)
  PROVE  EditingInv'
  <1> USE EditingAssumption DEF EditingInv
  <1>1. UNCHANGED <<row, run, history, runs, tab, request, copies, writes>>
    BY DEF BeginRead, FailRead, ReadPart
  <1> DEFINE Views == [phase : {"idle", "reading"}, steps : Seen, edges : Seen,
                       sched : Schedules \cup {"unread"}, gen : 0..MaxWrites + 1]
  <1>2. row \in Rows /\ reading \in [Readers -> Views] /\ reads \in [Readers -> 0..MaxReads]
    BY DEF EditingTypeOK, Rows
  <1>3. Idle \in Views /\ [Idle EXCEPT !.phase = "reading"] \in Views
    BY DEF Idle, Seen, Unread
  <1>4. row.steps \in Seen /\ row.edges \in Seen /\ row.sched \in Schedules /\ row.gen \in 0..MaxWrites + 1
    BY <1>2 DEF Rows, Seen
  <1>5. reading' \in [Readers -> Views] /\ reads' \in [Readers -> 0..MaxReads]
    <2>1. CASE BeginRead(r)
      BY <1>2, <1>3, <2>1 DEF BeginRead
    <2>2. CASE FailRead(r)
      BY <1>2, <1>3, <2>2 DEF FailRead
    <2>3. CASE \E part \in Parts : ReadPart(r, part)
      <3>1. reads' = reads
        BY <2>3 DEF ReadPart
      <3>2. \/ reading' = [reading EXCEPT ![r].steps = row.steps]
            \/ reading' = [reading EXCEPT ![r].edges = row.edges]
            \/ reading' = [reading EXCEPT ![r].sched = row.sched, ![r].gen = row.gen]
        BY <2>3 DEF ReadPart
      <3> QED BY <1>2, <1>4, <3>1, <3>2
    <2> QED BY <2>1, <2>2, <2>3
  <1> QED
    BY <1>1, <1>5 DEF EditingTypeOK, RealGraphs, StoredGraphFits, CopiesFit, HistoryKeepsItsGraph

\* The editor's own steps change its drafts and its request; the request it
\* sends names the graph on the screen.
LEMMA EditorInv ==
  ASSUME EditingInv, NEW t \in Editors,
         ShowDetail(t) \/ EditGraph(t) \/ EditTriggers(t) \/ SaveDraft(t) \/ FinishSave(t)
  PROVE  EditingInv'
  <1> USE EditingAssumption DEF EditingInv
  <1>1. UNCHANGED <<row, run, history, runs, copies, reads>>
    BY DEF ShowDetail, EditGraph, EditTriggers, SaveDraft, FinishSave
  <1> DEFINE Views == [phase : {"idle", "reading"}, steps : Seen, edges : Seen,
                       sched : Schedules \cup {"unread"}, gen : 0..MaxWrites + 1]
             Panes == [graph : Drafts, sched : Schedules, gen : 0..MaxWrites + 1]
             Saves == [phase : {"none", "sent", "ok", "locked", "invalid", "failed", "missing"},
                       steps : Drafts, sched : Schedules, gen : Versions]
  <1>2. /\ reading \in [Readers -> Views] /\ tab \in [Editors -> Panes]
        /\ request \in [Editors -> Saves] /\ writes \in 0..MaxWrites /\ t \in Readers
    BY DEF EditingTypeOK, Readers, Versions
  <1>3. Idle \in Views /\ NoSave \in Saves /\ NoSave.phase = "none"
    BY DEF Idle, NoSave, Seen, Drafts, Schedules, Versions, Unread
  <1>4. ASSUME NEW steps \in Drafts, NEW sched \in Schedules, NEW gen \in 0..MaxWrites + 1
        PROVE  Seeded(t, steps, sched, gen) \in Panes
    BY <1>2 DEF Seeded
  <1>5. /\ reading' \in [Readers -> Views] /\ tab' \in [Editors -> Panes]
        /\ request' \in [Editors -> Saves] /\ writes' \in 0..MaxWrites
        /\ \A u \in Editors : request'[u].phase = "sent" => request'[u].steps \in Shapes
    <2>1. CASE ShowDetail(t)
      <3>1. /\ reading[t].steps \in Drafts /\ reading[t].sched \in Schedules
            /\ reading[t].gen \in 0..MaxWrites + 1
        BY <1>2, <2>1 DEF ShowDetail, Complete, AllRead, Seen, Stored, Drafts
      <3>2. Seeded(t, reading[t].steps, reading[t].sched, reading[t].gen) \in Panes
        BY <3>1, <1>4
      <3> QED BY <1>2, <1>3, <2>1, <3>2 DEF ShowDetail, RealGraphs
    <2>2. CASE EditGraph(t)
      BY <1>2, <2>2 DEF EditGraph, RealGraphs, Drafts
    <2>3. CASE EditTriggers(t)
      BY <1>2, <2>3 DEF EditTriggers, RealGraphs
    <2>4. CASE SaveDraft(t)
      <3>1. tab[t].graph \in Shapes /\ tab[t].sched \in Schedules /\ writes + 1 \in Versions
        BY <1>2, <2>4 DEF SaveDraft, Drafts, Versions
      <3> QED BY <1>2, <2>4, <3>1 DEF SaveDraft, RealGraphs, Drafts, Versions
    <2>5. CASE FinishSave(t)
      <3>1. request[t].steps \in Drafts /\ request[t].sched \in Schedules /\ request[t].gen \in 0..MaxWrites + 1
        BY <1>2 DEF Versions
      <3>2. Seeded(t, request[t].steps, request[t].sched, request[t].gen) \in Panes
        BY <3>1, <1>4
      <3>3. tab' \in [Editors -> Panes] /\ UNCHANGED <<reading, writes>>
        BY <1>2, <2>5, <3>2 DEF FinishSave
      <3>4. request' = [request EXCEPT ![t] = NoSave]
        BY <2>5 DEF FinishSave
      <3> QED BY <1>2, <1>3, <3>3, <3>4 DEF RealGraphs
    <2> QED BY <2>1, <2>2, <2>3, <2>4, <2>5
  <1> QED
    BY <1>1, <1>5 DEF EditingTypeOK, RealGraphs, StoredGraphFits, CopiesFit, HistoryKeepsItsGraph, Versions

\* A copy is made of what was read, and only when its edges join its steps.
LEMMA DuplicateInv == ASSUME EditingInv, NEW c \in Copiers, DuplicatePipeline(c) PROVE EditingInv'
  <1> USE EditingAssumption DEF EditingInv
  <1>1. UNCHANGED <<row, run, history, runs, tab, request, writes, reads>>
    BY DEF DuplicatePipeline
  <1> DEFINE Views == [phase : {"idle", "reading"}, steps : Seen, edges : Seen,
                       sched : Schedules \cup {"unread"}, gen : 0..MaxWrites + 1]
             Copy == [steps |-> reading[c].steps, edges |-> reading[c].edges,
                      sched |-> CopyDisabledTrigger(reading[c].sched)]
  <1>2. reading \in [Readers -> Views] /\ c \in Readers
    BY DEF EditingTypeOK, Readers
  <1>3. reading' \in [Readers -> Views]
    BY <1>2 DEF DuplicatePipeline, Idle, Seen, Unread
  <1>4. Copy \in [steps : Stored, edges : Stored, sched : {"none", "off"}]
    BY <1>2 DEF DuplicatePipeline, Complete, AllRead, Seen, CopyDisabledTrigger
  <1>5. copies' = copies \/ (copies' = copies \cup {Copy} /\ Copy.steps = Copy.edges)
    BY DEF DuplicatePipeline, Joined
  <1>6. /\ copies' \subseteq [steps : Stored, edges : Stored, sched : {"none", "off"}]
        /\ CopiesFit'
    BY <1>4, <1>5 DEF EditingTypeOK, CopiesFit
  <1> QED
    BY <1>1, <1>3, <1>6 DEF EditingTypeOK, RealGraphs, StoredGraphFits, HistoryKeepsItsGraph

\* What a transaction on the pipeline's row has to keep, when nothing else that
\* the invariant speaks of changes.
LEMMA RowInv ==
  ASSUME EditingInv, row' \in Rows, row'.steps = row'.edges, row'.exists => row'.steps \in Shapes,
         \A shape \in history : row'.exists /\ row'.steps = shape,
         UNCHANGED <<run, history, runs, reading, tab, copies, reads>>,
         writes' \in Versions, request' = request \/ (
            /\ request' \in [Editors -> [phase : {"none", "sent", "ok", "locked", "invalid", "failed", "missing"},
                                         steps : Drafts, sched : Schedules, gen : Versions]]
            /\ \A t \in Editors : request'[t].phase = "sent" => request'[t].steps \in Shapes)
  PROVE  EditingInv'
  BY DEF EditingInv, EditingTypeOK, Rows, RealGraphs, StoredGraphFits, CopiesFit, HistoryKeepsItsGraph

\* A save is refused, or replaces steps, edges and triggers together while no
\* run refers to the old steps.
LEMMA UpdateInv == ASSUME EditingInv, NEW t \in Editors, UpdateFromTab(t) PROVE EditingInv'
  <1> USE EditingAssumption
  <1> DEFINE steps == request[t].steps
             outcome == Outcome(Parts, steps, steps)
             Saves == [phase : {"none", "sent", "ok", "locked", "invalid", "failed", "missing"},
                       steps : Drafts, sched : Schedules, gen : Versions]
  <1>1. row \in Rows /\ steps \in Shapes /\ request \in [Editors -> Saves] /\ writes \in Versions
    BY DEF EditingInv, EditingTypeOK, Rows, RealGraphs, UpdateFromTab
  <1>2. outcome \in {"missing", "locked", "invalid", "failed", "ok"}
    BY DEF Outcome
  <1>3. /\ request' = [request EXCEPT ![t].phase = outcome]
        /\ row' = IF outcome = "ok" THEN ReplaceGraphRecords(Parts, steps, steps, request[t].sched, request[t].gen) ELSE row
        /\ UNCHANGED <<run, history, runs, reading, tab, copies, writes, reads>>
    BY DEF UpdateFromTab
  <1>4. /\ request' \in [Editors -> Saves]
        /\ \A u \in Editors : request'[u].phase = "sent" => request'[u].steps \in Shapes
    <2> HIDE DEF outcome
    <2> QED BY <1>1, <1>2, <1>3 DEF EditingInv, RealGraphs
  <1>5. /\ row' \in Rows /\ row'.steps = row'.edges /\ (row'.exists => row'.steps \in Shapes)
        /\ \A shape \in history : row'.exists /\ row'.steps = shape
    <2>1. CASE outcome = "ok"
      <3>1. history = {} /\ row.exists
        BY <2>1, AcceptedFits DEF Parts
      <3>2. /\ Parts \in SUBSET Parts /\ steps \in Stored /\ request[t].sched \in Schedules
            /\ request[t].gen \in 0..MaxWrites + 1
        BY <1>1 DEF Stored, Versions
      <3> DEFINE new == ReplaceGraphRecords(Parts, steps, steps, request[t].sched, request[t].gen)
      <3>3. row' = new
        BY <1>3, <2>1
      <3>4. new = ReplaceGraphRecords(Parts, steps, steps, request[t].sched, request[t].gen)
        OBVIOUS
      <3> HIDE DEF new, steps, outcome
      <3>5. new \in Rows /\ new.steps = steps /\ new.edges = steps
        <4>1. {"steps", "edges"} \cap Parts # {} /\ "steps" \in Parts
          BY DEF Parts
        <4> QED BY <1>1, <3>2, <3>4, <4>1, ReplaceFacts
      <3> QED BY <1>1, <3>1, <3>5, <3>3
    <2>2. CASE outcome # "ok"
      BY <1>1, <1>3, <2>2 DEF EditingInv, RealGraphs, StoredGraphFits, HistoryKeepsItsGraph
    <2> QED BY <2>1, <2>2
  <1> HIDE DEF outcome, steps
  <1>6. writes' \in Versions
    BY <1>1, <1>3
  <1> QED
    BY <1>3, <1>4, <1>5, <1>6, RowInv

\* A PATCH of some fields leaves the others, and was validated with them.
LEMMA PatchInv ==
  ASSUME EditingInv, NEW parts \in SUBSET Parts, NEW shape \in Shapes, NEW sched \in Schedules,
         PatchFields(parts, shape, sched)
  PROVE  EditingInv'
  <1> USE EditingAssumption
  <1> DEFINE edges == IF "edges" \in parts THEN shape ELSE row.edges
             gen == writes + 1
  <1>1. row \in Rows /\ writes \in 0..MaxWrites /\ writes < MaxWrites /\ row.steps = row.edges
    BY DEF EditingInv, EditingTypeOK, Rows, Versions, StoredGraphFits, PatchFields
  <1>2. /\ row.exists /\ row.steps \in Shapes
        /\ "steps" \in parts => history = {}
        /\ (IF "steps" \in parts THEN shape ELSE row.steps) = edges
    BY AcceptedFits DEF PatchFields, EditingInv, RealGraphs
  <1>3. shape \in Stored /\ edges \in Stored /\ gen \in 0..MaxWrites + 1 /\ gen \in Versions
    BY <1>1 DEF Stored, Rows, Versions
  <1> DEFINE new == ReplaceGraphRecords(parts, shape, edges, sched, gen)
  <1>4. /\ row' = new /\ writes' = gen
        /\ UNCHANGED <<run, history, runs, reading, tab, request, copies, reads>>
    BY DEF PatchFields
  <1>5. new = ReplaceGraphRecords(parts, shape, edges, sched, gen)
    OBVIOUS
  <1> HIDE DEF new, edges, gen
  <1>6. /\ new \in Rows /\ (row.exists => new.exists)
        /\ new.steps = IF "steps" \in parts THEN shape ELSE row.steps
        /\ new.edges = IF {"steps", "edges"} \cap parts # {} THEN edges ELSE row.edges
    BY <1>1, <1>3, <1>5, ReplaceFacts
  <1>7. new.steps = new.edges /\ new.steps \in Shapes
    BY <1>1, <1>2, <1>6 DEF edges
  <1>8. \A s \in history : new.exists /\ new.steps = s
    BY <1>2, <1>6 DEF EditingInv, HistoryKeepsItsGraph
  <1> QED
    BY <1>3, <1>6, <1>4, <1>7, <1>8, RowInv

\* A pipeline with history is not deleted, and a state change leaves the graph.
LEMMA DeleteOrSetInv ==
  ASSUME EditingInv, DeletePipeline \/ \E s \in PipelineStates : SetState(s)
  PROVE  EditingInv'
  <1> USE EditingAssumption
  <1>1. row \in Rows /\ writes \in Versions
    BY DEF EditingInv, EditingTypeOK, Rows
  <1>2. UNCHANGED <<run, history, runs, reading, tab, request, copies, writes, reads>>
    BY DEF DeletePipeline, SetState
  <1>3. /\ row' \in Rows /\ row'.steps = row'.edges /\ (row'.exists => row'.steps \in Shapes)
        /\ \A shape \in history : row'.exists /\ row'.steps = shape
    <2>1. CASE DeletePipeline
      <3>1. MaxWrites + 1 \in 0..MaxWrites + 1 /\ Gone \in Stored /\ "none" \in Schedules
        BY DEF Stored, Schedules
      <3>2. /\ row' = [row EXCEPT !.exists = FALSE, !.steps = Gone, !.edges = Gone, !.sched = "none", !.gen = MaxWrites + 1]
            /\ history = {}
        BY <2>1 DEF DeletePipeline, Deletable
      <3> HIDE DEF Gone
      <3> QED BY <1>1, <3>1, <3>2 DEF Rows
    <2>2. CASE \E s \in PipelineStates : SetState(s)
      BY <1>1, <2>2 DEF SetState, Rows, EditingInv, RealGraphs, StoredGraphFits, HistoryKeepsItsGraph
    <2> QED BY <2>1, <2>2
  <1> QED
    BY <1>1, <1>2, <1>3, RowInv

\* A run refers to the graph that is stored when it is queued.
LEMMA RunInv ==
  ASSUME EditingInv, QueueRun \/ StartRun \/ EndRun \/ ExpireHistory
  PROVE  EditingInv'
  <1> USE EditingAssumption DEF EditingInv
  <1>1. UNCHANGED <<row, reading, tab, request, copies, writes, reads>>
    BY DEF QueueRun, StartRun, EndRun, ExpireHistory
  <1>2. run' \in {"none", "queued", "running"} /\ runs' \in 0..MaxRuns
    BY DEF QueueRun, StartRun, EndRun, ExpireHistory, EditingTypeOK
  <1>3. history' \subseteq Shapes /\ HistoryKeepsItsGraph'
    BY DEF QueueRun, StartRun, EndRun, ExpireHistory, EditingTypeOK, RealGraphs, HistoryKeepsItsGraph
  <1> QED
    BY <1>1, <1>2, <1>3 DEF EditingTypeOK, RealGraphs, StoredGraphFits, CopiesFit

LEMMA EditingNextInv == ASSUME EditingInv, [EditingNext]_editingVars PROVE EditingInv'
  <1>1. CASE \E r \in Readers : BeginRead(r) \/ FailRead(r) \/ \E part \in Parts : ReadPart(r, part)
    BY <1>1, ReadingInv
  <1>2. CASE \E t \in Editors : ShowDetail(t) \/ EditGraph(t) \/ EditTriggers(t) \/ SaveDraft(t) \/ FinishSave(t)
    BY <1>2, EditorInv
  <1>3. CASE \E t \in Editors : UpdateFromTab(t)
    BY <1>3, UpdateInv
  <1>4. CASE \E c \in Copiers : DuplicatePipeline(c)
    BY <1>4, DuplicateInv
  <1>5. CASE \E parts \in SUBSET Parts \ {{}}, shape \in Shapes, sched \in Schedules : PatchFields(parts, shape, sched)
    BY <1>5, PatchInv
  <1>6. CASE DeletePipeline \/ \E s \in PipelineStates : SetState(s)
    BY <1>6, DeleteOrSetInv
  <1>7. CASE QueueRun \/ StartRun \/ EndRun \/ ExpireHistory
    BY <1>7, RunInv
  <1>8. CASE UNCHANGED editingVars
    BY <1>8 DEF editingVars, EditingInv, EditingTypeOK, RealGraphs, StoredGraphFits, CopiesFit, HistoryKeepsItsGraph
  <1> QED
    BY <1>1, <1>2, <1>3, <1>4, <1>5, <1>6, <1>7, <1>8 DEF EditingNext

\* Stored graphs, copies and the graphs of run history stay whole, whatever is
\* read in several statements, saved, patched, copied or deleted meanwhile.
THEOREM GraphsStayWhole == EditingSpec => []EditingInvariant
  <1>1. EditingInv => EditingInvariant
    BY DEF EditingInv, EditingInvariant
  <1> QED
    BY <1>1, EditingInitInv, EditingNextInv, PTL DEF EditingSpec

\* Only transactions that found no active run write the pipeline's rows.
LEMMA ActiveRunFreezes ==
  ASSUME EditingInv, [EditingNext]_editingVars, run # "none"
  PROVE  row' = row
  <1>1. FindActiveRun
    BY DEF EditingInv, EditingTypeOK, FindActiveRun
  <1>2. \A parts, steps, edges : Outcome(parts, steps, edges) # "ok"
    BY <1>1 DEF Outcome
  <1> QED
    BY <1>1, <1>2 DEF EditingNext, editingVars, BeginRead, FailRead, ReadPart, ShowDetail, EditGraph,
      EditTriggers, SaveDraft, UpdateFromTab, FinishSave, DuplicatePipeline, DeletePipeline, Deletable,
      PatchFields, SetState, QueueRun, StartRun, EndRun, ExpireHistory

\* A queued or running run freezes the graph, the triggers and the state of its
\* pipeline, for any number of editors and callers of PATCH.
THEOREM ActiveRunFreezesEdits == EditingSpec => ActiveRunFreezesPipeline
  <1>1. ASSUME EditingInv, [EditingNext]_editingVars
        PROVE  [run # "none" => row' = row]_editingVars
    BY <1>1, ActiveRunFreezes
  <1> QED
    BY <1>1, EditingInitInv, EditingNextInv, PTL DEF EditingSpec, ActiveRunFreezesPipeline
-----------------------------------------------------------------------------
(* RunRequests *)

Places == {"none", "web", "read", "reply", "settled"} \cup InScheduler
RequestRows == [tab : Tabs, action : Actions, code : Codes, at : Places]
Feedback == [req : 0..MaxClicks, message : Messages]

\* The requests of a tab that are under way, and those it has given up.
Open(t) == {n \in Requests : req[n].tab = t /\ req[n].at \notin {"none", "settled"}}
GivenUp(t) == Open(t) \ {waiting[t]}

\* Requests are numbered in the order of the clicks.
UnsentIsUnused == \A n \in Requests : n > clicks => req[n].at = "none"

\* A tab waits for a request of its own that is under way, and shows nothing
\* meanwhile.
TabsAwaitTheirOwn ==
  \A t \in Tabs : waiting[t] # 0 => /\ waiting[t] \in Open(t)
                                    /\ shown[t].req = waiting[t] /\ shown[t].message = "none"

\* A request has an effect in one of its last steps only, and its answer says
\* so: a state after an effect, a conflict without one or for a deleted pipeline.
AnswersAreTrue ==
  \A n \in Requests :
    /\ req[n].at \in {"none", "web", "sched", "create"} => n \notin Effects
    /\ req[n].at = "read" => n \in Effects
    /\ req[n].at \in {"reply", "sched_reply"} =>
         /\ req[n].code \in States => n \in Effects
         /\ (req[n].code \in Conflicts /\ n \in Effects) => state = "gone"

\* A conflict that is shown ends its request: nothing follows it.
RefusedIsSettled ==
  \A t \in Tabs : shown[t].message \in Conflicts =>
                    /\ shown[t].req \in Requests
                    /\ req[shown[t].req].at = "settled"

\* A tab gives up at most one request for every fault.
FewGivenUp == \A t \in Tabs : Cardinality(GivenUp(t)) <= faults

RequestInv ==
  /\ RequestTypeOK /\ UnsentIsUnused /\ TabsAwaitTheirOwn /\ AnswersAreTrue
  /\ RefusedIsSettled /\ SuccessIsReal /\ RefusalIsReal /\ FewGivenUp

LEMMA RequestBounds == MaxClicks \in Nat /\ MaxFaults \in Nat /\ MaxStops \in Nat
  BY RequestAssumption

LEMMA RequestSetsFinite ==
  /\ IsFiniteSet(Requests) /\ Requests \subseteq Nat /\ 0 \notin Requests
  /\ \A S : S \subseteq Requests => IsFiniteSet(S) /\ Cardinality(S) \in Nat
  <1>1. IsFiniteSet(Requests)
    BY RequestBounds, FS_Interval DEF Requests
  <1>2. ASSUME NEW S, S \subseteq Requests PROVE IsFiniteSet(S) /\ Cardinality(S) \in Nat
    BY <1>1, <1>2, FS_Subset, FS_CardinalityType
  <1> QED
    BY <1>1, <1>2, RequestBounds DEF Requests

\* A smaller set of requests given up is as good as the old one.
LEMMA GivenUpShrinks ==
  ASSUME NEW S, NEW T, S \subseteq Requests, T \subseteq S
  PROVE  Cardinality(T) <= Cardinality(S)
  BY RequestSetsFinite, FS_Subset

\* Before the first click nothing was sent, done or shown.
LEMMA RequestInitInv == RequestInit => RequestInv
  <1> SUFFICES ASSUME RequestInit PROVE RequestInv
    OBVIOUS
  <1> USE RequestBounds DEF RequestInit
  <1>1. NoRequest \in RequestRows /\ NoRequest.at = "none"
    BY RequestAssumption DEF NoRequest, RequestRows, Actions, Codes, Places
  <1>2. RequestTypeOK
    <2>1. req \in [Requests -> RequestRows]
      BY <1>1
    <2>2. [req |-> 0, message |-> "none"] \in Feedback
      BY DEF Feedback, Messages
    <2>3. shown \in [Tabs -> Feedback]
      BY <2>2
    <2>4. waiting \in [Tabs -> 0..MaxClicks] /\ cached \in [Tabs -> States]
      OBVIOUS
    <2>5. clicks \in 0..MaxClicks /\ faults \in 0..MaxFaults /\ stops \in 0..MaxStops
      OBVIOUS
    <2> QED
      BY <2>1, <2>3, <2>4, <2>5 DEF RequestTypeOK, RequestRows, Places, Feedback
  <1>3. UnsentIsUnused /\ TabsAwaitTheirOwn /\ RefusedIsSettled /\ SuccessIsReal /\ RefusalIsReal
    BY <1>1 DEF UnsentIsUnused, TabsAwaitTheirOwn, RefusedIsSettled, SuccessIsReal, RefusalIsReal, Conflicts
  <1>4. AnswersAreTrue
    BY <1>1 DEF AnswersAreTrue, Effects
  <1>5. FewGivenUp
    <2>1. \A t \in Tabs : GivenUp(t) = {}
      BY <1>1 DEF GivenUp, Open
    <2>2. \A t \in Tabs : Cardinality(GivenUp(t)) = 0
      BY <2>1, FS_EmptySet
    <2>3. faults = 0
      OBVIOUS
    <2> QED
      BY ONLY <2>2, <2>3 DEF FewGivenUp
  <1> QED
    BY <1>2, <1>3, <1>4, <1>5 DEF RequestInv

-----------------------------------------------------------------------------
\* A request moves on and gets a code; the others stay where they are.
Moved(n, at, code) ==
  /\ req' \in [Requests -> RequestRows]
  /\ req'[n].tab = req[n].tab /\ req'[n].at = at /\ req'[n].code = code
  /\ \A m \in Requests : m # n => req'[m] = req[m]

LEMMA Moves ==
  ASSUME RequestTypeOK, NEW n \in Requests, NEW at \in Places, NEW code \in Codes
  PROVE  /\ (req' = [req EXCEPT ![n].at = at, ![n].code = code]) => Moved(n, at, code)
         /\ MoveTo(n, at) => Moved(n, at, req[n].code)
  <1>1. PICK r \in RequestRows : r = req[n]
    BY DEF RequestTypeOK, RequestRows, Places
  <1>2. req \in [Requests -> RequestRows]
    BY DEF RequestTypeOK, RequestRows, Places
  <1>3. /\ [r EXCEPT !.at = at, !.code = code] \in RequestRows
        /\ [r EXCEPT !.at = at] \in RequestRows
    BY <1>1 DEF RequestRows
  <1>4. ASSUME req' = [req EXCEPT ![n].at = at, ![n].code = code]
        PROVE  Moved(n, at, code)
    <2>1. req' = [req EXCEPT ![n] = [r EXCEPT !.at = at, !.code = code]]
      BY <1>1, <1>2, <1>4
    <2> QED
      BY <1>1, <1>2, <1>3, <2>1 DEF Moved, RequestRows
  <1>5. ASSUME MoveTo(n, at)
        PROVE  Moved(n, at, req[n].code)
    <2>1. req' = [req EXCEPT ![n] = [r EXCEPT !.at = at]]
      BY <1>1, <1>2, <1>5 DEF MoveTo
    <2> QED
      BY <1>1, <1>2, <1>3, <2>1 DEF Moved, RequestRows
  <1> QED
    BY <1>4, <1>5

\* What every step of a server does to the request it serves: it may have its
\* effect, it moves on, and no tab hears of it yet.
ServerStep(n, at, code) ==
  /\ Moved(n, at, code)
  /\ req[n].at \notin {"none", "settled"} /\ at \notin {"none", "web", "settled"}
  /\ created' \in {created, created \cup {n}} /\ applied' \in {applied, applied \cup {n}}
  /\ state' \in States \cup {"gone"} /\ (state = "gone" => state' = "gone")
  /\ at \in {"sched", "create"} => n \notin Effects'
  /\ at = "read" => n \in Effects'
  /\ at \in {"reply", "sched_reply"} =>
       /\ code \in States => n \in Effects'
       /\ (code \in Conflicts /\ n \in Effects') => state' = "gone"
  /\ busy' \in BOOLEAN
  /\ faults' \in 0..MaxFaults /\ faults <= faults'
  /\ UNCHANGED <<executable, scheduler, waiting, shown, cached, clicks, stops>>

LEMMA ServerStepInv ==
  ASSUME RequestInv, NEW n \in Requests, NEW at, NEW code, ServerStep(n, at, code)
  PROVE  RequestInv'
  <1> USE RequestBounds DEF RequestInv
  <1>1. Effects \subseteq Effects' /\ Effects' \subseteq Effects \cup {n}
    BY DEF ServerStep, Effects
  <1>2. /\ req' \in [Requests -> RequestRows]
        /\ \A m \in Requests : req'[m].tab = req[m].tab /\ (m # n => req'[m] = req[m])
    BY DEF ServerStep, Moved
  <1>3. RequestTypeOK'
    BY <1>2 DEF ServerStep, RequestTypeOK, RequestRows, Places
  <1>4. UnsentIsUnused'
    BY <1>2 DEF ServerStep, UnsentIsUnused
  <1>5. TabsAwaitTheirOwn'
    <2>1. ASSUME NEW t \in Tabs PROVE Open(t)' = Open(t)
      BY <1>2 DEF ServerStep, Moved, Open
    <2> QED
      BY <2>1 DEF ServerStep, TabsAwaitTheirOwn
  <1>6. AnswersAreTrue'
    BY <1>1, <1>2 DEF ServerStep, Moved, AnswersAreTrue
  <1>7. RefusedIsSettled'
    BY <1>2 DEF ServerStep, RefusedIsSettled
  <1>8. SuccessIsReal'
    BY <1>1 DEF ServerStep, SuccessIsReal
  <1>9. RefusalIsReal'
    BY <1>1 DEF ServerStep, RefusalIsReal, RefusedIsSettled
  <1>10. FewGivenUp'
    <2>1. ASSUME NEW t \in Tabs PROVE GivenUp(t)' = GivenUp(t)
      BY <1>2 DEF ServerStep, Moved, GivenUp, Open
    <2>2. ASSUME NEW t \in Tabs PROVE Cardinality(GivenUp(t)) \in Nat
      BY RequestSetsFinite DEF GivenUp, Open
    <2> QED
      BY <2>1, <2>2 DEF ServerStep, FewGivenUp, RequestTypeOK
  <1> QED
    BY <1>3, <1>4, <1>5, <1>6, <1>7, <1>8, <1>9, <1>10

\* setPipelineStateForOwner, the read that follows and duplicatePipeline.
LEMMA WebSteps ==
  ASSUME RequestInv, NEW n \in Requests,
         StateAction(n) \/ ReadBack(n) \/ Duplicate(n) \/ Unauthenticated(n) \/ EnqueuePipelineRun(n)
  PROVE  RequestInv'
  <1> USE RequestBounds DEF RequestInv
  <1>1. /\ state \in States \cup {"gone"} /\ busy \in BOOLEAN
        /\ faults \in 0..MaxFaults /\ req[n].code \in Codes /\ req[n].action \in Actions
    BY DEF RequestTypeOK
  <1>2. /\ \A code \in Codes : Answer(n, code) => Moved(n, "reply", code)
        /\ \A at \in Places : MoveTo(n, at) => Moved(n, at, req[n].code)
    BY <1>1, Moves DEF Answer, Places
  <1>3. CASE StateAction(n)
    <2> DEFINE conflict == StateConflict(req[n].action)
    <2>1. n \notin Effects
      BY <1>3 DEF StateAction, AnswersAreTrue
    <2>2. CASE conflict # "none"
      <3>1. conflict \in Codes /\ conflict \notin States
        BY <2>2 DEF StateConflict, Codes, Conflicts, States
      <3>2. Moved(n, "reply", conflict) /\ UNCHANGED <<state, applied>>
        BY <1>2, <1>3, <2>2, <3>1 DEF StateAction
      <3>3. ServerStep(n, "reply", conflict)
        BY <1>1, <1>3, <2>1, <3>1, <3>2 DEF StateAction, ServerStep, Effects, tabVars, clickBounds
      <3> QED
        BY <3>3, ServerStepInv
    <2>3. CASE conflict = "none"
      <3>1. state # "gone" /\ state' \in States
        BY <1>3, <2>3 DEF StateAction, StateConflict, States
      <3>2. Moved(n, "read", req[n].code) /\ applied' = applied \cup {n}
        BY <1>2, <1>3, <2>3 DEF StateAction, Places
      <3>3. ServerStep(n, "read", req[n].code)
        BY <1>1, <1>3, <3>1, <3>2 DEF StateAction, ServerStep, Effects, tabVars, clickBounds
      <3> QED
        BY <3>3, ServerStepInv
    <2> QED
      BY <2>2, <2>3
  <1>4. CASE ReadBack(n)
    <2> DEFINE code == IF state = "gone" THEN "pipeline_not_found" ELSE state
    <2>1. code \in Codes /\ (code \in Conflicts => state = "gone")
      BY <1>1 DEF Codes, Conflicts, States
    <2>2. n \in Effects /\ Moved(n, "reply", code)
      BY <1>2, <1>4, <2>1 DEF ReadBack, AnswersAreTrue
    <2>3. ServerStep(n, "reply", code)
      BY <1>1, <1>4, <2>1, <2>2 DEF ReadBack, ServerStep, Effects, dbVars, tabVars, clickBounds
    <2> QED
      BY <2>3, ServerStepInv
  <1>5. CASE Duplicate(n)
    <2> DEFINE code == IF state = "gone" THEN "pipeline_not_found" ELSE state
    <2>1. code \in Codes /\ (code \in Conflicts => state = "gone") /\ (code \in States <=> state # "gone")
      BY <1>1 DEF Codes, Conflicts, States
    <2>2. n \notin Effects /\ Moved(n, "reply", code)
      BY <1>2, <1>5, <2>1 DEF Duplicate, AnswersAreTrue
    <2>3. applied' = IF state = "gone" THEN applied ELSE applied \cup {n}
      BY <1>5 DEF Duplicate
    <2>4. ServerStep(n, "reply", code)
      BY <1>1, <1>5, <2>1, <2>2, <2>3 DEF Duplicate, ServerStep, Effects, tabVars, clickBounds
    <2> QED
      BY <2>4, ServerStepInv
  <1>6. CASE Unauthenticated(n)
    <2>1. "unauthenticated" \in Codes /\ "unauthenticated" \notin States \cup Conflicts
      BY DEF Codes, Conflicts, States
    <2>2. faults' \in 0..MaxFaults /\ faults <= faults' /\ Moved(n, "reply", "unauthenticated")
      BY <1>1, <1>2, <1>6, <2>1 DEF Unauthenticated
    <2>3. ServerStep(n, "reply", "unauthenticated")
      BY <1>1, <1>6, <2>1, <2>2 DEF Unauthenticated, ServerStep, Effects, dbVars, tabVars
    <2> QED
      BY <2>3, ServerStepInv
  <1>7. CASE EnqueuePipelineRun(n)
    <2>1. "error" \in Codes /\ "error" \notin States \cup Conflicts /\ n \notin Effects
      BY <1>7 DEF Codes, Conflicts, States, EnqueuePipelineRun, AnswersAreTrue
    <2>2. Moved(n, "sched", req[n].code) \/ Moved(n, "reply", "error")
      BY <1>2, <1>7, <2>1 DEF EnqueuePipelineRun, Places, InScheduler
    <2>3. ServerStep(n, "sched", req[n].code) \/ ServerStep(n, "reply", "error")
      BY <1>1, <1>7, <2>1, <2>2 DEF EnqueuePipelineRun, ServerStep, Effects, dbVars, tabVars, clickBounds
    <2> QED
      BY <2>3, ServerStepInv
  <1> QED
    BY <1>3, <1>4, <1>5, <1>6, <1>7

\* runPipelineForOwner, createPipelineRun and the answer of the internal route.
LEMMA SchedulerSteps ==
  ASSUME RequestInv, NEW n \in Requests, CheckRun(n) \/ CreateRun(n) \/ SchedulerAnswers(n)
  PROVE  RequestInv'
  <1> USE RequestBounds DEF RequestInv
  <1>1. /\ state \in States \cup {"gone"} /\ busy \in BOOLEAN
        /\ faults \in 0..MaxFaults /\ req[n].code \in Codes
    BY DEF RequestTypeOK
  <1>2. RunConflict # "none" => RunConflict \in Codes /\ RunConflict \notin States
    BY DEF RunConflict, Codes, Conflicts, States
  <1>3. CASE CheckRun(n)
    <2>1. n \notin Effects
      BY <1>3 DEF CheckRun, AnswersAreTrue
    <2>2. \/ Moved(n, "create", req[n].code)
          \/ RunConflict # "none" /\ Moved(n, "sched_reply", RunConflict)
      BY <1>1, <1>2, <1>3, Moves DEF CheckRun, Places, InScheduler
    <2>3. ServerStep(n, "create", req[n].code) \/ ServerStep(n, "sched_reply", RunConflict)
      BY <1>1, <1>2, <1>3, <2>1, <2>2 DEF CheckRun, ServerStep, Effects, dbVars, tabVars, clickBounds
    <2> QED
      BY <2>3, ServerStepInv
  <1>4. CASE CreateRun(n)
    <2>1. n \notin Effects
      BY <1>4 DEF CreateRun, AnswersAreTrue
    <2>2. CASE RunConflict = "none"
      <3>1. "enabled" \in Codes \ Conflicts
        BY DEF Codes, Conflicts, States
      <3>2. Moved(n, "sched_reply", "enabled") /\ created' = created \cup {n} /\ busy' = TRUE
        BY <1>4, <2>2, <3>1, Moves DEF CreateRun, Places, InScheduler
      <3>3. ServerStep(n, "sched_reply", "enabled")
        BY <1>1, <1>4, <3>1, <3>2 DEF CreateRun, ServerStep, Effects, tabVars, clickBounds
      <3> QED
        BY <3>3, ServerStepInv
    <2>3. CASE RunConflict # "none"
      <3>1. Moved(n, "sched_reply", RunConflict) /\ UNCHANGED <<created, busy>>
        BY <1>2, <1>4, <2>3, Moves DEF CreateRun, Places, InScheduler
      <3>2. ServerStep(n, "sched_reply", RunConflict)
        BY <1>1, <1>2, <1>4, <2>1, <2>3, <3>1 DEF CreateRun, ServerStep, Effects, tabVars, clickBounds
      <3> QED
        BY <3>2, ServerStepInv
    <2> QED
      BY <2>2, <2>3
  <1>5. CASE SchedulerAnswers(n)
    <2>1. Moved(n, "reply", req[n].code)
      BY <1>1, <1>5, Moves DEF SchedulerAnswers, Answer, Places
    <2>2. ServerStep(n, "reply", req[n].code)
      BY <1>1, <1>5, <2>1 DEF SchedulerAnswers, ServerStep, AnswersAreTrue, Effects, dbVars, tabVars, clickBounds
    <2> QED
      BY <2>2, ServerStepInv
  <1> QED
    BY <1>3, <1>4, <1>5

\* handleRun, handleDuplicate and handleStateChange send nothing while the tab
\* waits, so the new request is the only one it has not given up.
LEMMA ClickInv ==
  ASSUME RequestInv, NEW t \in Tabs, NEW a \in Actions, Click(t, a)
  PROVE  RequestInv'
  <1> USE RequestBounds DEF RequestInv
  <1>0. PICK n : n = clicks + 1
    OBVIOUS
  <1> DEFINE new == [tab |-> t, action |-> a, at |-> "web", code |-> "error"]
  <1>1. /\ n \in Requests /\ n > clicks /\ clicks \in Nat /\ clicks' = n /\ clicks' \in 0..MaxClicks
        /\ n \in 0..MaxClicks /\ n # 0
    BY <1>0 DEF Click, Send, Requests, RequestTypeOK
  <1>2. req[n].at = "none" /\ n \notin Effects
    BY <1>1 DEF UnsentIsUnused, AnswersAreTrue
  <1>3. new \in RequestRows
    BY DEF RequestRows, Codes, Places
  <1>4. /\ req \in [Requests -> RequestRows] /\ req' = [req EXCEPT ![n] = new]
        /\ waiting \in [Tabs -> 0..MaxClicks] /\ waiting' = [waiting EXCEPT ![t] = n] /\ waiting[t] = 0
    BY <1>0 DEF Click, Send, RequestTypeOK, RequestRows, Places
  <1>5. /\ req' \in [Requests -> RequestRows] /\ req'[n].tab = t /\ req'[n].at = "web"
        /\ \A m \in Requests : m # n => req'[m] = req[m]
    BY <1>1, <1>3, <1>4
  <1>6. /\ waiting' \in [Tabs -> 0..MaxClicks] /\ waiting'[t] = n
        /\ \A u \in Tabs : u # t => waiting'[u] = waiting[u]
    BY <1>1, <1>4
  <1>7. [req |-> n, message |-> "none"] \in Feedback
    BY <1>1 DEF Feedback, Messages
  <1>8. /\ shown' \in [Tabs -> Feedback] /\ shown'[t].req = n /\ shown'[t].message = "none"
        /\ \A u \in Tabs : u # t => shown'[u] = shown[u]
    BY <1>0, <1>7 DEF Click, Send, RequestTypeOK, Feedback
  <1>9. /\ UNCHANGED <<state, executable, busy, created, applied, scheduler, cached, faults, stops>>
        /\ Effects' = Effects
    BY DEF Click, Send, dbVars, Effects
  <1>10. RequestTypeOK'
    BY <1>1, <1>5, <1>6, <1>8, <1>9 DEF RequestTypeOK, RequestRows, Places, Feedback
  <1>11. UnsentIsUnused'
    <2>1. \A m \in Requests : m > n => m > clicks /\ m # n
      BY <1>0, <1>1 DEF Requests
    <2> QED
      BY <1>1, <1>5, <2>1 DEF UnsentIsUnused
  <1>12. /\ \A u \in Tabs : n \notin Open(u) /\ 0 \notin Open(u)
         /\ Open(t)' = Open(t) \cup {n} /\ \A u \in Tabs : u # t => Open(u)' = Open(u)
    BY <1>1, <1>2, <1>5, RequestSetsFinite DEF Open
  <1>13. TabsAwaitTheirOwn'
    BY <1>6, <1>8, <1>12 DEF TabsAwaitTheirOwn
  <1>14. AnswersAreTrue'
    BY <1>2, <1>5, <1>9 DEF AnswersAreTrue
  <1>15. RefusedIsSettled'
    BY <1>2, <1>5, <1>8 DEF RefusedIsSettled, Conflicts
  <1>16. SuccessIsReal' /\ RefusalIsReal'
    BY <1>8, <1>9 DEF SuccessIsReal, RefusalIsReal, Conflicts
  <1>17. FewGivenUp'
    <2>1. ASSUME NEW u \in Tabs PROVE GivenUp(u)' = GivenUp(u)
      <3>1. CASE u = t
        BY <3>1, <1>4, <1>6, <1>12 DEF GivenUp
      <3>2. CASE u # t
        BY <3>2, <1>6, <1>12 DEF GivenUp
      <3> QED
        BY <3>1, <3>2
    <2> QED
      BY <1>9, <2>1 DEF FewGivenUp
  <1> QED
    BY <1>10, <1>11, <1>13, <1>14, <1>15, <1>16, <1>17

\* The answer that a tab waits for settles its request and is shown; any other
\* answer settles silently.
LEMMA ReceiveInv ==
  ASSUME RequestInv, NEW n \in Requests, Receive(n)
  PROVE  RequestInv'
  <1> USE RequestBounds DEF RequestInv
  <1>0. PICK t \in Tabs, code \in Codes : t = req[n].tab /\ code = req[n].code
    BY DEF RequestTypeOK
  <1>1. Moved(n, "settled", code) /\ req[n].at = "reply"
    BY <1>0, Moves DEF Receive, Places
  <1>2. /\ req' \in [Requests -> RequestRows] /\ req'[n].at = "settled"
        /\ \A m \in Requests : m # n => req'[m] = req[m]
        /\ \A m \in Requests : req'[m].tab = req[m].tab
    BY <1>1 DEF Moved
  <1>3. /\ UNCHANGED <<state, executable, busy, created, applied, scheduler, clicks, faults, stops>>
        /\ Effects' = Effects
    BY DEF Receive, dbVars, clickBounds, Effects
  <1>4. ASSUME NEW u \in Tabs PROVE Open(u)' = Open(u) \ {n}
    BY <1>2 DEF Open
  <1>5. UnsentIsUnused' /\ AnswersAreTrue'
    BY <1>1, <1>2, <1>3 DEF UnsentIsUnused, AnswersAreTrue
  <1>6. CASE waiting[t] # n
    <2>1. UNCHANGED <<waiting, shown, cached>>
      BY <1>0, <1>6 DEF Receive, tabVars
    <2>2. \A u \in Tabs : waiting[u] # n
      BY <1>0, <1>6, RequestSetsFinite DEF TabsAwaitTheirOwn, Open
    <2>3. RequestTypeOK'
      BY <1>2, <1>3, <2>1 DEF RequestTypeOK, RequestRows, Places
    <2>4. TabsAwaitTheirOwn'
      BY <1>4, <2>1, <2>2 DEF TabsAwaitTheirOwn
    <2>5. RefusedIsSettled' /\ SuccessIsReal' /\ RefusalIsReal'
      BY <1>2, <1>3, <2>1 DEF RefusedIsSettled, SuccessIsReal, RefusalIsReal
    <2>6. FewGivenUp'
      <3>1. ASSUME NEW u \in Tabs PROVE GivenUp(u)' \subseteq GivenUp(u) /\ GivenUp(u) \subseteq Requests
        BY <1>4, <2>1 DEF GivenUp, Open
      <3>2. ASSUME NEW u \in Tabs PROVE Cardinality(GivenUp(u)') <= Cardinality(GivenUp(u))
        BY <3>1, GivenUpShrinks
      <3>3. ASSUME NEW u \in Tabs
            PROVE  Cardinality(GivenUp(u)) \in Nat /\ Cardinality(GivenUp(u)') \in Nat
        BY <3>1, RequestSetsFinite
      <3> QED
        BY <1>3, <3>2, <3>3 DEF FewGivenUp, RequestTypeOK
    <2> QED
      BY <1>5, <2>3, <2>4, <2>5, <2>6
  <1>7. CASE waiting[t] = n
    <2>1. waiting' = [waiting EXCEPT ![t] = 0] /\ shown' = [shown EXCEPT ![t].message = Message(code)]
      BY <1>0, <1>7 DEF Receive, Settle
    <2>2. /\ waiting' \in [Tabs -> 0..MaxClicks] /\ waiting'[t] = 0
          /\ \A u \in Tabs : u # t => waiting'[u] = waiting[u]
      BY <2>1 DEF RequestTypeOK
    <2>3. Message(code) \in Messages
      BY DEF Message, Messages
    <2>4. /\ shown' \in [Tabs -> Feedback]
          /\ shown'[t].req = shown[t].req /\ shown'[t].message = Message(code)
          /\ \A u \in Tabs : u # t => shown'[u] = shown[u]
      BY <2>1, <2>3 DEF RequestTypeOK, Feedback
    <2>5. n # 0 /\ shown[t].req = n /\ \A u \in Tabs : u # t => waiting[u] # n
      BY <1>0, <1>7, RequestSetsFinite DEF TabsAwaitTheirOwn, Open
    <2>6. cached' \in [Tabs -> States]
      BY <1>0, <1>7 DEF Receive, RequestTypeOK
    <2>7. RequestTypeOK'
      BY <1>2, <1>3, <2>2, <2>4, <2>6 DEF RequestTypeOK, RequestRows, Places, Feedback
    <2>8. TabsAwaitTheirOwn'
      BY <1>4, <2>2, <2>4, <2>5 DEF TabsAwaitTheirOwn
    <2>9. RefusedIsSettled'
      BY <1>2, <2>4, <2>5 DEF RefusedIsSettled
    <2>10. SuccessIsReal'
      <3>1. Message(code) = "success" => code \in States
        BY DEF Message, Conflicts
      <3>2. Message(code) = "success" => n \in Effects
        BY <1>0, <1>1, <3>1 DEF AnswersAreTrue
      <3> QED
        BY <1>3, <2>4, <2>5, <3>2 DEF SuccessIsReal
    <2>11. RefusalIsReal'
      <3>1. Message(code) \in Conflicts => code \in Conflicts
        BY DEF Message, Conflicts
      <3>2. Message(code) \in Conflicts /\ n \in Effects => state = "gone"
        BY <1>0, <1>1, <3>1 DEF AnswersAreTrue
      <3> QED
        BY <1>3, <2>4, <2>5, <3>2 DEF RefusalIsReal
    <2>12. FewGivenUp'
      <3>1. ASSUME NEW u \in Tabs PROVE GivenUp(u)' = GivenUp(u)
        <4>1. 0 \notin Open(u) /\ (u # t => n \notin Open(u))
          BY <1>0, RequestSetsFinite DEF Open
        <4> QED
          BY <1>4, <1>7, <2>2, <4>1 DEF GivenUp
      <3> QED
        BY <1>3, <3>1 DEF FewGivenUp
    <2> QED
      BY <1>5, <2>7, <2>8, <2>9, <2>10, <2>11, <2>12
  <1> QED
    BY <1>6, <1>7

\* A broken connection gives up at most the request that was waited for, and a
\* refetch changes the cached pipeline only.
LEMMA ConnectionInv ==
  ASSUME RequestInv, NEW t \in Tabs, Disconnect(t) \/ Refetch(t)
  PROVE  RequestInv'
  <1> USE RequestBounds DEF RequestInv
  <1>1. CASE Disconnect(t)
    <2>1. /\ UNCHANGED <<state, executable, busy, created, applied, scheduler, req, cached, clicks, stops>>
          /\ Effects' = Effects /\ \A u \in Tabs : Open(u)' = Open(u)
      BY <1>1 DEF Disconnect, dbVars, Effects, Open
    <2>2. faults' = faults + 1 /\ faults \in Nat /\ faults' \in 0..MaxFaults
      BY <1>1 DEF Disconnect, RequestTypeOK
    <2>3. /\ waiting' \in [Tabs -> 0..MaxClicks] /\ waiting'[t] = 0
          /\ \A u \in Tabs : u # t => waiting'[u] = waiting[u]
      BY <1>1 DEF Disconnect, RequestTypeOK
    <2>4. /\ shown' \in [Tabs -> Feedback] /\ shown'[t].message = "unavailable"
          /\ \A u \in Tabs : u # t => shown'[u] = shown[u]
      BY <1>1 DEF Disconnect, RequestTypeOK, Feedback, Messages
    <2>5. RequestTypeOK'
      BY <2>1, <2>2, <2>3, <2>4 DEF RequestTypeOK, Feedback
    <2>6. UnsentIsUnused' /\ AnswersAreTrue'
      BY <2>1 DEF UnsentIsUnused, AnswersAreTrue
    <2>7. TabsAwaitTheirOwn'
      BY <2>1, <2>3, <2>4 DEF TabsAwaitTheirOwn
    <2>8. RefusedIsSettled' /\ SuccessIsReal' /\ RefusalIsReal'
      BY <2>1, <2>4 DEF RefusedIsSettled, SuccessIsReal, RefusalIsReal, Conflicts
    <2>9. FewGivenUp'
      <3>1. SUFFICES ASSUME NEW u \in Tabs PROVE Cardinality(GivenUp(u)') <= faults'
        BY DEF FewGivenUp
      <3>2. GivenUp(u)' \subseteq GivenUp(u) \cup {waiting[u]}
        BY <2>1 DEF GivenUp
      <3>3. GivenUp(u) \subseteq Requests /\ Open(u) \subseteq Requests /\ GivenUp(u)' \subseteq Requests
        BY <2>1 DEF GivenUp, Open
      <3>4. IsFiniteSet(GivenUp(u)) /\ Cardinality(GivenUp(u)) \in Nat /\ Cardinality(GivenUp(u)') \in Nat
        BY <3>3, RequestSetsFinite
      <3>5. /\ IsFiniteSet(GivenUp(u) \cup {waiting[u]})
            /\ Cardinality(GivenUp(u) \cup {waiting[u]}) \in
                 {Cardinality(GivenUp(u)), Cardinality(GivenUp(u)) + 1}
        BY <3>4, FS_AddElement
      <3>6. Cardinality(GivenUp(u)') <= Cardinality(GivenUp(u) \cup {waiting[u]})
        BY <3>2, <3>5, FS_Subset
      <3> QED
        BY <2>2, <3>4, <3>5, <3>6 DEF FewGivenUp
    <2> QED
      BY <2>5, <2>6, <2>7, <2>8, <2>9
  <1>2. CASE Refetch(t)
    <2>1. /\ UNCHANGED <<state, executable, busy, created, applied, scheduler, req, waiting, shown,
                         clicks, faults, stops>>
          /\ cached' \in [Tabs -> States]
      BY <1>2 DEF Refetch, dbVars, clickBounds, RequestTypeOK
    <2> QED
      BY <2>1 DEF RequestTypeOK, UnsentIsUnused, TabsAwaitTheirOwn, AnswersAreTrue, RefusedIsSettled,
        SuccessIsReal, RefusalIsReal, FewGivenUp, GivenUp, Open, Effects
  <1> QED
    BY <1>1, <1>2

\* The end of the scheduler process answers what it was working on with an
\* error, which claims nothing.
LEMMA SchedulerDiesInv ==
  ASSUME RequestInv, SchedulerDies, faults' \in 0..MaxFaults, faults <= faults', stops' \in 0..MaxStops
  PROVE  RequestInv'
  <1> USE RequestBounds DEF RequestInv
  <1>1. /\ UNCHANGED <<state, executable, busy, created, applied, waiting, shown, cached, clicks>>
        /\ Effects' = Effects /\ scheduler' = "down"
    BY DEF SchedulerDies, dbVars, tabVars, Effects
  <1>2. /\ req' \in [Requests -> RequestRows]
        /\ \A n \in Requests :
             /\ req[n].at \notin InScheduler => req'[n] = req[n]
             /\ req[n].at \in InScheduler => req'[n].tab = req[n].tab /\ req'[n].at = "reply" /\ req'[n].code = "error"
    <2>1. ASSUME NEW r \in RequestRows
          PROVE  /\ [r EXCEPT !.at = "reply", !.code = "error"] \in RequestRows
                 /\ [r EXCEPT !.at = "reply", !.code = "error"].tab = r.tab
                 /\ [r EXCEPT !.at = "reply", !.code = "error"].at = "reply"
                 /\ [r EXCEPT !.at = "reply", !.code = "error"].code = "error"
      BY DEF RequestRows, Places, Codes
    <2>2. req \in [Requests -> RequestRows]
      BY DEF RequestTypeOK, RequestRows, Places
    <2> QED
      BY <2>1, <2>2 DEF SchedulerDies
  <1>3. RequestTypeOK'
    BY <1>1, <1>2 DEF RequestTypeOK, RequestRows, Places
  <1>4. UnsentIsUnused' /\ AnswersAreTrue' /\ RefusedIsSettled'
    BY <1>1, <1>2 DEF UnsentIsUnused, AnswersAreTrue, RefusedIsSettled, InScheduler, States, Conflicts
  <1>5. ASSUME NEW t \in Tabs PROVE Open(t)' = Open(t) /\ GivenUp(t)' = GivenUp(t)
    BY <1>1, <1>2 DEF Open, GivenUp, InScheduler
  <1>6. TabsAwaitTheirOwn' /\ SuccessIsReal' /\ RefusalIsReal'
    BY <1>1, <1>5 DEF TabsAwaitTheirOwn, SuccessIsReal, RefusalIsReal
  <1>7. FewGivenUp'
    <2>1. ASSUME NEW t \in Tabs PROVE Cardinality(GivenUp(t)) \in Nat
      BY RequestSetsFinite DEF GivenUp, Open
    <2> QED
      BY <1>5, <2>1 DEF FewGivenUp, RequestTypeOK
  <1> QED
    BY <1>3, <1>4, <1>6, <1>7

\* The processes and the database beside the requests.
LEMMA SurroundingsInv ==
  ASSUME RequestInv,
         (\E n \in Requests : DatabaseError(n)) \/ Stop \/ Restart \/ RunsEnd \/ Delete
  PROVE  RequestInv'
  <1> USE RequestBounds DEF RequestInv
  <1>1. CASE (\E n \in Requests : DatabaseError(n)) \/ Stop
    <2>1. /\ SchedulerDies /\ faults' \in 0..MaxFaults /\ faults <= faults' /\ stops' \in 0..MaxStops
      BY <1>1 DEF DatabaseError, Stop, RequestTypeOK
    <2> QED
      BY <2>1, SchedulerDiesInv
  <1>2. CASE Restart \/ RunsEnd \/ Delete
    <2>1. /\ UNCHANGED <<executable, created, applied, req, waiting, shown, cached, clicks, faults, stops>>
          /\ busy' \in BOOLEAN /\ scheduler' \in {"up", "down"} /\ state' \in States \cup {"gone"}
          /\ (state = "gone" => state' = "gone")
      BY <1>2 DEF Restart, RunsEnd, Delete, dbVars, tabVars, clickBounds, RequestTypeOK
    <2> QED
      BY <2>1 DEF RequestTypeOK, UnsentIsUnused, TabsAwaitTheirOwn, AnswersAreTrue, RefusedIsSettled,
        SuccessIsReal, RefusalIsReal, FewGivenUp, GivenUp, Open, Effects
  <1> QED
    BY <1>1, <1>2

LEMMA RequestNextInv == ASSUME RequestInv, [RequestNext]_requestVars PROVE RequestInv'
  <1>1. CASE \E n \in Requests : Serve(n) \/ Unauthenticated(n)
    BY <1>1, WebSteps, SchedulerSteps, ReceiveInv DEF Serve
  <1>2. CASE \E t \in Tabs : Disconnect(t) \/ Refetch(t)
    BY <1>2, ConnectionInv
  <1>3. CASE \E t \in Tabs : \E a \in Actions : Click(t, a)
    BY <1>3, ClickInv
  <1>4. CASE (\E n \in Requests : DatabaseError(n)) \/ Stop \/ Restart \/ RunsEnd \/ Delete
    BY <1>4, SurroundingsInv
  <1>5. CASE UNCHANGED requestVars
    BY <1>5 DEF requestVars, RequestInv, RequestTypeOK, UnsentIsUnused, TabsAwaitTheirOwn, AnswersAreTrue,
      RefusedIsSettled, SuccessIsReal, RefusalIsReal, FewGivenUp, GivenUp, Open, Effects
  <1> QED
    BY <1>1, <1>2, <1>3, <1>4, <1>5 DEF RequestNext

\* A tab with at most one request it waits for, and one given up per fault.
LEMMA GivenUpBoundsOpen == RequestInv => OneInFlight
  <1> SUFFICES ASSUME RequestInv, NEW t \in Tabs PROVE Cardinality(Open(t)) <= 1 + faults
    BY DEF OneInFlight, Open
  <1>1. Open(t) \subseteq GivenUp(t) \cup {waiting[t]} /\ GivenUp(t) \subseteq Requests /\ Open(t) \subseteq Requests
    BY DEF GivenUp, Open
  <1>2. /\ IsFiniteSet(GivenUp(t)) /\ Cardinality(GivenUp(t)) \in Nat /\ Cardinality(Open(t)) \in Nat
    BY <1>1, RequestSetsFinite
  <1>3. /\ IsFiniteSet(GivenUp(t) \cup {waiting[t]})
        /\ Cardinality(GivenUp(t) \cup {waiting[t]}) \in {Cardinality(GivenUp(t)), Cardinality(GivenUp(t)) + 1}
    BY <1>2, FS_AddElement
  <1>4. Cardinality(Open(t)) <= Cardinality(GivenUp(t) \cup {waiting[t]})
    BY <1>1, <1>3, FS_Subset
  <1>5. Cardinality(GivenUp(t)) <= faults /\ faults \in Nat
    BY RequestBounds DEF RequestInv, FewGivenUp, RequestTypeOK
  <1> QED
    BY <1>2, <1>3, <1>4, <1>5

\* What the tabs show is what happened: a success was committed by that very
\* request, a conflict left the pipeline alone, and a tab has one request under
\* way unless connections broke, for any number of tabs, clicks and faults.
THEOREM TabsTellTheTruth == RequestSpec => []RequestInvariant
  <1>1. RequestInv => RequestInvariant
    BY GivenUpBoundsOpen DEF RequestInv, RequestInvariant
  <1> QED
    BY <1>1, RequestInitInv, RequestNextInv, PTL DEF RequestSpec

\* However old the page is that asks for it, a run comes into being for an
\* enabled pipeline only, and a state changes while no run is active.
THEOREM StaleRequestsAreHarmless == RequestSpec => EffectsAreLegal
  <1>1. ASSUME [RequestNext]_requestVars
        PROVE  [/\ created' # created => state = "enabled"
                /\ state' # state => ~busy]_requestVars
    <2>1. CASE \E n \in Requests : StateAction(n) \/ CreateRun(n)
      BY <2>1 DEF StateAction, StateConflict, CreateRun, RunConflict
    <2>2. CASE Delete
      BY <2>2 DEF Delete
    <2>3. CASE UNCHANGED <<created, state>>
      BY <2>3
    <2> QED
      BY <1>1, <2>1, <2>2, <2>3 DEF RequestNext, requestVars, Disconnect, Refetch, Click, Send, Serve,
        ReadBack, Duplicate, EnqueuePipelineRun, CheckRun, SchedulerAnswers, Receive, Unauthenticated,
        DatabaseError, SchedulerDies, Stop, Restart, RunsEnd, dbVars
  <1> QED
    BY <1>1, PTL DEF RequestSpec, EffectsAreLegal

-----------------------------------------------------------------------------
(* The wizard *)

\* The graphs a wizard can derive: a Source at most first, an Export at most
\* last, everything between them Transforms, each joined to the next.
SelectionsOf(kind, n) == [id : 1..n, type : Types(kind), values : Values]
Steps(n) == [id : 1..n, kind : Kinds, type : DOMAIN Catalog, values : Values]
ChainGraph(g, n) ==
  /\ g = [named |-> g.named, steps |-> g.steps, edges |-> DerivePipelineBuilderEdges(g.steps)]
  /\ g.named \in BOOLEAN /\ g.steps \in Seq(Steps(n))
  /\ \A i \in DOMAIN g.steps :
      /\ g.steps[i].kind = Catalog[g.steps[i].type].kind
      /\ g.steps[i].kind = "source" => i = 1
      /\ g.steps[i].kind = "export" => i = Len(g.steps)
      /\ \A j \in DOMAIN g.steps : g.steps[i].id = g.steps[j].id => i = j

\* Slots of a draft hold components of their kind, each with an identifier of
\* its own below the next fresh one.
Apart(s, t) == \A i \in DOMAIN s, j \in DOMAIN t : s[i].id # t[j].id
DistinctIds(s) == \A i, j \in DOMAIN s : s[i].id = s[j].id => i = j
DraftOK(d, n) ==
  /\ d = [dirty |-> d.dirty, named |-> d.named, source |-> d.source, transforms |-> d.transforms, export |-> d.export]
  /\ d.dirty \in BOOLEAN /\ d.named \in BOOLEAN
  /\ d.source \in Seq(SelectionsOf("source", n)) /\ Len(d.source) <= 1
  /\ d.transforms \in Seq(SelectionsOf("transform", n))
  /\ d.export \in Seq(SelectionsOf("export", n)) /\ Len(d.export) <= 1
  /\ Apart(d.source, d.transforms) /\ Apart(d.source, d.export) /\ Apart(d.transforms, d.export)
  /\ DistinctIds(d.transforms)

\* Identifiers are numbered by the edits, pipelines by the saves.
CountersOK ==
  /\ edits \in 0..MaxEdits /\ ids \in 0..edits /\ saves \in 0..MaxSaves /\ lostReplies \in 0..MaxLostReplies
  /\ pipelineId \in 0..saves /\ storage \in 0..saves /\ opened \in 0..saves /\ current \subseteq 1..saves
  /\ overtaken \in BOOLEAN

\* Only chains are stored.
StoreOK ==
  /\ store = [p \in DOMAIN store |-> store[p]]
  /\ DOMAIN store \subseteq 1..saves /\ ran \subseteq DOMAIN store
  /\ \A p \in DOMAIN store : ChainGraph(store[p], ids)

\* The Source of graph g is the draft's.
SourceIsDrafts(g) ==
  \A i \in DOMAIN g.steps : g.steps[i].kind = "source" => draft.source # <<>> /\ g.steps[i].id = draft.source[1].id

\* A request carries a chain, and one of this visit the Source of its draft.
RequestOK(r) ==
  /\ r.number \in 1..saves /\ ChainGraph(r.graph, ids)
  /\ r.number > opened => SourceIsDrafts(r.graph)

\* A save in flight: what was sent is the draft unless it was edited since, and
\* what was stored is what was sent unless it was overwritten.
SavingOK ==
  /\ saving = [target |-> saving.target, graph |-> saving.graph, number |-> saving.number, outcome |-> saving.outcome]
  /\ RequestOK(saving) /\ saving.number > opened
  /\ saving.target \in 0..saves /\ saving.outcome \in Outcomes
  /\ saving.outcome = "sent" => saving.target = pipelineId /\ saving.target \in 0..(saving.number - 1)
  /\ saving.outcome = "ok" => saving.target # 0
  /\ ~ overtaken => saving.graph = Content(draft)
  /\ saving.outcome = "ok" /\ saving.target \in DOMAIN store \cap current => store[saving.target] = saving.graph

\* A request that nobody waits for writes a row older than itself, or its own.
LateOK == \A r \in late : RequestOK(r) /\ r.target \in 0..(r.number - 1)

\* Every pipeline of this visit has the Source of the draft, and so there is one.
HoldsSource(g) ==
  draft.source # <<>> /\ \E i \in DOMAIN g.steps : g.steps[i].kind = "source" /\ g.steps[i].id = draft.source[1].id
VisitOK ==
  /\ \A p \in DOMAIN store : p > opened => HoldsSource(store[p])
  /\ \A p, q \in DOMAIN store : p > opened /\ q > opened => p = q

\* A draft that is not dirty is stored, if nothing overtook its save and nobody
\* has written the row since.
CleanIsStored ==
  (~ draft.dirty /\ ~ overtaken /\ pipelineId \in DOMAIN store \cap current) => Content(draft) = store[pipelineId]

\* The inductive invariant.
WizardInv ==
  /\ DraftOK(draft, ids) /\ CountersOK /\ StoreOK /\ (saving = <<>> \/ SavingOK) /\ LateOK /\ VisitOK /\ CleanIsStored

\* A non-empty set of numbers has a least element.
LEMMA LeastNumber ==
  ASSUME NEW T, T \subseteq Nat, T # {}
  PROVE  \E x \in T : \A y \in T : x <= y
  <1> DEFINE R == OpToRel(<, Nat)
  <1>1. IsWellFoundedOn(R, Nat)
    BY NatLessThanWellFounded, Zenon
  <1>2. \A x, y \in Nat : <<y, x>> \in R <=> y < x
    BY Zenon DEF OpToRel
  <1> HIDE DEF R
  <1>3. PICK x \in T : \A y \in T : ~(<<y, x>> \in R)
    BY <1>1, WFMin, Zenon
  <1>4. \A y \in T : ~(y < x)
    BY <1>2, <1>3, Zenon
  <1> QED BY <1>4


-----------------------------------------------------------------------------
(* Sequences *)

\* A sequence given element by element, with one more element.
LEMMA AppendElement ==
  ASSUME NEW R, NEW k \in Nat, NEW f \in [1..(k + 1) -> R], NEW s, s = [i \in 1..k |-> f[i]]
  PROVE  s \in Seq(R) /\ Append(s, f[k + 1]) = f
  <1>1. s \in Seq(R) /\ Len(s) = k
    <2>1. s \in [1..k -> R]
      OBVIOUS
    <2> QED BY <2>1, SeqDef
  <1>2. f \in Seq(R) /\ Len(f) = k + 1
    BY SeqDef
  <1>3. Append(s, f[k + 1]) \in Seq(R) /\ Len(Append(s, f[k + 1])) = k + 1
    BY <1>1
  <1>4. \A i \in 1..(k + 1) : Append(s, f[k + 1])[i] = f[i]
    BY <1>1
  <1> QED BY <1>1, <1>2, <1>3, <1>4, SeqEqual

Stretch(steps, lo, hi) == [i \in 1..(hi - lo) |-> SelectionFromStep(steps[lo + i])]

\* SelectionsOfKind keeps a stretch of the steps when the steps of the kind are one.
LEMMA StretchOfKind ==
  ASSUME NEW S, NEW steps \in Seq(S), NEW kind, NEW lo \in Nat, NEW hi \in Nat,
         lo <= hi, hi <= Len(steps),
         \A i \in 1..Len(steps) : Catalog[steps[i].type].kind = kind <=> (lo < i /\ i <= hi)
  PROVE  SelectionsOfKind(steps, kind) = Stretch(steps, lo, hi)
  <1> DEFINE N == Len(steps)
             size(n) == IF n <= lo THEN 0 ELSE IF n <= hi THEN n - lo ELSE hi - lo
             part(k) == [i \in 1..k |-> SelectionFromStep(steps[lo + i])]
             next(before, n) == IF Catalog[steps[n].type].kind = kind THEN Append(before, SelectionFromStep(steps[n])) ELSE before
             K(w) == [n \in 0..N |-> IF n = 0 THEN <<>>
                                     ELSE IF Catalog[steps[n].type].kind = kind
                                     THEN Append(w[n - 1], SelectionFromStep(steps[n])) ELSE w[n - 1]]
             W == [n \in 0..N |-> part(size(n))]
             kept == CHOOSE w : w = K(w)
  <1>0. N \in Nat
    OBVIOUS
  <1>1. SelectionsOfKind(steps, kind) = kept[N]
    BY Zenon DEF SelectionsOfKind
  <1>2. \A n \in 1..N : part(size(n)) = next(part(size(n - 1)), n)
    <2> SUFFICES ASSUME NEW n \in 1..N PROVE part(size(n)) = next(part(size(n - 1)), n)
      OBVIOUS
    <2>1. CASE lo < n /\ n <= hi
      <3> DEFINE k == n - 1 - lo
                 R == {SelectionFromStep(steps[i]) : i \in 1..N}
      <3>1. k \in Nat /\ size(n) = k + 1 /\ size(n - 1) = k /\ lo + (k + 1) = n
        BY <2>1
      <3>2. part(k + 1) \in [1..(k + 1) -> R]
        BY <2>1, <3>1
      <3>3. part(k) = [i \in 1..k |-> part(k + 1)[i]] /\ part(k + 1)[k + 1] = SelectionFromStep(steps[n])
        BY <3>1
      <3>4. Append(part(k), SelectionFromStep(steps[n])) = part(k + 1)
        <4> HIDE DEF R, k, part
        <4> QED BY <3>1, <3>2, <3>3, AppendElement
      <3> QED BY <2>1, <3>1, <3>4
    <2>2. CASE ~ (lo < n /\ n <= hi)
      <3>1. size(n) = size(n - 1)
        BY <2>2
      <3> QED BY <2>2, <3>1
    <2> QED BY <2>1, <2>2
  <1>3. W = K(W)
    <2>1. part(size(0)) = <<>>
      BY DEF SelectionFromStep
    <2>2. \A n \in 0..N : W[n] = IF n = 0 THEN <<>> ELSE next(W[n - 1], n)
      <3> SUFFICES ASSUME NEW n \in 0..N PROVE W[n] = IF n = 0 THEN <<>> ELSE next(W[n - 1], n)
        OBVIOUS
      <3>1. W[n] = part(size(n))
        OBVIOUS
      <3>2. CASE n = 0
        <4> HIDE DEF W, part, size
        <4> QED BY <2>1, <3>1, <3>2
      <3>3. CASE n # 0
        <4>1. n \in 1..N /\ n - 1 \in 0..N
          BY <1>0, <3>3
        <4>2. W[n - 1] = part(size(n - 1))
          BY <4>1
        <4> HIDE DEF W, part, size, next
        <4> QED BY <1>2, <3>1, <3>3, <4>1, <4>2
      <3> QED BY <3>2, <3>3
    <2> QED BY <2>2
  <1>4. kept = K(kept)
    <2> HIDE DEF W, K
    <2> QED BY <1>3, Zenon
  <1>5. kept[N] = W[N]
    <2>0. ASSUME NEW w, w = K(w) PROVE w[0] = <<>> /\ \A n \in 1..N : w[n] = next(w[n - 1], n)
      <3>1. ASSUME NEW n \in 0..N PROVE w[n] = K(w)[n]
        BY <2>0, Zenon
      <3>2. ASSUME NEW n \in 0..N PROVE K(w)[n] = IF n = 0 THEN <<>> ELSE next(w[n - 1], n)
        OBVIOUS
      <3> HIDE DEF K, next, N
      <3> QED BY <1>0, <3>1, <3>2
    <2>1. W[0] = kept[0] /\ \A n \in 1..N : W[n] = next(W[n - 1], n) /\ kept[n] = next(kept[n - 1], n)
      <3> HIDE DEF kept, W, K, next, N
      <3>1. W[0] = <<>> /\ \A n \in 1..N : W[n] = next(W[n - 1], n)
        BY <1>3, <2>0
      <3>2. kept[0] = <<>> /\ \A n \in 1..N : kept[n] = next(kept[n - 1], n)
        BY <1>4, <2>0
      <3> QED BY <3>1, <3>2
    <2> DEFINE T == {n \in 0..N : kept[n] # W[n]}
    <2> HIDE DEF kept, W, N, next
    <2> SUFFICES ASSUME T # {} PROVE FALSE
      BY <1>0
    <2>2. T \subseteq Nat
      BY <1>0
    <2>3. PICK n \in T : \A m \in T : n <= m
      BY <2>2, LeastNumber
    <2>4. n \in 1..N /\ n - 1 \in 0..N /\ kept[n] # W[n]
      BY <1>0, <2>1, <2>3
    <2>5. kept[n - 1] = W[n - 1]
      BY <2>3, <2>4
    <2> QED BY <2>1, <2>4, <2>5
  <1>6. size(N) = hi - lo
    OBVIOUS
  <1> HIDE DEF kept, size
  <1> QED BY <1>0, <1>1, <1>5, <1>6 DEF Stretch

\* The N rows of a chain, in whatever order: each step is in one row, and each
\* edge joins a step to the next.
RowsFit(steps, edges, rows, n, N) ==
  /\ N \in Nat /\ DOMAIN steps = 1..N /\ rows \in Seq(Steps(n)) /\ DOMAIN rows = 1..N /\ Len(rows) = N
  /\ \A i \in 1..N : \E k \in 1..N : rows[i] = steps[k]
  /\ \A k \in 1..N : \E i \in 1..N : rows[i] = steps[k] /\ \A j \in 1..N : rows[j].id = steps[k].id => j = i
  /\ \A e \in DOMAIN edges : e \in 1..N /\ e + 1 \in 1..N /\ edges[e].from = steps[e].id /\ edges[e].to = steps[e + 1].id
  /\ \A k \in 1..(N - 1) : k \in DOMAIN edges

\* The rows of a stored chain do.
LEMMA RowsOfChain ==
  ASSUME NEW g, NEW n \in Nat, ChainGraph(g, n), NEW rows \in Orders(g.steps)
  PROVE  RowsFit(g.steps, g.edges, rows, n, Len(g.steps))
  <1> DEFINE steps == g.steps
             N == Len(steps)
  <1>1. steps \in Seq(Steps(n)) /\ N \in Nat /\ DOMAIN steps = 1..N
    BY DEF ChainGraph
  <1>2. PICK f \in Bijection(1..N, 1..N) : rows = [i \in 1..N |-> steps[f[i]]]
    BY <1>1, Zenon DEF Orders
  <1>3. /\ f \in [1..N -> 1..N]
        /\ \A a, b \in 1..N : f[a] = f[b] => a = b
        /\ \A k \in 1..N : \E i \in 1..N : f[i] = k
    BY <1>2 DEF Bijection, Injection, Surjection, IsInjective
  <1>4. rows \in [1..N -> Steps(n)]
    BY <1>1, <1>2, <1>3, ElementOfSeq
  <1>5. rows \in Seq(Steps(n)) /\ DOMAIN rows = 1..N /\ Len(rows) = N
    BY <1>1, <1>4, SeqDef
  <1>6. \A i \in 1..N : \E k \in 1..N : rows[i] = steps[k]
    BY <1>2, <1>3
  <1>7. \A k \in 1..N : \E i \in 1..N : rows[i] = steps[k] /\ \A j \in 1..N : rows[j].id = steps[k].id => j = i
    <2> SUFFICES ASSUME NEW k \in 1..N
                 PROVE \E i \in 1..N : rows[i] = steps[k] /\ \A j \in 1..N : rows[j].id = steps[k].id => j = i
      OBVIOUS
    <2>1. PICK i \in 1..N : f[i] = k
      BY <1>3
    <2>2. \A a, b \in 1..N : steps[a].id = steps[b].id => a = b
      BY <1>1 DEF ChainGraph
    <2>3. rows[i] = steps[k]
      BY <1>2, <2>1
    <2>4. ASSUME NEW j \in 1..N, rows[j].id = steps[k].id PROVE j = i
      <3>1. rows[j] = steps[f[j]] /\ f[j] \in 1..N
        BY <1>2, <1>3
      <3> QED BY <1>3, <2>1, <2>2, <2>4, <3>1
    <2> QED BY <2>3, <2>4
  <1>8. g.edges = DerivePipelineBuilderEdges(steps)
    <2>1. g = [named |-> g.named, steps |-> g.steps, edges |-> DerivePipelineBuilderEdges(g.steps)]
      BY DEF ChainGraph
    <2> QED BY <2>1
  <1>9. steps = <<>> <=> N = 0
    BY <1>1, EmptySeq
  <1>10. DOMAIN g.edges = 1..(IF N = 0 THEN 0 ELSE N - 1)
        /\ \A e \in DOMAIN g.edges : g.edges[e] = [from |-> steps[e].id, to |-> steps[e + 1].id]
    BY <1>8, <1>9 DEF DerivePipelineBuilderEdges
  <1> HIDE DEF N
  <1>11. \A e \in DOMAIN g.edges : e \in 1..N /\ e + 1 \in 1..N /\ g.edges[e].from = steps[e].id /\ g.edges[e].to = steps[e + 1].id
    <2> SUFFICES ASSUME NEW e \in DOMAIN g.edges
                 PROVE  e \in 1..N /\ e + 1 \in 1..N /\ g.edges[e].from = steps[e].id /\ g.edges[e].to = steps[e + 1].id
      OBVIOUS
    <2>1. g.edges[e] = [from |-> steps[e].id, to |-> steps[e + 1].id]
      BY <1>10
    <2>2. e \in 1..N /\ e + 1 \in 1..N
      BY <1>1, <1>10
    <2> QED BY <2>1, <2>2
  <1>12. \A k \in 1..(N - 1) : k \in DOMAIN g.edges
    BY <1>1, <1>10
  <1>13. RowsFit(steps, g.edges, rows, n, N)
    BY <1>1, <1>5, <1>6, <1>7, <1>11, <1>12, Zenon DEF RowsFit
  <1> QED BY <1>13 DEF N

\* The head of the chain is the only row that no edge leads to.
LEMMA HeadOfChain ==
  ASSUME NEW g, NEW n \in Nat, ChainGraph(g, n), NEW rows \in Orders(g.steps), g.steps # <<>>
  PROVE  LET heads == {i \in DOMAIN rows : \A e \in DOMAIN g.edges : g.edges[e].to # rows[i].id}
         IN  heads # {} /\ rows[Min(heads)] = g.steps[1]
  <1> DEFINE steps == g.steps
             N == Len(steps)
             heads == {i \in DOMAIN rows : \A e \in DOMAIN g.edges : g.edges[e].to # rows[i].id}
  <1>rows. RowsFit(steps, g.edges, rows, n, N)
    BY RowsOfChain, Zenon
  <1>1. /\ N \in Nat /\ DOMAIN steps = 1..N /\ DOMAIN rows = 1..N
        /\ \A i \in 1..N : \E k \in 1..N : rows[i] = steps[k]
        /\ \A k \in 1..N : \E i \in 1..N : rows[i] = steps[k] /\ \A j \in 1..N : rows[j].id = steps[k].id => j = i
        /\ \A e \in DOMAIN g.edges : e \in 1..N /\ e + 1 \in 1..N /\ g.edges[e].from = steps[e].id /\ g.edges[e].to = steps[e + 1].id
        /\ \A k \in 1..(N - 1) : k \in DOMAIN g.edges
    BY <1>rows, Zenon DEF RowsFit
  <1>2. N > 0 /\ \A a, b \in 1..N : steps[a].id = steps[b].id => a = b
    <2>1. steps \in Seq(Steps(n)) /\ \A a, b \in DOMAIN steps : steps[a].id = steps[b].id => a = b
      BY DEF ChainGraph
    <2>2. N # 0
      BY <2>1, EmptySeq
    <2> HIDE DEF N
    <2>3. N > 0
      BY <1>1, <2>2
    <2>4. DOMAIN steps = 1..N
      BY <1>1
    <2> QED BY <2>1, <2>3, <2>4
  <1> HIDE DEF N
  <1>3. PICK h \in 1..N : rows[h] = steps[1] /\ \A j \in 1..N : rows[j].id = steps[1].id => j = h
    <2>1. 1 \in 1..N
      BY <1>1, <1>2
    <2> QED BY <1>1, <2>1
  <1>4. h \in heads
    <2>1. ASSUME NEW e \in DOMAIN g.edges PROVE g.edges[e].to # rows[h].id
      <3>1. e \in 1..N /\ e + 1 \in 1..N /\ g.edges[e].to = steps[e + 1].id
        BY <1>1
      <3>2. 1 \in 1..N /\ e + 1 # 1
        BY <1>1, <3>1
      <3> QED BY <1>2, <1>3, <3>1, <3>2
    <2> QED BY <1>1, <2>1
  <1>5. ASSUME NEW i \in heads PROVE i = h
    <2>1. PICK k \in 1..N : rows[i] = steps[k]
      BY <1>1
    <2>2. CASE k = 1
      BY <1>1, <1>3, <2>1, <2>2
    <2>3. CASE k # 1
      <3>0. N \in Nat
        BY <1>1, Zenon
      <3>1. PICK e \in 1..(N - 1) : e + 1 = k
        <4>1. k - 1 \in 1..(N - 1) /\ (k - 1) + 1 = k
          BY <2>3, <3>0
        <4> QED BY <4>1
      <3>2. e \in DOMAIN g.edges
        BY <1>1, Zenon
      <3>3. g.edges[e].to = steps[e + 1].id
        BY <1>1, <3>2, Zenon
      <3> QED BY <2>1, <3>1, <3>2, <3>3
    <2> QED BY <2>2, <2>3
  <1>6. Min(heads) = h
    <2> HIDE DEF heads
    <2>1. \E x \in heads : \A y \in heads : x <= y
      BY <1>4, <1>5
    <2>2. Min(heads) \in heads
      BY <2>1, Zenon DEF Min
    <2> QED BY <1>5, <2>2
  <1> QED BY <1>3, <1>4, <1>6

\* From a step of the chain the loop goes on to the next one.
LEMMA FollowChain ==
  ASSUME NEW g, NEW n \in Nat, ChainGraph(g, n), NEW rows \in Orders(g.steps),
         NEW k \in 1..(Len(g.steps) - 1), NEW before \in Seq(Steps(n)), before # <<>>, Last(before) = g.steps[k]
  PROVE  FollowEdge(rows, g.edges, before) = Append(before, g.steps[k + 1])
  <1> DEFINE steps == g.steps
             N == Len(steps)
             r == [steps |-> rows, edges |-> g.edges]
             out == {e \in DOMAIN g.edges : g.edges[e].from = Last(before).id}
  <1>rows. RowsFit(steps, g.edges, rows, n, N)
    BY RowsOfChain, Zenon
  <1>1. /\ N \in Nat /\ DOMAIN steps = 1..N /\ DOMAIN rows = 1..N
        /\ \A j \in 1..N : \E i \in 1..N : rows[i] = steps[j] /\ \A m \in 1..N : rows[m].id = steps[j].id => m = i
        /\ \A e \in DOMAIN g.edges : e \in 1..N /\ e + 1 \in 1..N /\ g.edges[e].from = steps[e].id /\ g.edges[e].to = steps[e + 1].id
        /\ \A e \in 1..(N - 1) : e \in DOMAIN g.edges
    BY <1>rows, Zenon DEF RowsFit
  <1>2. \A a, b \in 1..N : steps[a].id = steps[b].id => a = b
    <2>1. \A a, b \in DOMAIN steps : steps[a].id = steps[b].id => a = b
      BY DEF ChainGraph
    <2>2. DOMAIN steps = 1..N
      BY <1>1, Zenon
    <2> HIDE DEF N, steps
    <2> QED BY <2>1, <2>2, Zenon
  <1>0. k \in 1..(N - 1)
    OBVIOUS
  <1> HIDE DEF N
  <1>3. k \in 1..N /\ k + 1 \in 1..N /\ k \in DOMAIN g.edges
    BY <1>0, <1>1
  <1>4. out = {k}
    <2>1. \A e \in DOMAIN g.edges : e \in 1..N /\ g.edges[e].from = steps[e].id
      BY <1>1
    <2> QED BY <1>2, <1>3, <2>1
  <1>5. Max(out) = k
    BY <1>3, <1>4 DEF Max
  <1>6. g.edges[k].to = steps[k + 1].id
    BY <1>1, <1>3
  <1>7. PICK i \in 1..N : rows[i] = steps[k + 1] /\ \A m \in 1..N : rows[m].id = steps[k + 1].id => m = i
    BY <1>1, <1>3
  <1>8. steps[k + 1].id \in StepIds(r)
    BY <1>1, <1>7 DEF StepIds
  <1>9. StepById(r, steps[k + 1].id) = steps[k + 1]
    <2> DEFINE P(x) == /\ r.steps[x].id = steps[k + 1].id
                       /\ \A j \in DOMAIN r.steps : j > x => r.steps[j].id # steps[k + 1].id
               c == CHOOSE x \in DOMAIN r.steps : P(x)
    <2>1. DOMAIN r.steps = 1..N /\ r.steps = rows
      BY <1>1
    <2>2. P(i)
      BY <1>7, <2>1
    <2>3. c \in 1..N /\ P(c)
      BY <2>1, <2>2, Zenon
    <2>4. c = i
      BY <1>7, <2>1, <2>3
    <2>5. StepById(r, steps[k + 1].id) = r.steps[c]
      BY DEF StepById
    <2> QED BY <1>7, <2>1, <2>4, <2>5
  <1> HIDE DEF out, r
  <1>10. FollowEdge(rows, g.edges, before) =
          IF out # {} /\ g.edges[Max(out)].to \in StepIds(r)
          THEN Append(before, StepById(r, g.edges[Max(out)].to)) ELSE before
    BY DEF FollowEdge, out, r
  <1> QED BY <1>4, <1>5, <1>6, <1>8, <1>9, <1>10

\* Following the edges gives the steps in the order of the chain.
LEMMA OrderRestored ==
  ASSUME NEW g, NEW n \in Nat, ChainGraph(g, n), NEW rows \in Orders(g.steps)
  PROVE  OrderStepsByEdges(rows, g.edges) = g.steps
  <1> DEFINE steps == g.steps
             N == Len(steps)
             heads == {i \in DOMAIN rows : \A e \in DOMAIN g.edges : g.edges[e].to # rows[i].id}
             prefix(m) == [i \in 1..m |-> steps[i]]
             round(before, m) == IF m = 1 THEN <<rows[Min(heads)]>> ELSE FollowEdge(rows, g.edges, before)
             K(w) == [m \in DOMAIN rows |->
                        IF m = 1 THEN <<rows[Min(heads)]>> ELSE FollowEdge(rows, g.edges, w[m - 1])]
             W == [m \in DOMAIN rows |-> prefix(m)]
             ordered == CHOOSE w : w = K(w)
  <1>rows. RowsFit(steps, g.edges, rows, n, N)
    BY RowsOfChain, Zenon
  <1>1. N \in Nat /\ DOMAIN steps = 1..N /\ DOMAIN rows = 1..N /\ Len(rows) = N /\ rows \in Seq(Steps(n))
    BY <1>rows, Zenon DEF RowsFit
  <1>2. OrderStepsByEdges(rows, g.edges) = IF heads = {} THEN rows ELSE ordered[Len(rows)]
    BY Zenon DEF OrderStepsByEdges
  <1>3. steps \in Seq(Steps(n))
    BY DEF ChainGraph
  <1>4. CASE steps = <<>>
    <2>1. N = 0
      BY <1>4
    <2>2. heads = {} /\ rows = <<>>
      BY <1>1, <2>1, EmptySeq
    <2> QED BY <1>2, <1>4, <2>2
  <1>5. CASE steps # <<>>
    <2>1. heads # {} /\ rows[Min(heads)] = steps[1]
      BY <1>5, HeadOfChain
    <2>2. N > 0
      BY <1>1, <1>3, <1>5, EmptySeq
    <2> HIDE DEF heads
    <2>3. ASSUME NEW m \in 1..N PROVE prefix(m) = round(prefix(m - 1), m)
      <3>1. CASE m = 1
        <4>1. prefix(m) = <<steps[1]>>
          BY <3>1
        <4> QED BY <2>1, <3>1, <4>1
      <3>2. CASE m # 1
        <4> DEFINE k == m - 1
        <4>1. k \in Nat /\ k + 1 = m /\ k \in 1..(N - 1) /\ k # 0
          BY <1>1, <3>2
        <4>2. \A i \in 1..N : steps[i] \in Steps(n)
          BY <1>3, ElementOfSeq
        <4>3. prefix(k + 1) \in [1..(k + 1) -> Steps(n)]
          BY <1>1, <4>1, <4>2
        <4>4. prefix(k) = [i \in 1..k |-> prefix(k + 1)[i]] /\ prefix(k + 1)[k + 1] = steps[k + 1]
          BY <4>1
        <4>5. prefix(k) \in [1..k -> Steps(n)] /\ prefix(k)[k] = steps[k]
          BY <1>1, <4>1, <4>2
        <4> HIDE DEF k, prefix
        <4>6. prefix(k) \in Seq(Steps(n)) /\ Append(prefix(k), steps[k + 1]) = prefix(k + 1)
          <5>1. PICK f, s : f = prefix(k + 1) /\ s = prefix(k)
            OBVIOUS
          <5>2. f \in [1..(k + 1) -> Steps(n)] /\ s = [i \in 1..k |-> f[i]]
            BY <4>3, <4>4, <5>1
          <5>3. s \in Seq(Steps(n)) /\ Append(s, f[k + 1]) = f
            BY <4>1, <5>2, AppendElement
          <5> QED BY <4>4, <5>1, <5>3
        <4>7. Len(prefix(k)) = k
          BY <4>1, <4>5, <4>6, LenProperties
        <4>8. prefix(k) # <<>> /\ Last(prefix(k)) = steps[k]
          BY <4>1, <4>5, <4>6, <4>7, EmptySeq DEF Last
        <4>9. FollowEdge(rows, g.edges, prefix(k)) = Append(prefix(k), steps[k + 1])
          BY <4>1, <4>6, <4>8, FollowChain
        <4> QED BY <3>2, <4>1, <4>6, <4>9 DEF k
      <3> QED BY <3>1, <3>2
    <2> HIDE DEF prefix, round, N
    <2>4. W = K(W)
      <3>1. ASSUME NEW m \in 1..N PROVE prefix(m) = IF m = 1 THEN <<rows[Min(heads)]>> ELSE FollowEdge(rows, g.edges, W[m - 1])
        <4>1. CASE m = 1
          BY <2>3, <4>1 DEF round
        <4>2. CASE m # 1
          <5>1. m - 1 \in 1..N
            BY <1>1, <4>2
          <5>2. W[m - 1] = prefix(m - 1)
            BY <1>1, <5>1
          <5> QED BY <2>3, <4>2, <5>2 DEF round
        <4> QED BY <4>1, <4>2
      <3> QED BY <1>1, <3>1
    <2>5. ordered = K(ordered)
      <3> HIDE DEF W, K
      <3> QED BY <2>4, Zenon
    <2>6. ASSUME NEW w, w = K(w), NEW m \in 1..N PROVE w[m] = round(w[m - 1], m)
      <3>1. w[m] = K(w)[m]
        BY <2>6, Zenon
      <3> QED BY <1>1, <3>1 DEF round
    <2>7. ordered[N] = W[N]
      <3> DEFINE T == {m \in 1..N : ordered[m] # W[m]}
      <3>0. \A m \in 1..N : W[m] = round(W[m - 1], m) /\ ordered[m] = round(ordered[m - 1], m)
        <4> HIDE DEF W, K, ordered
        <4> QED BY <2>4, <2>5, <2>6
      <3> HIDE DEF W, ordered
      <3> SUFFICES ASSUME T # {} PROVE FALSE
        BY <1>1, <2>2 DEF N
      <3>1. T \subseteq Nat
        BY <1>1
      <3>2. PICK m \in T : \A x \in T : m <= x
        BY <3>1, LeastNumber
      <3>3. m \in 1..N /\ ordered[m] # W[m]
        BY <3>2
      <3>4. CASE m = 1
        BY <3>0, <3>3, <3>4 DEF round
      <3>5. CASE m # 1
        <4>1. m - 1 \in 1..N /\ ~ (m <= m - 1)
          BY <1>1, <3>3, <3>5
        <4>2. ordered[m - 1] = W[m - 1]
          BY <3>2, <4>1
        <4> QED BY <3>0, <3>3, <4>2
      <3> QED BY <3>4, <3>5
    <2>8. W[N] = steps
      <3>1. W[N] = prefix(N)
        BY <1>1, <2>2
      <3>2. prefix(N) = steps
        BY <1>1, <1>3 DEF prefix
      <3> QED BY <3>1, <3>2
    <2> HIDE DEF ordered, W
    <2> QED BY <1>1, <1>2, <2>1, <2>7, <2>8
  <1> QED BY <1>4, <1>5

-----------------------------------------------------------------------------
(* Drafts and the graphs they become *)

AnySelections(n) == [id : 1..n, type : DOMAIN Catalog, values : Values]

\* A sequence over a set is one over any larger set.
LEMMA SeqMonotone == ASSUME NEW A, NEW B, A \subseteq B, NEW s \in Seq(A) PROVE s \in Seq(B)
  <1>1. s \in [1..Len(s) -> B] /\ Len(s) \in Nat
    BY ElementOfSeq
  <1> QED BY <1>1, SeqDef

\* The slots one after the other.
LEMMA ChainOfDraft ==
  ASSUME NEW n \in Nat, NEW d, DraftOK(d, n)
  PROVE  LET a == Len(d.source)
             t == Len(d.transforms)
             b == Len(d.export)
             c == d.source \o d.transforms \o d.export
         IN  /\ a \in 0..1 /\ t \in Nat /\ b \in 0..1
             /\ c \in Seq(AnySelections(n)) /\ Len(c) = a + t + b /\ DOMAIN c = 1..(a + t + b)
             /\ \A i \in 1..a : c[i] = d.source[i] /\ d.source[i] \in SelectionsOf("source", n)
             /\ \A i \in (a + 1)..(a + t) : c[i] = d.transforms[i - a] /\ d.transforms[i - a] \in SelectionsOf("transform", n)
             /\ \A i \in (a + t + 1)..(a + t + b) : c[i] = d.export[i - a - t] /\ d.export[i - a - t] \in SelectionsOf("export", n)
  <1> DEFINE S == AnySelections(n)
             a == Len(d.source)
             t == Len(d.transforms)
             b == Len(d.export)
             c == d.source \o d.transforms \o d.export
  <1>1. /\ d.source \in Seq(SelectionsOf("source", n)) /\ d.transforms \in Seq(SelectionsOf("transform", n))
        /\ d.export \in Seq(SelectionsOf("export", n)) /\ a <= 1 /\ b <= 1
    BY DEF DraftOK
  <1>2. \A kind : SelectionsOf(kind, n) \subseteq S
    BY DEF SelectionsOf, AnySelections, Types
  <1>3. d.source \in Seq(S) /\ d.transforms \in Seq(S) /\ d.export \in Seq(S)
    BY <1>1, <1>2, SeqMonotone
  <1> HIDE DEF S
  <1>4. PICK x, y, z : x = d.source /\ y = d.transforms /\ z = d.export
    OBVIOUS
  <1>5. /\ x \o y \in Seq(S) /\ Len(x \o y) = Len(x) + Len(y)
        /\ \A i \in 1..(Len(x) + Len(y)) : (x \o y)[i] = IF i <= Len(x) THEN x[i] ELSE y[i - Len(x)]
    BY <1>3, <1>4, ConcatProperties
  <1>6. /\ (x \o y) \o z \in Seq(S) /\ Len((x \o y) \o z) = Len(x) + Len(y) + Len(z)
        /\ \A i \in 1..(Len(x) + Len(y) + Len(z)) :
             ((x \o y) \o z)[i] = IF i <= Len(x) + Len(y) THEN (x \o y)[i] ELSE z[i - (Len(x) + Len(y))]
    <2>1. PICK u \in Seq(S) : u = x \o y
      BY <1>5
    <2>2. /\ u \o z \in Seq(S) /\ Len(u \o z) = Len(u) + Len(z)
          /\ \A i \in 1..(Len(u) + Len(z)) : (u \o z)[i] = IF i <= Len(u) THEN u[i] ELSE z[i - Len(u)]
      BY <1>3, <1>4, ConcatProperties
    <2> QED BY <1>5, <2>1, <2>2
  <1>7. c = (x \o y) \o z /\ a = Len(x) /\ t = Len(y) /\ b = Len(z) /\ a \in Nat /\ t \in Nat /\ b \in Nat
    BY <1>1, <1>4
  <1>8. /\ \A i \in 1..a : x[i] \in SelectionsOf("source", n)
        /\ \A i \in 1..t : y[i] \in SelectionsOf("transform", n)
        /\ \A i \in 1..b : z[i] \in SelectionsOf("export", n)
    BY <1>1, <1>4, <1>7, ElementOfSeq
  <1>0. a <= 1 /\ b <= 1
    BY <1>1
  <1> HIDE DEF a, b, t, c
  <1>9. c \in Seq(S) /\ Len(c) = a + t + b /\ DOMAIN c = 1..(a + t + b)
    BY <1>6, <1>7
  <1>10. \A i \in 1..a : c[i] = x[i]
    BY <1>5, <1>6, <1>7
  <1>11. \A i \in (a + 1)..(a + t) : c[i] = y[i - a] /\ i - a \in 1..t
    BY <1>5, <1>6, <1>7
  <1>12. \A i \in (a + t + 1)..(a + t + b) : c[i] = z[i - a - t] /\ i - a - t \in 1..b
    BY <1>6, <1>7
  <1>13. a \in 0..1 /\ b \in 0..1
    BY <1>0, <1>7
  <1>14. /\ \A i \in 1..a : c[i] = d.source[i] /\ d.source[i] \in SelectionsOf("source", n)
         /\ \A i \in (a + 1)..(a + t) : c[i] = d.transforms[i - a] /\ d.transforms[i - a] \in SelectionsOf("transform", n)
         /\ \A i \in (a + t + 1)..(a + t + b) : c[i] = d.export[i - a - t] /\ d.export[i - a - t] \in SelectionsOf("export", n)
    BY <1>4, <1>8, <1>10, <1>11, <1>12
  <1> QED BY <1>7, <1>9, <1>13, <1>14 DEF a, b, c, t, S

\* What a draft becomes is a chain, and its Source is the draft's.
LEMMA DerivedGraph ==
  ASSUME NEW n \in Nat, NEW d, DraftOK(d, n)
  PROVE  LET g == DerivePipelineBuilderGraph(d) IN
         /\ ChainGraph(g, n) /\ g.named = d.named
         /\ \A i \in DOMAIN g.steps : g.steps[i].kind = "source" => d.source # <<>> /\ g.steps[i].id = d.source[1].id
  <1> DEFINE a == Len(d.source)
             t == Len(d.transforms)
             b == Len(d.export)
             c == d.source \o d.transforms \o d.export
             L == a + t + b
             steps == DerivePipelineBuilderSteps(d)
             g == DerivePipelineBuilderGraph(d)
  <1>1. /\ a \in 0..1 /\ t \in Nat /\ b \in 0..1
        /\ c \in Seq(AnySelections(n)) /\ Len(c) = L /\ DOMAIN c = 1..L
        /\ \A i \in 1..a : c[i] = d.source[i] /\ d.source[i] \in SelectionsOf("source", n)
        /\ \A i \in (a + 1)..(a + t) : c[i] = d.transforms[i - a] /\ d.transforms[i - a] \in SelectionsOf("transform", n)
        /\ \A i \in (a + t + 1)..L : c[i] = d.export[i - a - t] /\ d.export[i - a - t] \in SelectionsOf("export", n)
    BY ChainOfDraft
  <1>2. /\ DOMAIN d.source = 1..a /\ DOMAIN d.transforms = 1..t /\ DOMAIN d.export = 1..b
        /\ (a > 0 => d.source # <<>>)
    BY DEF DraftOK
  <1>3. steps = [i \in 1..L |-> PipelineStepFromSelection(c[i])]
    <2>1. steps = [i \in DOMAIN c |-> PipelineStepFromSelection(c[i])]
      BY Zenon DEF DerivePipelineBuilderSteps
    <2> HIDE DEF c, steps
    <2> QED BY <1>1, <2>1
  <1>4. \A i, j \in 1..t : d.transforms[i].id = d.transforms[j].id => i = j
    BY <1>2 DEF DraftOK, DistinctIds
  <1>5. /\ \A i \in 1..a, j \in 1..t : d.source[i].id # d.transforms[j].id
        /\ \A i \in 1..a, j \in 1..b : d.source[i].id # d.export[j].id
        /\ \A i \in 1..t, j \in 1..b : d.transforms[i].id # d.export[j].id
    BY <1>2 DEF DraftOK, Apart
  <1> HIDE DEF a, t, b, c, steps
  <1>6. L \in Nat /\ \A i \in 1..L : i \in 1..a \/ i \in (a + 1)..(a + t) \/ i \in (a + t + 1)..L
    BY <1>1
  <1> HIDE DEF L
  <1>7. ASSUME NEW i \in 1..L
        PROVE  /\ c[i] \in AnySelections(n)
               /\ i \in 1..a => Catalog[c[i].type].kind = "source"
               /\ i \in (a + 1)..(a + t) => Catalog[c[i].type].kind = "transform"
               /\ i \in (a + t + 1)..L => Catalog[c[i].type].kind = "export"
    <2>1. c[i] \in AnySelections(n)
      BY <1>1, ElementOfSeq
    <2>2. \A kind : \A s \in SelectionsOf(kind, n) : Catalog[s.type].kind = kind
      BY DEF SelectionsOf, Types
    <2>3. /\ i \in 1..a => c[i] \in SelectionsOf("source", n)
          /\ i \in (a + 1)..(a + t) => c[i] \in SelectionsOf("transform", n)
          /\ i \in (a + t + 1)..L => c[i] \in SelectionsOf("export", n)
      BY <1>1
    <2> QED BY <2>1, <2>2, <2>3
  <1>8. ASSUME NEW i \in 1..L
        PROVE  /\ steps[i] = [id |-> c[i].id, kind |-> Catalog[c[i].type].kind, type |-> c[i].type, values |-> c[i].values]
               /\ steps[i] \in Steps(n)
               /\ steps[i].kind = Catalog[steps[i].type].kind /\ steps[i].id = c[i].id
               /\ steps[i].kind = Catalog[c[i].type].kind
    <2>1. steps[i] = [id |-> c[i].id, kind |-> Catalog[c[i].type].kind, type |-> c[i].type, values |-> c[i].values]
      BY <1>3 DEF PipelineStepFromSelection
    <2>2. Catalog[c[i].type].kind \in Kinds
      BY <1>6, <1>7 DEF Kinds
    <2>3. c[i] \in [id : 1..n, type : DOMAIN Catalog, values : Values]
      BY <1>7 DEF AnySelections
    <2> QED BY <2>1, <2>2, <2>3 DEF Steps
  <1>9. steps \in Seq(Steps(n)) /\ Len(steps) = L /\ DOMAIN steps = 1..L
    <2>1. steps \in [1..L -> Steps(n)]
      BY <1>3, <1>8
    <2> QED BY <1>6, <2>1, SeqDef, LenProperties
  <1>10. g = [named |-> d.named, steps |-> steps, edges |-> DerivePipelineBuilderEdges(steps)]
    BY DEF DerivePipelineBuilderGraph, steps
  <1>11. g.named = d.named /\ g.steps = steps /\ g.edges = DerivePipelineBuilderEdges(steps) /\ d.named \in BOOLEAN
    <2> HIDE DEF g
    <2>1. d.named \in BOOLEAN
      BY DEF DraftOK
    <2> QED BY <1>10, <2>1
  <1>12. ASSUME NEW i \in 1..L
         PROVE  /\ steps[i].kind = "source" => i \in 1..a
                /\ steps[i].kind = "export" => i \in (a + t + 1)..L
    <2>1. steps[i].kind = Catalog[c[i].type].kind
      BY <1>8
    <2>2. CASE i \in 1..a
      BY <1>7, <2>1, <2>2
    <2>3. CASE i \in (a + 1)..(a + t)
      BY <1>7, <2>1, <2>3
    <2>4. CASE i \in (a + t + 1)..L
      BY <1>7, <2>1, <2>4
    <2> QED BY <1>6, <2>2, <2>3, <2>4
  <1>13. ASSUME NEW i \in 1..L, steps[i].kind = "source" PROVE i = 1 /\ d.source # <<>> /\ steps[i].id = d.source[1].id
    <2>1. i \in 1..a
      BY <1>12, <1>13
    <2>2. i = 1 /\ a > 0 /\ c[i] = d.source[i]
      BY <1>1, <2>1
    <2> QED BY <1>2, <1>8, <2>2
  <1>14. ASSUME NEW i \in 1..L, steps[i].kind = "export" PROVE i = L
    BY <1>1, <1>12, <1>14 DEF L
  <1>15. ASSUME NEW i \in 1..L, NEW j \in 1..L, c[i].id = c[j].id PROVE i = j
    <2> DEFINE first == 1..a
               middle == (a + 1)..(a + t)
               last == (a + t + 1)..L
    <2>1. /\ \A k \in first : c[k] = d.source[k] /\ k = 1
          /\ \A k \in middle : c[k] = d.transforms[k - a] /\ k - a \in 1..t
          /\ \A k \in last : c[k] = d.export[k - a - t] /\ k - a - t \in 1..b /\ k = L
      BY <1>1 DEF L
    <2>2. i \in first \/ i \in middle \/ i \in last
      BY <1>6
    <2>3. j \in first \/ j \in middle \/ j \in last
      BY <1>6
    <2> HIDE DEF first, middle, last
    <2>4. CASE i \in middle /\ j \in middle
      <3>1. i - a = j - a
        BY <1>4, <1>15, <2>1, <2>4
      <3> QED BY <1>1, <1>6, <3>1
    <2>5. CASE (i \in first /\ j \in first) \/ (i \in last /\ j \in last)
      BY <2>1, <2>5
    <2>6. CASE (i \in first /\ j \in middle) \/ (i \in middle /\ j \in first)
      BY <1>5, <1>15, <2>1, <2>6 DEF first
    <2>7. CASE (i \in first /\ j \in last) \/ (i \in last /\ j \in first)
      BY <1>5, <1>15, <2>1, <2>7 DEF first
    <2>8. CASE (i \in middle /\ j \in last) \/ (i \in last /\ j \in middle)
      BY <1>5, <1>15, <2>1, <2>8
    <2> QED BY <2>2, <2>3, <2>4, <2>5, <2>6, <2>7, <2>8
  <1>16. ASSUME NEW i \in 1..L, NEW j \in 1..L, steps[i].id = steps[j].id PROVE i = j
    BY <1>8, <1>15, <1>16
  <1>17. ChainGraph(g, n)
    <2> HIDE DEF g
    <2>1. g = [named |-> g.named, steps |-> g.steps, edges |-> DerivePipelineBuilderEdges(g.steps)]
      BY <1>10, <1>11
    <2> QED BY <2>1, <1>8, <1>9, <1>11, <1>13, <1>14, <1>16 DEF ChainGraph
  <1>18. \A i \in DOMAIN g.steps : g.steps[i].kind = "source" => d.source # <<>> /\ g.steps[i].id = d.source[1].id
    <2> HIDE DEF g
    <2> QED BY <1>9, <1>11, <1>13
  <1> QED BY <1>11, <1>17, <1>18

\* Resuming inverts saving: from the rows in any order comes a draft whose graph
\* is the one that was stored (createPipelineBuilderDraftFromPipeline).
LEMMA ResumedDraft ==
  ASSUME NEW g, NEW n \in Nat, ChainGraph(g, n), NEW rows \in Orders(g.steps)
  PROVE  LET d == CreatePipelineBuilderDraftFromPipeline(g, rows)
         IN  DraftOK(d, n) /\ DerivePipelineBuilderGraph(d) = g
  <1> DEFINE steps == g.steps
             N == Len(steps)
             d == CreatePipelineBuilderDraftFromPipeline(g, rows)
             lo == IF N > 0 /\ steps[1].kind = "source" THEN 1 ELSE 0
             hi == IF N > 0 /\ steps[N].kind = "export" THEN N - 1 ELSE N
             stretch(from, to) == Stretch(steps, from, to)
             found(kind) == SelectionsOfKind(steps, kind)
             find(kind) == IF found(kind) = <<>> THEN <<>> ELSE <<found(kind)[1]>>
  <1>1. /\ steps \in Seq(Steps(n)) /\ N \in Nat /\ DOMAIN steps = 1..N /\ g.named \in BOOLEAN
        /\ g = [named |-> g.named, steps |-> steps, edges |-> DerivePipelineBuilderEdges(steps)]
    BY DEF ChainGraph
  <1>2. ASSUME NEW i \in 1..N
        PROVE  /\ steps[i] \in Steps(n) /\ steps[i].kind = Catalog[steps[i].type].kind
               /\ steps[i].kind \in Kinds
               /\ steps[i].kind = "source" => i = 1
               /\ steps[i].kind = "export" => i = N
               /\ \A j \in 1..N : steps[i].id = steps[j].id => i = j
    <2>1. i \in DOMAIN steps
      BY <1>1
    <2>2. steps[i] \in Steps(n)
      BY <1>1, ElementOfSeq
    <2>3. steps[i].kind \in Kinds
      BY <2>2 DEF Steps
    <2> QED BY <1>1, <2>1, <2>2, <2>3 DEF ChainGraph
  <1>3. /\ OrderStepsByEdges(rows, g.edges) = steps
    BY OrderRestored
  <1>4. d = [dirty |-> FALSE, named |-> g.named, source |-> find("source"),
             transforms |-> found("transform"), export |-> find("export")]
    BY <1>3, Zenon DEF CreatePipelineBuilderDraftFromPipeline
  <1> HIDE DEF N
  <1>5. lo \in 0..1 /\ hi \in 0..N /\ N - hi \in 0..1 /\ lo <= hi /\ lo <= N
    <2>1. CASE N = 0
      BY <2>1
    <2>2. CASE N > 0
      <3>1. N \in 1..N /\ 1 \in 1..N
        BY <1>1, <2>2
      <3>2. N = 1 => ~ (steps[1].kind = "source" /\ steps[N].kind = "export")
        OBVIOUS
      <3> QED BY <1>1, <2>2, <3>1, <3>2
    <2> QED BY <1>1, <2>1, <2>2
  <1>6. ASSUME NEW i \in 1..N
        PROVE  /\ Catalog[steps[i].type].kind = "source" <=> (0 < i /\ i <= lo)
               /\ Catalog[steps[i].type].kind = "transform" <=> (lo < i /\ i <= hi)
               /\ Catalog[steps[i].type].kind = "export" <=> (hi < i /\ i <= N)
    <2>1. steps[i].kind = "source" <=> (0 < i /\ i <= lo)
      BY <1>1, <1>2
    <2>2. steps[i].kind = "export" <=> (hi < i /\ i <= N)
      BY <1>1, <1>2
    <2>3. steps[i].kind = "transform" <=> ~ (steps[i].kind = "source" \/ steps[i].kind = "export")
      BY <1>2 DEF Kinds
    <2>4. (lo < i /\ i <= hi) <=> ~ ((0 < i /\ i <= lo) \/ (hi < i /\ i <= N))
      <3> HIDE DEF lo, hi
      <3> QED BY <1>1, <1>5
    <2>5. steps[i].kind = Catalog[steps[i].type].kind
      BY <1>2
    <2> HIDE DEF lo, hi
    <2> QED BY <2>1, <2>2, <2>3, <2>4, <2>5
  <1> HIDE DEF lo, hi
  <1>7. /\ found("source") = stretch(0, lo) /\ found("transform") = stretch(lo, hi) /\ found("export") = stretch(hi, N)
    <2>0. N = Len(steps)
      BY DEF N
    <2> HIDE DEF steps
    <2>4. lo \in Nat /\ hi \in Nat /\ 0 \in Nat /\ N \in Nat /\ 0 <= lo /\ lo <= hi /\ lo <= N /\ hi <= N /\ N <= N
      BY <1>1, <1>5
    <2>5. /\ \A i \in 1..N : Catalog[steps[i].type].kind = "source" <=> (0 < i /\ i <= lo)
          /\ \A i \in 1..N : Catalog[steps[i].type].kind = "transform" <=> (lo < i /\ i <= hi)
          /\ \A i \in 1..N : Catalog[steps[i].type].kind = "export" <=> (hi < i /\ i <= N)
      BY <1>6
    <2>6. steps \in Seq(Steps(n))
      BY <1>1
    <2>7. ASSUME NEW from \in Nat, NEW to \in Nat, from <= to, to <= N, NEW kind,
                 \A i \in 1..N : Catalog[steps[i].type].kind = kind <=> (from < i /\ i <= to)
          PROVE  found(kind) = stretch(from, to)
      BY <2>0, <2>6, <2>7, StretchOfKind
    <2> HIDE DEF found, stretch
    <2>1. found("source") = stretch(0, lo)
      BY <2>4, <2>5, <2>7
    <2>2. found("transform") = stretch(lo, hi)
      BY <2>4, <2>5, <2>7
    <2>3. found("export") = stretch(hi, N)
      BY <2>4, <2>5, <2>7
    <2> QED BY <2>1, <2>2, <2>3
  <1>8. ASSUME NEW i \in 1..N
        PROVE  /\ SelectionFromStep(steps[i]).id = steps[i].id
               /\ SelectionFromStep(steps[i]) \in SelectionsOf(Catalog[steps[i].type].kind, n)
               /\ PipelineStepFromSelection(SelectionFromStep(steps[i])) = steps[i]
    <2>1. PICK s : s = SelectionFromStep(steps[i])
      OBVIOUS
    <2>2. steps[i] \in [id : 1..n, kind : Kinds, type : DOMAIN Catalog, values : Values]
          /\ steps[i].kind = Catalog[steps[i].type].kind
      BY <1>2 DEF Steps
    <2>3. s.id = steps[i].id /\ s.type = steps[i].type /\ s.values = steps[i].values
          /\ s \in [id : 1..n, type : DOMAIN Catalog, values : Values]
      BY <2>1, <2>2 DEF SelectionFromStep
    <2>4. s \in SelectionsOf(Catalog[steps[i].type].kind, n)
      BY <2>2, <2>3 DEF SelectionsOf, Types
    <2>5. PipelineStepFromSelection(s) = steps[i]
      BY <2>2, <2>3 DEF PipelineStepFromSelection
    <2> QED BY <2>1, <2>3, <2>4, <2>5
  <1>9. ASSUME NEW from \in 0..N, NEW to \in from..N, NEW kind,
               \A i \in 1..N : Catalog[steps[i].type].kind = kind <=> (from < i /\ i <= to)
        PROVE  /\ stretch(from, to) \in Seq(SelectionsOf(kind, n)) /\ Len(stretch(from, to)) = to - from
               /\ DOMAIN stretch(from, to) = 1..(to - from)
               /\ \A i \in 1..(to - from) :
                    from + i \in 1..N /\ stretch(from, to)[i] = SelectionFromStep(steps[from + i])
    <2>1. \A i \in 1..(to - from) : from + i \in 1..N /\ from < from + i /\ from + i <= to
      BY <1>1
    <2>2. stretch(from, to) \in [1..(to - from) -> SelectionsOf(kind, n)]
      BY <1>8, <1>9, <2>1 DEF Stretch
    <2>3. to - from \in Nat
      BY <1>1
    <2>4. stretch(from, to) \in Seq(SelectionsOf(kind, n)) /\ Len(stretch(from, to)) = to - from
      <3>0. PICK k \in Nat : k = to - from
        BY <2>3
      <3>1. PICK s : s = stretch(from, to)
        OBVIOUS
      <3>2. s \in [1..k -> SelectionsOf(kind, n)]
        BY <2>2, <3>0, <3>1
      <3>3. s \in Seq(SelectionsOf(kind, n)) /\ Len(s) = k
        BY <3>2, SeqDef
      <3> HIDE DEF stretch
      <3> QED BY <3>0, <3>1, <3>3
    <2> QED BY <2>1, <2>2, <2>4 DEF Stretch
  <1> DEFINE src == stretch(0, lo)
             tr == stretch(lo, hi)
             ex == stretch(hi, N)
  <1>10. /\ src \in Seq(SelectionsOf("source", n)) /\ Len(src) = lo /\ DOMAIN src = 1..lo
         /\ \A i \in 1..lo : i \in 1..N /\ src[i] = SelectionFromStep(steps[i])
    <2>1. 0 \in 0..N /\ lo \in 0..N
      BY <1>1, <1>5
    <2>2. /\ stretch(0, lo) \in Seq(SelectionsOf("source", n)) /\ Len(stretch(0, lo)) = lo - 0
          /\ DOMAIN stretch(0, lo) = 1..(lo - 0)
          /\ \A i \in 1..(lo - 0) : 0 + i \in 1..N /\ stretch(0, lo)[i] = SelectionFromStep(steps[0 + i])
      <3> HIDE DEF stretch
      <3> QED BY <1>6, <1>9, <2>1
    <2>3. lo - 0 = lo /\ \A i \in 1..lo : 0 + i = i
      BY <1>5
    <2> HIDE DEF stretch
    <2> QED BY <2>2, <2>3
  <1>11. /\ tr \in Seq(SelectionsOf("transform", n)) /\ Len(tr) = hi - lo /\ DOMAIN tr = 1..(hi - lo)
         /\ \A i \in 1..(hi - lo) : lo + i \in 1..N /\ tr[i] = SelectionFromStep(steps[lo + i])
    <2>1. lo \in 0..N /\ hi \in lo..N
      BY <1>1, <1>5
    <2> HIDE DEF stretch
    <2> QED BY <1>6, <1>9, <2>1
  <1>12. /\ ex \in Seq(SelectionsOf("export", n)) /\ Len(ex) = N - hi /\ DOMAIN ex = 1..(N - hi)
         /\ \A i \in 1..(N - hi) : hi + i \in 1..N /\ ex[i] = SelectionFromStep(steps[hi + i])
    <2>1. hi \in 0..N /\ N \in hi..N
      BY <1>1, <1>5
    <2> HIDE DEF stretch
    <2> QED BY <1>6, <1>9, <2>1
  <1> HIDE DEF src, tr, ex
  <1>13. ASSUME NEW S, NEW s \in Seq(S), Len(s) <= 1 PROVE s = IF s = <<>> THEN <<>> ELSE <<s[1]>>
    <2>1. CASE s # <<>>
      <3>1. Len(s) = 1 /\ s \in [1..1 -> S]
        <4>1. Len(s) \in Nat /\ Len(s) # 0 /\ s \in [1..Len(s) -> S]
          BY <2>1, EmptySeq, LenProperties
        <4>2. Len(s) = 1
          BY <1>13, <4>1
        <4> QED BY <4>1, <4>2
      <3> QED BY <2>1, <3>1
    <2> QED BY <2>1
  <1>14. d = [dirty |-> FALSE, named |-> g.named, source |-> src, transforms |-> tr, export |-> ex]
    <2>1. find("source") = src /\ find("export") = ex
      <3>1. src = IF src = <<>> THEN <<>> ELSE <<src[1]>>
        BY <1>5, <1>10, <1>13
      <3>2. ex = IF ex = <<>> THEN <<>> ELSE <<ex[1]>>
        BY <1>5, <1>12, <1>13
      <3>3. found("source") = src /\ found("export") = ex
        BY <1>7 DEF src, ex
      <3> HIDE DEF found
      <3> QED BY <3>1, <3>2, <3>3
    <2>2. found("transform") = tr
      BY <1>7 DEF tr
    <2> HIDE DEF find, found, d
    <2> QED BY <1>4, <2>1, <2>2
  <1> HIDE DEF d
  <1>15. DraftOK(d, n)
    <2>0. d.dirty = FALSE /\ d.named = g.named /\ d.source = src /\ d.transforms = tr /\ d.export = ex
      BY <1>14
    <2>1. d = [dirty |-> d.dirty, named |-> d.named, source |-> d.source, transforms |-> d.transforms, export |-> d.export]
      BY <1>14, <2>0
    <2>2. /\ \A i \in 1..lo : src[i].id = steps[i].id /\ i \in 1..N
          /\ \A i \in 1..(hi - lo) : tr[i].id = steps[lo + i].id /\ lo + i \in 1..N
          /\ \A i \in 1..(N - hi) : ex[i].id = steps[hi + i].id /\ hi + i \in 1..N
      BY <1>8, <1>10, <1>11, <1>12
    <2>3. \A i, j \in 1..N : steps[i].id = steps[j].id => i = j
      BY <1>2
    <2>4. Apart(src, tr)
      <3> SUFFICES ASSUME NEW i \in 1..lo, NEW j \in 1..(hi - lo) PROVE src[i].id # tr[j].id
        BY <1>10, <1>11 DEF Apart
      <3>1. i # lo + j
        BY <1>1, <1>5
      <3> QED BY <2>2, <2>3, <3>1
    <2>5. Apart(src, ex)
      <3> SUFFICES ASSUME NEW i \in 1..lo, NEW j \in 1..(N - hi) PROVE src[i].id # ex[j].id
        BY <1>10, <1>12 DEF Apart
      <3>1. i # hi + j
        BY <1>1, <1>5
      <3> QED BY <2>2, <2>3, <3>1
    <2>6. Apart(tr, ex)
      <3> SUFFICES ASSUME NEW i \in 1..(hi - lo), NEW j \in 1..(N - hi) PROVE tr[i].id # ex[j].id
        BY <1>11, <1>12 DEF Apart
      <3>1. lo + i # hi + j
        BY <1>1, <1>5
      <3> QED BY <2>2, <2>3, <3>1
    <2>7. ASSUME NEW i \in DOMAIN tr, NEW j \in DOMAIN tr, tr[i].id = tr[j].id PROVE i = j
      <3>1. i \in 1..(hi - lo) /\ j \in 1..(hi - lo)
        BY <1>11
      <3>2. lo + i = lo + j
        BY <2>2, <2>3, <2>7, <3>1
      <3> QED BY <1>5, <3>1, <3>2
    <2>8. Len(src) <= 1 /\ Len(ex) <= 1
      BY <1>5, <1>10, <1>12
    <2> QED BY <1>1, <1>10, <1>11, <1>12, <2>0, <2>1, <2>4, <2>5, <2>6, <2>7, <2>8 DEF DraftOK, DistinctIds
  <1>16. DerivePipelineBuilderGraph(d) = g
    <2> DEFINE c == d.source \o d.transforms \o d.export
               back == DerivePipelineBuilderSteps(d)
    <2>0. d.named = g.named /\ d.source = src /\ d.transforms = tr /\ d.export = ex
      BY <1>14
    <2>1. lo + (hi - lo) = hi /\ lo + (hi - lo) + (N - hi) = N
      BY <1>1, <1>5
    <2>2. /\ DOMAIN c = 1..N
          /\ \A i \in 1..lo : c[i] = src[i]
          /\ \A i \in (lo + 1)..hi : c[i] = tr[i - lo]
          /\ \A i \in (hi + 1)..N : c[i] = ex[i - lo - (hi - lo)]
      <3>1. /\ DOMAIN c = 1..(Len(src) + Len(tr) + Len(ex))
            /\ \A i \in 1..Len(src) : c[i] = src[i]
            /\ \A i \in (Len(src) + 1)..(Len(src) + Len(tr)) : c[i] = tr[i - Len(src)]
            /\ \A i \in (Len(src) + Len(tr) + 1)..(Len(src) + Len(tr) + Len(ex)) : c[i] = ex[i - Len(src) - Len(tr)]
        BY <1>15, <2>0, ChainOfDraft
      <3>2. Len(src) = lo /\ Len(tr) = hi - lo /\ Len(ex) = N - hi
        BY <1>10, <1>11, <1>12
      <3> HIDE DEF c
      <3> QED BY <2>1, <3>1, <3>2
    <2>3. back = [i \in DOMAIN c |-> PipelineStepFromSelection(c[i])]
      BY Zenon DEF DerivePipelineBuilderSteps
    <2> HIDE DEF c
    <2>4. ASSUME NEW i \in 1..N PROVE c[i] = SelectionFromStep(steps[i])
      <3>1. CASE i \in 1..lo
        BY <1>10, <2>2, <3>1
      <3>2. CASE i \in (lo + 1)..hi
        <4>1. i - lo \in 1..(hi - lo) /\ lo + (i - lo) = i
          BY <1>1, <1>5, <3>2
        <4>2. tr[i - lo] = SelectionFromStep(steps[i])
          BY <1>11, <4>1
        <4> QED BY <2>2, <3>2, <4>2
      <3>3. CASE i \in (hi + 1)..N
        <4>1. i - lo - (hi - lo) \in 1..(N - hi) /\ hi + (i - lo - (hi - lo)) = i
          BY <1>1, <1>5, <3>3
        <4>2. ex[i - lo - (hi - lo)] = SelectionFromStep(steps[i])
          BY <1>12, <4>1
        <4> QED BY <2>2, <3>3, <4>2
      <3> QED BY <1>1, <1>5, <3>1, <3>2, <3>3
    <2>5. back = [i \in 1..N |-> steps[i]]
      BY <1>8, <2>2, <2>3, <2>4
    <2>6. back = steps
      BY <1>1, <2>5
    <2>7. DerivePipelineBuilderGraph(d) = [named |-> d.named, steps |-> back, edges |-> DerivePipelineBuilderEdges(back)]
      BY DEF DerivePipelineBuilderGraph
    <2> HIDE DEF back, steps
    <2> QED BY <1>1, <2>0, <2>6, <2>7
  <1> QED BY <1>15, <1>16 DEF d

-----------------------------------------------------------------------------
(* Edits *)

\* Saving a draft and resuming it loses nothing, for every draft the wizard can
\* hold, of any length, and for every order the database may return its rows
\* in: the graph of the resumed draft is the graph of the saved one.
THEOREM ResumeInvertsSave ==
  ASSUME NEW n \in Nat, NEW d, DraftOK(d, n), NEW rows \in Orders(DerivePipelineBuilderGraph(d).steps)
  PROVE  LET resumed == CreatePipelineBuilderDraftFromPipeline(DerivePipelineBuilderGraph(d), rows)
         IN  DraftOK(resumed, n) /\ Content(resumed) = Content(d)
  <1>1. PICK g : g = DerivePipelineBuilderGraph(d)
    OBVIOUS
  <1>2. ChainGraph(g, n) /\ rows \in Orders(g.steps)
    BY <1>1, DerivedGraph
  <1>3. /\ DraftOK(CreatePipelineBuilderDraftFromPipeline(g, rows), n)
        /\ DerivePipelineBuilderGraph(CreatePipelineBuilderDraftFromPipeline(g, rows)) = g
    BY <1>2, ResumedDraft
  <1> QED BY <1>1, <1>3 DEF Content

\* More identifiers do no harm.
LEMMA MoreIds ==
  ASSUME NEW n \in Nat, NEW m \in Nat, n <= m
  PROVE  /\ \A d : DraftOK(d, n) => DraftOK(d, m)
         /\ \A g : ChainGraph(g, n) => ChainGraph(g, m)
  <1>1. 1..n \subseteq 1..m
    OBVIOUS
  <1>2. \A kind : SelectionsOf(kind, n) \subseteq SelectionsOf(kind, m)
    BY <1>1 DEF SelectionsOf
  <1>3. Steps(n) \subseteq Steps(m)
    BY <1>1 DEF Steps
  <1>4. ASSUME NEW d, DraftOK(d, n) PROVE DraftOK(d, m)
    <2>1. /\ d.source \in Seq(SelectionsOf("source", m)) /\ d.transforms \in Seq(SelectionsOf("transform", m))
          /\ d.export \in Seq(SelectionsOf("export", m))
      BY <1>2, <1>4, SeqMonotone DEF DraftOK
    <2> QED BY <1>4, <2>1 DEF DraftOK
  <1>5. ASSUME NEW g, ChainGraph(g, n) PROVE ChainGraph(g, m)
    <2>1. g.steps \in Seq(Steps(m))
      BY <1>3, <1>5, SeqMonotone DEF ChainGraph
    <2> QED BY <1>5, <2>1 DEF ChainGraph
  <1> QED BY <1>4, <1>5

\* A draft with other slots is a draft.
LEMMA AssembledDraft ==
  ASSUME NEW n \in Nat, NEW named \in BOOLEAN,
         NEW src \in Seq(SelectionsOf("source", n)), Len(src) <= 1,
         NEW tr \in Seq(SelectionsOf("transform", n)),
         NEW ex \in Seq(SelectionsOf("export", n)), Len(ex) <= 1,
         Apart(src, tr), Apart(src, ex), Apart(tr, ex),
         DistinctIds(tr),
         NEW d, d = [dirty |-> TRUE, named |-> named, source |-> src, transforms |-> tr, export |-> ex]
  PROVE  DraftOK(d, n) /\ d.dirty /\ d.source = src
  <1>1. d.dirty = TRUE /\ d.named = named /\ d.source = src /\ d.transforms = tr /\ d.export = ex
    OBVIOUS
  <1>2. d = [dirty |-> d.dirty, named |-> d.named, source |-> d.source, transforms |-> d.transforms, export |-> d.export]
    BY <1>1
  <1> QED BY <1>1, <1>2 DEF DraftOK

\* Setting the values of one selection.
LEMMA ValuesSet ==
  ASSUME NEW n \in Nat, NEW kind, NEW s \in Seq(SelectionsOf(kind, n)), NEW i \in DOMAIN s, NEW v \in Values,
         NEW x, x = [s EXCEPT ![i].values = v]
  PROVE  /\ x \in Seq(SelectionsOf(kind, n)) /\ Len(x) = Len(s) /\ DOMAIN x = DOMAIN s
         /\ \A j \in DOMAIN s : x[j].id = s[j].id
  <1>1. Len(s) \in Nat /\ DOMAIN s = 1..Len(s) /\ \A j \in 1..Len(s) : s[j] \in SelectionsOf(kind, n)
    BY ElementOfSeq
  <1>2. PICK y : y = [s[i] EXCEPT !.values = v]
    OBVIOUS
  <1>3. y \in SelectionsOf(kind, n) /\ y.id = s[i].id
    <2>1. s[i] \in [id : 1..n, type : Types(kind), values : Values]
      BY <1>1 DEF SelectionsOf
    <2> QED BY <1>2, <2>1 DEF SelectionsOf
  <1>4. x = [s EXCEPT ![i] = y]
    BY <1>2
  <1>5. x \in [1..Len(s) -> SelectionsOf(kind, n)] /\ \A j \in DOMAIN s : x[j].id = s[j].id
    BY <1>1, <1>3, <1>4
  <1>6. x \in Seq(SelectionsOf(kind, n)) /\ Len(x) = Len(s)
    BY <1>1, <1>5, SeqDef
  <1> QED BY <1>1, <1>5, <1>6

\* A sequence without one of its elements.
LEMMA ElementRemoved ==
  ASSUME NEW S, NEW s \in Seq(S), NEW i \in DOMAIN s
  PROVE  /\ RemoveAt(s, i) \in Seq(S) /\ DOMAIN RemoveAt(s, i) = 1..(Len(s) - 1)
         /\ \A j \in 1..(Len(s) - 1) : RemoveAt(s, i)[j] = s[IF j < i THEN j ELSE j + 1]
  <1> DEFINE u == SubSeq(s, 1, i - 1)
             w == SubSeq(s, i + 1, Len(s))
  <1>1. Len(s) \in Nat /\ i \in 1..Len(s)
    OBVIOUS
  <1>2. u \in Seq(S) /\ Len(u) = i - 1 /\ \A j \in 1..(i - 1) : u[j] = s[j]
    BY <1>1, SubSeqProperties
  <1>3. w \in Seq(S) /\ Len(w) = Len(s) - i /\ \A j \in 1..(Len(s) - i) : w[j] = s[i + j]
    BY <1>1, SubSeqProperties
  <1>4. RemoveAt(s, i) = u \o w
    BY DEF RemoveAt
  <1> HIDE DEF u, w
  <1>5. /\ u \o w \in Seq(S) /\ Len(u \o w) = Len(u) + Len(w)
        /\ \A j \in 1..(Len(u) + Len(w)) : (u \o w)[j] = IF j <= Len(u) THEN u[j] ELSE w[j - Len(u)]
    BY <1>2, <1>3, ConcatProperties
  <1>6. Len(u) + Len(w) = Len(s) - 1
    BY <1>1, <1>2, <1>3
  <1>7. ASSUME NEW j \in 1..(Len(s) - 1) PROVE (u \o w)[j] = s[IF j < i THEN j ELSE j + 1]
    <2>1. CASE j < i
      BY <1>1, <1>2, <1>5, <1>6, <2>1
    <2>2. CASE ~ (j < i)
      <3>1. ~ (j <= Len(u)) /\ j - Len(u) \in 1..(Len(s) - i) /\ i + (j - Len(u)) = j + 1
        BY <1>1, <1>2, <2>2
      <3>2. (u \o w)[j] = w[j - Len(u)]
        BY <1>5, <1>6, <3>1
      <3>3. w[j - Len(u)] = s[i + (j - Len(u))]
        BY <1>3, <3>1
      <3> QED BY <2>2, <3>1, <3>2, <3>3
    <2> QED BY <2>1, <2>2
  <1>8. DOMAIN (u \o w) = 1..(Len(s) - 1)
    BY <1>5, <1>6
  <1> QED BY <1>4, <1>5, <1>7, <1>8

\* What every edit of a draft d does: it stays a draft, dirty, and keeps its
\* Source's identifier.
EditedDraft(d, e, n) ==
  /\ n \in {ids, ids + 1} /\ DraftOK(e, n) /\ e.dirty
  /\ d.source # <<>> => e.source # <<>> /\ e.source[1].id = d.source[1].id

\* The slots of a draft after an edit of one of them.
LEMMA SlotsEdited ==
  ASSUME NEW n \in Nat, NEW d, DraftOK(d, n), NEW x
  PROVE  /\ [[d EXCEPT !.named = x] EXCEPT !.dirty = TRUE] =
              [dirty |-> TRUE, named |-> x, source |-> d.source, transforms |-> d.transforms, export |-> d.export]
         /\ [[d EXCEPT !.source = x] EXCEPT !.dirty = TRUE] =
              [dirty |-> TRUE, named |-> d.named, source |-> x, transforms |-> d.transforms, export |-> d.export]
         /\ [[d EXCEPT !.transforms = x] EXCEPT !.dirty = TRUE] =
              [dirty |-> TRUE, named |-> d.named, source |-> d.source, transforms |-> x, export |-> d.export]
         /\ [[d EXCEPT !.export = x] EXCEPT !.dirty = TRUE] =
              [dirty |-> TRUE, named |-> d.named, source |-> d.source, transforms |-> d.transforms, export |-> x]
  <1>1. PICK a, b, c, e, f : d = [dirty |-> a, named |-> b, source |-> c, transforms |-> e, export |-> f]
    BY DEF DraftOK
  <1>2. d.dirty = a /\ d.named = b /\ d.source = c /\ d.transforms = e /\ d.export = f
    BY <1>1
  <1>3. [[d EXCEPT !.named = x] EXCEPT !.dirty = TRUE] = [dirty |-> TRUE, named |-> x, source |-> c, transforms |-> e, export |-> f]
    <2>1. PICK y : y = [d EXCEPT !.named = x]
      OBVIOUS
    <2>2. y = [dirty |-> a, named |-> x, source |-> c, transforms |-> e, export |-> f]
      BY <1>1, <2>1
    <2>3. PICK z : z = [y EXCEPT !.dirty = TRUE]
      OBVIOUS
    <2>4. z = [dirty |-> TRUE, named |-> x, source |-> c, transforms |-> e, export |-> f]
      BY <2>2, <2>3
    <2> QED BY <2>1, <2>3, <2>4
  <1>4. [[d EXCEPT !.source = x] EXCEPT !.dirty = TRUE] = [dirty |-> TRUE, named |-> b, source |-> x, transforms |-> e, export |-> f]
    <2>1. PICK y : y = [d EXCEPT !.source = x]
      OBVIOUS
    <2>2. y = [dirty |-> a, named |-> b, source |-> x, transforms |-> e, export |-> f]
      BY <1>1, <2>1
    <2>3. PICK z : z = [y EXCEPT !.dirty = TRUE]
      OBVIOUS
    <2>4. z = [dirty |-> TRUE, named |-> b, source |-> x, transforms |-> e, export |-> f]
      BY <2>2, <2>3
    <2> QED BY <2>1, <2>3, <2>4
  <1>5. [[d EXCEPT !.transforms = x] EXCEPT !.dirty = TRUE] = [dirty |-> TRUE, named |-> b, source |-> c, transforms |-> x, export |-> f]
    <2>1. PICK y : y = [d EXCEPT !.transforms = x]
      OBVIOUS
    <2>2. y = [dirty |-> a, named |-> b, source |-> c, transforms |-> x, export |-> f]
      BY <1>1, <2>1
    <2>3. PICK z : z = [y EXCEPT !.dirty = TRUE]
      OBVIOUS
    <2>4. z = [dirty |-> TRUE, named |-> b, source |-> c, transforms |-> x, export |-> f]
      BY <2>2, <2>3
    <2> QED BY <2>1, <2>3, <2>4
  <1>6. [[d EXCEPT !.export = x] EXCEPT !.dirty = TRUE] = [dirty |-> TRUE, named |-> b, source |-> c, transforms |-> e, export |-> x]
    <2>1. PICK y : y = [d EXCEPT !.export = x]
      OBVIOUS
    <2>2. y = [dirty |-> a, named |-> b, source |-> c, transforms |-> e, export |-> x]
      BY <1>1, <2>1
    <2>3. PICK z : z = [y EXCEPT !.dirty = TRUE]
      OBVIOUS
    <2>4. z = [dirty |-> TRUE, named |-> b, source |-> c, transforms |-> e, export |-> x]
      BY <2>2, <2>3
    <2> QED BY <2>1, <2>3, <2>4
  <1> QED BY <1>2, <1>3, <1>4, <1>5, <1>6

\* A slot chosen anew keeps its identifier (nextPipelineBuilderComponentSelection).
LEMMA SlotChosen ==
  ASSUME NEW n \in Nat, NEW kind, NEW slot \in Seq(SelectionsOf(kind, n)), Len(slot) <= 1, NEW type \in Types(kind),
         NEW x, x = NextPipelineBuilderComponentSelection(slot, type, n + 1)
  PROVE  /\ x \in Seq(SelectionsOf(kind, n + 1)) /\ Len(x) <= 1 /\ DOMAIN x = {1} /\ x # <<>>
         /\ IF slot = <<>> THEN x[1].id = n + 1 ELSE 1 \in DOMAIN slot /\ x[1].id = slot[1].id
  <1>1. slot # <<>> => DOMAIN slot = {1} /\ Len(slot) = 1 /\ slot[1] \in SelectionsOf(kind, n)
    <2> SUFFICES ASSUME slot # <<>> PROVE DOMAIN slot = {1} /\ Len(slot) = 1 /\ slot[1] \in SelectionsOf(kind, n)
      OBVIOUS
    <2>1. Len(slot) \in Nat /\ Len(slot) # 0 /\ DOMAIN slot = 1..Len(slot)
      BY EmptySeq, LenProperties
    <2>2. Len(slot) = 1
      BY <2>1
    <2> QED BY <2>1, <2>2, ElementOfSeq
  <1>2. CASE slot # <<>> /\ slot[1].type = type
    <2>1. x = slot
      BY <1>2 DEF NextPipelineBuilderComponentSelection
    <2>2. SelectionsOf(kind, n) \subseteq SelectionsOf(kind, n + 1)
      BY DEF SelectionsOf
    <2>3. slot \in Seq(SelectionsOf(kind, n + 1))
      BY <2>2, SeqMonotone
    <2> QED BY <1>1, <1>2, <2>1, <2>3
  <1>3. CASE ~ (slot # <<>> /\ slot[1].type = type)
    <2> DEFINE id == IF slot = <<>> THEN n + 1 ELSE slot[1].id
    <2>1. PICK s : s = [id |-> id, type |-> type, values |-> DefaultValue]
      OBVIOUS
    <2>2. x = <<s>>
      BY <1>3, <2>1 DEF NextPipelineBuilderComponentSelection
    <2>3. id \in 1..(n + 1)
      <3>1. CASE slot = <<>>
        BY <3>1
      <3>2. CASE slot # <<>>
        <4>1. slot[1].id \in 1..n
          BY <1>1, <3>2 DEF SelectionsOf
        <4> QED BY <3>2, <4>1
      <3> QED BY <3>1, <3>2
    <2> HIDE DEF id
    <2>4. s \in SelectionsOf(kind, n + 1) /\ s.id = id
      BY <2>1, <2>3, WizardAssumption DEF SelectionsOf
    <2>5. x \in Seq(SelectionsOf(kind, n + 1)) /\ Len(x) = 1 /\ DOMAIN x = {1} /\ x # <<>> /\ x[1] = s
      <3>1. x \in [1..1 -> SelectionsOf(kind, n + 1)] /\ x[1] = s
        BY <2>2, <2>4
      <3>2. x \in Seq(SelectionsOf(kind, n + 1)) /\ Len(x) = 1
        <4>1. x \in Seq(SelectionsOf(kind, n + 1))
          BY <2>2, <2>4
        <4>2. Len(x) = 1
          BY <2>2
        <4> QED BY <4>1, <4>2
      <3>3. DOMAIN x = {1}
        BY <3>1
      <3> QED BY <3>1, <3>2, <3>3, EmptySeq
    <2>6. IF slot = <<>> THEN x[1].id = n + 1 ELSE x[1].id = slot[1].id
      BY <2>4, <2>5 DEF id
    <2>7. Len(x) <= 1
      <3>1. Len(x) = 1
        BY <2>5, Zenon
      <3>2. \A k : k = 1 => k <= 1
        OBVIOUS
      <3> QED BY <3>1, <3>2, Zenon
    <2> QED BY <1>1, <2>5, <2>6, <2>7
  <1> QED BY <1>2, <1>3

\* Every edit of pipeline-builder-draft.ts leaves a draft, and keeps the
\* identifier of its Source.
LEMMA EditIsWell ==
  ASSUME NEW d, DraftOK(d, ids), ids \in Nat, NEW r \in Edits(d)
  PROVE  EditedDraft(d, r[1], r[2])
  <1> DEFINE named == d.named
             src == d.source
             tr == d.transforms
             ex == d.export
  <1>1. /\ named \in BOOLEAN
        /\ src \in Seq(SelectionsOf("source", ids)) /\ Len(src) <= 1
        /\ tr \in Seq(SelectionsOf("transform", ids))
        /\ ex \in Seq(SelectionsOf("export", ids)) /\ Len(ex) <= 1
        /\ Apart(src, tr) /\ Apart(src, ex) /\ Apart(tr, ex)
        /\ DistinctIds(tr)
    BY DEF DraftOK
  <1>2. /\ \A i \in DOMAIN src : src[i].id \in 1..ids
        /\ \A i \in DOMAIN tr : tr[i].id \in 1..ids
        /\ \A i \in DOMAIN ex : ex[i].id \in 1..ids
        /\ (src # <<>> => 1 \in DOMAIN src) /\ (ex # <<>> => 1 \in DOMAIN ex)
    <2>1. /\ \A i \in DOMAIN src : src[i] \in SelectionsOf("source", ids)
          /\ \A i \in DOMAIN tr : tr[i] \in SelectionsOf("transform", ids)
          /\ \A i \in DOMAIN ex : ex[i] \in SelectionsOf("export", ids)
      BY <1>1, ElementOfSeq
    <2>2. /\ Len(src) \in Nat /\ DOMAIN src = 1..Len(src) /\ (src # <<>> => Len(src) # 0)
          /\ Len(ex) \in Nat /\ DOMAIN ex = 1..Len(ex) /\ (ex # <<>> => Len(ex) # 0)
      BY <1>1, EmptySeq
    <2> QED BY <2>1, <2>2 DEF SelectionsOf
  <1>3. /\ src \in Seq(SelectionsOf("source", ids + 1)) /\ tr \in Seq(SelectionsOf("transform", ids + 1))
        /\ ex \in Seq(SelectionsOf("export", ids + 1))
    <2>1. \A kind : SelectionsOf(kind, ids) \subseteq SelectionsOf(kind, ids + 1)
      BY DEF SelectionsOf
    <2> QED BY <1>1, <2>1, SeqMonotone
  <1>4. ASSUME NEW x \in BOOLEAN, NEW e, NEW n, e = UpdatePipelineBuilderDraft(SetName(d, x)), n = ids
        PROVE EditedDraft(d, e, n)
    <2>1. /\ e = [[d EXCEPT !.named = x] EXCEPT !.dirty = TRUE] /\ n = ids
      BY <1>4 DEF SetName, UpdatePipelineBuilderDraft
    <2>2. e = [dirty |-> TRUE, named |-> x, source |-> src, transforms |-> tr, export |-> ex]
      BY <2>1, SlotsEdited
    <2>3. DraftOK(e, ids) /\ e.dirty /\ e.source = src
      <3>1. PICK f : f = e
        OBVIOUS
      <3> HIDE DEF src, tr, ex
      <3> QED BY <1>1, <2>2, <3>1, AssembledDraft
    <2> QED BY <2>1, <2>3 DEF EditedDraft
  <1>5. ASSUME NEW type \in Types("source"), NEW e, NEW n, e = UpdatePipelineBuilderDraft(SetSource(d, type)), n = ids + 1
        PROVE EditedDraft(d, e, n)
    <2>0. PICK x : x = NextPipelineBuilderComponentSelection(src, type, ids + 1)
      OBVIOUS
    <2>1. e = [[d EXCEPT !.source = x] EXCEPT !.dirty = TRUE] /\ n = ids + 1
      BY <1>5, <2>0 DEF SetSource, UpdatePipelineBuilderDraft
    <2>2. e = [dirty |-> TRUE, named |-> named, source |-> x, transforms |-> tr, export |-> ex]
      BY <2>1, SlotsEdited
    <2>3. /\ x \in Seq(SelectionsOf("source", ids + 1)) /\ Len(x) <= 1 /\ DOMAIN x = {1} /\ x # <<>>
          /\ IF src = <<>> THEN x[1].id = ids + 1 ELSE 1 \in DOMAIN src /\ x[1].id = src[1].id
      <3>1. PICK y : y = src
        OBVIOUS
      <3>2. y \in Seq(SelectionsOf("source", ids)) /\ Len(y) <= 1 /\ x = NextPipelineBuilderComponentSelection(y, type, ids + 1)
        BY <1>1, <2>0, <3>1
      <3>3. /\ x \in Seq(SelectionsOf("source", ids + 1)) /\ Len(x) <= 1 /\ DOMAIN x = {1} /\ x # <<>>
            /\ IF y = <<>> THEN x[1].id = ids + 1 ELSE 1 \in DOMAIN y /\ x[1].id = y[1].id
        BY <3>2, SlotChosen
      <3> QED BY <3>1, <3>3
    <2> HIDE DEF named, src, tr, ex
    <2>4. Apart(x, tr) /\ Apart(x, ex)
      BY <1>1, <1>2, <2>3 DEF Apart
    <2>5. DraftOK(e, ids + 1) /\ e.dirty /\ e.source = x
      <3>1. PICK m \in Nat : m = ids + 1
        OBVIOUS
      <3> QED BY <1>1, <1>3, <2>2, <2>3, <2>4, <3>1, AssembledDraft
    <2> QED BY <2>1, <2>3, <2>5 DEF EditedDraft, src
  <1>6. ASSUME NEW type \in Types("export"), NEW e, NEW n, e = UpdatePipelineBuilderDraft(SetExport(d, type)), n = ids + 1
        PROVE EditedDraft(d, e, n)
    <2>0. PICK x : x = NextPipelineBuilderComponentSelection(ex, type, ids + 1)
      OBVIOUS
    <2>1. e = [[d EXCEPT !.export = x] EXCEPT !.dirty = TRUE] /\ n = ids + 1
      BY <1>6, <2>0 DEF SetExport, UpdatePipelineBuilderDraft
    <2>2. e = [dirty |-> TRUE, named |-> named, source |-> src, transforms |-> tr, export |-> x]
      BY <2>1, SlotsEdited
    <2>3. /\ x \in Seq(SelectionsOf("export", ids + 1)) /\ Len(x) <= 1 /\ DOMAIN x = {1}
          /\ IF ex = <<>> THEN x[1].id = ids + 1 ELSE 1 \in DOMAIN ex /\ x[1].id = ex[1].id
      <3>1. PICK y : y = ex
        OBVIOUS
      <3>2. y \in Seq(SelectionsOf("export", ids)) /\ Len(y) <= 1 /\ x = NextPipelineBuilderComponentSelection(y, type, ids + 1)
        BY <1>1, <2>0, <3>1
      <3>3. /\ x \in Seq(SelectionsOf("export", ids + 1)) /\ Len(x) <= 1 /\ DOMAIN x = {1} /\ x # <<>>
            /\ IF y = <<>> THEN x[1].id = ids + 1 ELSE 1 \in DOMAIN y /\ x[1].id = y[1].id
        BY <3>2, SlotChosen
      <3> QED BY <3>1, <3>3
    <2> HIDE DEF named, src, tr, ex
    <2>4. Apart(src, x) /\ Apart(tr, x)
      BY <1>1, <1>2, <2>3 DEF Apart
    <2>5. DraftOK(e, ids + 1) /\ e.dirty /\ e.source = src
      <3>1. PICK m \in Nat : m = ids + 1
        OBVIOUS
      <3> QED BY <1>1, <1>3, <2>2, <2>3, <2>4, <3>1, AssembledDraft
    <2> QED BY <2>1, <2>5 DEF EditedDraft, src
  <1>7. ASSUME NEW v \in Values, NEW e, NEW n, src # <<>>, e = UpdatePipelineBuilderDraft(SetSourceValues(d, v)), n = ids
        PROVE EditedDraft(d, e, n)
    <2>0. PICK x : x = [src EXCEPT ![1].values = v]
      OBVIOUS
    <2>1. e = [[d EXCEPT !.source = x] EXCEPT !.dirty = TRUE] /\ n = ids /\ src # <<>>
      BY <1>7, <2>0 DEF SetSourceValues, UpdatePipelineBuilderDraft
    <2>2. e = [dirty |-> TRUE, named |-> named, source |-> x, transforms |-> tr, export |-> ex]
      BY <2>1, SlotsEdited
    <2>3. /\ x \in Seq(SelectionsOf("source", ids)) /\ Len(x) = Len(src) /\ DOMAIN x = DOMAIN src
          /\ \A j \in DOMAIN src : x[j].id = src[j].id
      <3>1. PICK y : y = src
        OBVIOUS
      <3>2. y \in Seq(SelectionsOf("source", ids)) /\ 1 \in DOMAIN y /\ x = [y EXCEPT ![1].values = v]
        BY <1>1, <1>2, <2>0, <2>1, <3>1
      <3>3. /\ x \in Seq(SelectionsOf("source", ids)) /\ Len(x) = Len(y) /\ DOMAIN x = DOMAIN y
            /\ \A j \in DOMAIN y : x[j].id = y[j].id
        BY <3>2, ValuesSet
      <3> QED BY <3>1, <3>3
    <2> HIDE DEF named, src, tr, ex
    <2>4. Apart(x, tr) /\ Apart(x, ex) /\ Len(x) <= 1
      BY <1>1, <2>3 DEF Apart, DistinctIds
    <2>5. DraftOK(e, ids) /\ e.dirty /\ e.source = x
      BY <1>1, <2>2, <2>3, <2>4, AssembledDraft
    <2>6. 1 \in DOMAIN src /\ x # <<>>
      BY <1>2, <2>1, <2>3
    <2> QED BY <2>1, <2>3, <2>5, <2>6 DEF EditedDraft, src
  <1>8. ASSUME NEW v \in Values, NEW e, NEW n, ex # <<>>, e = UpdatePipelineBuilderDraft(SetExportValues(d, v)), n = ids
        PROVE EditedDraft(d, e, n)
    <2>0. PICK x : x = [ex EXCEPT ![1].values = v]
      OBVIOUS
    <2>1. e = [[d EXCEPT !.export = x] EXCEPT !.dirty = TRUE] /\ n = ids /\ ex # <<>>
      BY <1>8, <2>0 DEF SetExportValues, UpdatePipelineBuilderDraft
    <2>2. e = [dirty |-> TRUE, named |-> named, source |-> src, transforms |-> tr, export |-> x]
      BY <2>1, SlotsEdited
    <2>3. /\ x \in Seq(SelectionsOf("export", ids)) /\ Len(x) = Len(ex) /\ DOMAIN x = DOMAIN ex
          /\ \A j \in DOMAIN ex : x[j].id = ex[j].id
      <3>1. PICK y : y = ex
        OBVIOUS
      <3>2. y \in Seq(SelectionsOf("export", ids)) /\ 1 \in DOMAIN y /\ x = [y EXCEPT ![1].values = v]
        BY <1>1, <1>2, <2>0, <2>1, <3>1
      <3>3. /\ x \in Seq(SelectionsOf("export", ids)) /\ Len(x) = Len(y) /\ DOMAIN x = DOMAIN y
            /\ \A j \in DOMAIN y : x[j].id = y[j].id
        BY <3>2, ValuesSet
      <3> QED BY <3>1, <3>3
    <2> HIDE DEF named, src, tr, ex
    <2>4. Apart(src, x) /\ Apart(tr, x) /\ Len(x) <= 1
      BY <1>1, <2>3 DEF Apart, DistinctIds
    <2>5. DraftOK(e, ids) /\ e.dirty /\ e.source = src
      BY <1>1, <2>2, <2>3, <2>4, AssembledDraft
    <2> QED BY <2>1, <2>5 DEF EditedDraft, src
  <1>9. ASSUME NEW type \in Types("transform"), NEW e, NEW n, e = UpdatePipelineBuilderDraft(AddTransform(d, type)), n = ids + 1
        PROVE EditedDraft(d, e, n)
    <2>00. PICK s : s = [id |-> ids + 1, type |-> type, values |-> DefaultValue]
      OBVIOUS
    <2>0. PICK x : x = Append(tr, s)
      OBVIOUS
    <2>1. e = [[d EXCEPT !.transforms = x] EXCEPT !.dirty = TRUE] /\ n = ids + 1
      BY <1>9, <2>00, <2>0 DEF AddTransform, UpdatePipelineBuilderDraft
    <2>2. e = [dirty |-> TRUE, named |-> named, source |-> src, transforms |-> x, export |-> ex]
      BY <2>1, SlotsEdited
    <2>3. s \in SelectionsOf("transform", ids + 1) /\ s.id = ids + 1
      <3>1. ids + 1 \in 1..(ids + 1)
        OBVIOUS
      <3> QED BY <2>00, <3>1, WizardAssumption DEF SelectionsOf
    <2> HIDE DEF named, src, tr, ex
    <2>4. /\ x \in Seq(SelectionsOf("transform", ids + 1)) /\ Len(tr) \in Nat /\ DOMAIN tr = 1..Len(tr)
          /\ DOMAIN x = 1..(Len(tr) + 1) /\ x[Len(tr) + 1] = s /\ \A i \in 1..Len(tr) : x[i] = tr[i]
      BY <1>3, <2>0, <2>3, AppendProperties
    <2>5. \A i \in DOMAIN x : (i = Len(tr) + 1 /\ x[i].id = ids + 1) \/ (i \in DOMAIN tr /\ x[i].id = tr[i].id /\ x[i].id # ids + 1)
      BY <1>2, <2>3, <2>4
    <2>6. Apart(src, x) /\ Apart(x, ex) /\ DistinctIds(x)
      <3>1. \A i \in DOMAIN src : src[i].id # ids + 1
        BY <1>2
      <3>2. \A i \in DOMAIN ex : ex[i].id # ids + 1
        BY <1>2
      <3>3. Apart(src, x) /\ Apart(x, ex)
        BY <1>1, <2>5, <3>1, <3>2 DEF Apart
      <3> QED BY <1>1, <2>5, <3>3 DEF DistinctIds
    <2>7. DraftOK(e, ids + 1) /\ e.dirty /\ e.source = src
      <3>1. PICK m \in Nat : m = ids + 1
        OBVIOUS
      <3> QED BY <1>1, <1>3, <2>2, <2>4, <2>6, <3>1, AssembledDraft
    <2> QED BY <2>1, <2>7 DEF EditedDraft, src
  <1>10. ASSUME NEW i \in DOMAIN tr, NEW v \in Values, NEW e, NEW n, e = UpdatePipelineBuilderDraft(SetTransformValues(d, i, v)), n = ids
        PROVE EditedDraft(d, e, n)
    <2>0. PICK x : x = [tr EXCEPT ![i].values = v]
      OBVIOUS
    <2>1. e = [[d EXCEPT !.transforms = x] EXCEPT !.dirty = TRUE] /\ n = ids
      BY <1>10, <2>0 DEF SetTransformValues, UpdatePipelineBuilderDraft
    <2>2. e = [dirty |-> TRUE, named |-> named, source |-> src, transforms |-> x, export |-> ex]
      BY <2>1, SlotsEdited
    <2>3. /\ x \in Seq(SelectionsOf("transform", ids)) /\ Len(x) = Len(tr) /\ DOMAIN x = DOMAIN tr
          /\ \A j \in DOMAIN tr : x[j].id = tr[j].id
      <3>1. PICK y : y = tr
        OBVIOUS
      <3>2. y \in Seq(SelectionsOf("transform", ids)) /\ i \in DOMAIN y /\ x = [y EXCEPT ![i].values = v]
        BY <1>1, <2>0, <3>1
      <3>3. /\ x \in Seq(SelectionsOf("transform", ids)) /\ Len(x) = Len(y) /\ DOMAIN x = DOMAIN y
            /\ \A j \in DOMAIN y : x[j].id = y[j].id
        BY <3>2, ValuesSet
      <3> QED BY <3>1, <3>3
    <2> HIDE DEF named, src, tr, ex
    <2>4. Apart(src, x) /\ Apart(x, ex) /\ DistinctIds(x)
      <3>1. DOMAIN x = DOMAIN tr /\ \A j \in DOMAIN tr : x[j].id = tr[j].id
        BY <2>3
      <3>2. Apart(src, x)
        BY <1>1, <3>1 DEF Apart
      <3>3. Apart(x, ex)
        BY <1>1, <3>1 DEF Apart
      <3>4. DistinctIds(x)
        BY <1>1, <3>1 DEF DistinctIds
      <3> QED BY <3>2, <3>3, <3>4
    <2>5. DraftOK(e, ids) /\ e.dirty /\ e.source = src
      BY <1>1, <2>2, <2>3, <2>4, AssembledDraft
    <2> QED BY <2>1, <2>5 DEF EditedDraft, src
  <1>11. ASSUME NEW i \in DOMAIN tr, NEW e, NEW n, e = UpdatePipelineBuilderDraft(RemoveTransform(d, i)), n = ids
        PROVE EditedDraft(d, e, n)
    <2>0. PICK x : x = RemoveAt(tr, i)
      OBVIOUS
    <2>1. e = [[d EXCEPT !.transforms = x] EXCEPT !.dirty = TRUE] /\ n = ids
      BY <1>11, <2>0 DEF RemoveTransform, UpdatePipelineBuilderDraft
    <2>2. e = [dirty |-> TRUE, named |-> named, source |-> src, transforms |-> x, export |-> ex]
      BY <2>1, SlotsEdited
    <2> HIDE DEF named, src, tr, ex
    <2>3. /\ x \in Seq(SelectionsOf("transform", ids)) /\ DOMAIN x = 1..(Len(tr) - 1)
          /\ \A j \in 1..(Len(tr) - 1) : x[j] = tr[IF j < i THEN j ELSE j + 1]
      BY <1>1, <2>0, ElementRemoved
    <2> DEFINE old(j) == IF j < i THEN j ELSE j + 1
    <2>4. Len(tr) \in Nat /\ DOMAIN tr = 1..Len(tr) /\ i \in 1..Len(tr)
      BY <1>1
    <2>5. \A j \in DOMAIN x : old(j) \in DOMAIN tr /\ x[j] = tr[old(j)]
      BY <2>3, <2>4
    <2>6. \A j, k \in DOMAIN x : old(j) = old(k) => j = k
      BY <2>3, <2>4
    <2> HIDE DEF old
    <2>7. Apart(src, x) /\ Apart(x, ex) /\ DistinctIds(x)
      BY <1>1, <2>5, <2>6 DEF Apart, DistinctIds
    <2>8. DraftOK(e, ids) /\ e.dirty /\ e.source = src
      BY <1>1, <2>2, <2>3, <2>7, AssembledDraft
    <2> QED BY <2>1, <2>8 DEF EditedDraft, src
  <1>12. ASSUME NEW i \in DOMAIN tr, NEW e, NEW n, i + 1 \in DOMAIN tr, e = UpdatePipelineBuilderDraft(MoveTransform(d, i)), n = ids
        PROVE EditedDraft(d, e, n)
    <2>0. PICK x : x = [[tr EXCEPT ![i] = tr[i + 1]] EXCEPT ![i + 1] = tr[i]]
      OBVIOUS
    <2>1. e = [[d EXCEPT !.transforms = x] EXCEPT !.dirty = TRUE] /\ n = ids /\ i + 1 \in DOMAIN tr
      BY <1>12, <2>0 DEF MoveTransform, UpdatePipelineBuilderDraft
    <2>2. e = [dirty |-> TRUE, named |-> named, source |-> src, transforms |-> x, export |-> ex]
      BY <2>1, SlotsEdited
    <2> HIDE DEF named, src, tr, ex
    <2>3. Len(tr) \in Nat /\ DOMAIN tr = 1..Len(tr) /\ \A j \in 1..Len(tr) : tr[j] \in SelectionsOf("transform", ids)
      BY <1>1, ElementOfSeq
    <2>4. x \in [1..Len(tr) -> SelectionsOf("transform", ids)]
      BY <2>0, <2>1, <2>3
    <2>5. x \in Seq(SelectionsOf("transform", ids)) /\ DOMAIN x = DOMAIN tr
      BY <2>3, <2>4, SeqDef
    <2> DEFINE old(j) == IF j = i THEN i + 1 ELSE IF j = i + 1 THEN i ELSE j
    <2>6. \A j \in DOMAIN x : old(j) \in DOMAIN tr /\ x[j] = tr[old(j)]
      BY <2>0, <2>1, <2>3, <2>5
    <2>7. \A j, k \in DOMAIN x : old(j) = old(k) => j = k
      BY <2>1, <2>3, <2>5
    <2> HIDE DEF old
    <2>8. Apart(src, x) /\ Apart(x, ex) /\ DistinctIds(x)
      BY <1>1, <2>6, <2>7 DEF Apart, DistinctIds
    <2>9. DraftOK(e, ids) /\ e.dirty /\ e.source = src
      BY <1>1, <2>2, <2>5, <2>8, AssembledDraft
    <2> QED BY <2>1, <2>9 DEF EditedDraft, src
  <1>13. CASE r \in {<<UpdatePipelineBuilderDraft(e), ids + 1>> : e \in EditsWithFreshId(d)}
    <2>1. PICK e0 \in EditsWithFreshId(d) : r = <<UpdatePipelineBuilderDraft(e0), ids + 1>>
      BY <1>13, Zenon
    <2>2. \/ \E type \in Types("source") : e0 = SetSource(d, type)
          \/ \E type \in Types("transform") : e0 = AddTransform(d, type)
          \/ \E type \in Types("export") : e0 = SetExport(d, type)
      BY <2>1 DEF EditsWithFreshId
    <2>3. r[1] = UpdatePipelineBuilderDraft(e0) /\ r[2] = ids + 1
      BY <2>1
    <2> QED BY <1>5, <1>6, <1>9, <2>2, <2>3
  <1>14. CASE r \in {<<UpdatePipelineBuilderDraft(e), ids>> : e \in EditsInPlace(d)}
    <2>1. PICK e0 \in EditsInPlace(d) : r = <<UpdatePipelineBuilderDraft(e0), ids>>
      BY <1>14, Zenon
    <2>2. \/ \E x \in BOOLEAN : e0 = SetName(d, x)
          \/ src # <<>> /\ \E v \in Values : e0 = SetSourceValues(d, v)
          \/ ex # <<>> /\ \E v \in Values : e0 = SetExportValues(d, v)
          \/ \E i \in DOMAIN tr : e0 = RemoveTransform(d, i)
          \/ \E i \in DOMAIN tr : i + 1 \in DOMAIN tr /\ e0 = MoveTransform(d, i)
          \/ \E i \in DOMAIN tr : \E v \in Values : e0 = SetTransformValues(d, i, v)
      BY <2>1 DEF EditsInPlace
    <2>3. r[1] = UpdatePipelineBuilderDraft(e0) /\ r[2] = ids
      BY <2>1
    <2> QED BY <1>4, <1>7, <1>8, <1>10, <1>11, <1>12, <2>2, <2>3
  <1> QED BY <1>13, <1>14 DEF Edits

-----------------------------------------------------------------------------
(* The invariant *)

\* The wizard may start empty.
LEMMA EmptyDraftOK == \A n : DraftOK(EmptyDraft, n)
  <1> TAKE n
  <1>1. EmptyDraft = [dirty |-> FALSE, named |-> FALSE, source |-> <<>>, transforms |-> <<>>, export |-> <<>>]
    BY DEF EmptyDraft
  <1>2. /\ EmptyDraft.dirty = FALSE /\ EmptyDraft.named = FALSE /\ EmptyDraft.source = <<>>
        /\ EmptyDraft.transforms = <<>> /\ EmptyDraft.export = <<>>
    BY <1>1
  <1>3. Apart(<<>>, <<>>) /\ DistinctIds(<<>>) /\ Len(<<>>) <= 1 /\ \A S : <<>> \in Seq(S)
    BY DEF Apart, DistinctIds
  <1>4. EmptyDraft = [dirty |-> EmptyDraft.dirty, named |-> EmptyDraft.named, source |-> EmptyDraft.source,
                      transforms |-> EmptyDraft.transforms, export |-> EmptyDraft.export]
    BY <1>1, <1>2
  <1> QED BY <1>2, <1>3, <1>4 DEF DraftOK

\* A first visit finds nothing stored.
LEMMA WizardInitInv == WizardInit => WizardInv
  <1> SUFFICES ASSUME WizardInit PROVE WizardInv
    OBVIOUS
  <1>1. DraftOK(draft, ids)
    BY EmptyDraftOK DEF WizardInit
  <1>2. DOMAIN store = {} /\ store = [p \in DOMAIN store |-> store[p]] /\ late = {}
    BY DEF WizardInit
  <1>3. CountersOK
    <2>1. MaxEdits \in Nat /\ MaxSaves \in Nat /\ MaxLostReplies \in Nat
      BY WizardAssumption
    <2>2. 0 \in 0..MaxEdits /\ 0 \in 0..MaxSaves /\ 0 \in 0..MaxLostReplies /\ 0 \in 0..0
      BY <2>1
    <2>3. /\ edits = 0 /\ ids = 0 /\ saves = 0 /\ lostReplies = 0 /\ pipelineId = 0 /\ storage = 0
          /\ opened = 0 /\ current = {} /\ overtaken \in BOOLEAN
      BY DEF WizardInit
    <2> QED BY <2>2, <2>3 DEF CountersOK
  <1>4. LateOK /\ VisitOK /\ CleanIsStored
    BY <1>2 DEF LateOK, VisitOK, CleanIsStored
  <1> QED BY <1>1, <1>2, <1>3, <1>4 DEF WizardInit, WizardInv, StoreOK

\* Requests stay what they are while identifiers and saves are only added and
\* the draft keeps its Source.
KeepsSource == draft.source # <<>> => draft'.source # <<>> /\ draft'.source[1].id = draft.source[1].id
LEMMA RequestsStay ==
  ASSUME CountersOK, ids' \in Nat, ids <= ids', saves' \in Nat, saves <= saves', opened' = opened, KeepsSource,
         NEW r, RequestOK(r)
  PROVE  RequestOK(r)' 
  <1>1. ChainGraph(r.graph, ids')
    BY MoreIds DEF RequestOK, CountersOK
  <1>2. SourceIsDrafts(r.graph) => SourceIsDrafts(r.graph)'
    BY DEF SourceIsDrafts, KeepsSource
  <1>3. r.number \in 1..saves'
    BY DEF RequestOK, CountersOK
  <1> QED BY <1>1, <1>2, <1>3 DEF RequestOK

\* Marking a draft saved touches none of its slots.
LEMMA MarkedSaved ==
  ASSUME NEW n \in Nat, NEW d, DraftOK(d, n), NEW e, e = [d EXCEPT !.dirty = FALSE]
  PROVE  /\ DraftOK(e, n) /\ ~ e.dirty /\ e.source = d.source
         /\ DerivePipelineBuilderGraph(e) = DerivePipelineBuilderGraph(d)
  <1>1. PICK x, named, src, tr, ex :
          d = [dirty |-> x, named |-> named, source |-> src, transforms |-> tr, export |-> ex]
    BY DEF DraftOK
  <1>2. e = [dirty |-> FALSE, named |-> named, source |-> src, transforms |-> tr, export |-> ex]
    BY <1>1
  <1>3. d.named = named /\ d.source = src /\ d.transforms = tr /\ d.export = ex
    BY <1>1
  <1>4. e.dirty = FALSE /\ e.named = named /\ e.source = src /\ e.transforms = tr /\ e.export = ex
    BY <1>2
  <1>5. e = [dirty |-> e.dirty, named |-> e.named, source |-> e.source, transforms |-> e.transforms, export |-> e.export]
    BY <1>2, <1>4
  <1>6. DraftOK(e, n)
    BY <1>3, <1>4, <1>5 DEF DraftOK
  <1>7. DerivePipelineBuilderSteps(e) = DerivePipelineBuilderSteps(d)
    <2>1. PICK c : c = src \o tr \o ex
      OBVIOUS
    <2>2. \A f : f.source = src /\ f.transforms = tr /\ f.export = ex =>
            DerivePipelineBuilderSteps(f) = [i \in DOMAIN c |-> PipelineStepFromSelection(c[i])]
      BY <2>1 DEF DerivePipelineBuilderSteps
    <2> QED BY <1>3, <1>4, <2>2
  <1>8. DerivePipelineBuilderGraph(e) = DerivePipelineBuilderGraph(d)
    BY <1>3, <1>4, <1>7 DEF DerivePipelineBuilderGraph
  <1> QED BY <1>3, <1>4, <1>6, <1>8

\* A request that is given up before it was served may be served late.
LEMMA UnservedIsLate ==
  ASSUME WizardInv PROVE \A r \in Unserved : RequestOK(r) /\ r.target \in 0..(r.number - 1)
  <1> SUFFICES ASSUME NEW r \in Unserved PROVE RequestOK(r) /\ r.target \in 0..(r.number - 1)
    OBVIOUS
  <1>1. /\ saving # <<>> /\ saving.outcome = "sent"
        /\ r = [target |-> saving.target, graph |-> saving.graph, number |-> saving.number]
    BY DEF Unserved
  <1>2. RequestOK(saving) /\ saving.target \in 0..(saving.number - 1)
    BY <1>1 DEF WizardInv, SavingOK
  <1>3. r.target = saving.target /\ r.graph = saving.graph /\ r.number = saving.number
    BY <1>1
  <1> QED BY <1>2, <1>3 DEF RequestOK

\* A step that touches rows only: the ones that stay current are as they were.
LEMMA RowsKeepInv ==
  ASSUME WizardInv, StoreOK', VisitOK', late' \subseteq late, current' \subseteq current,
         \A q \in DOMAIN store' \cap current' : q \in DOMAIN store \cap current /\ store'[q] = store[q],
         UNCHANGED <<draft, pipelineId, storage, saving, opened, overtaken, ids, edits, saves, lostReplies>>
  PROVE  WizardInv'
  <1>1. CountersOK'
    BY DEF WizardInv, CountersOK
  <1>2. LateOK'
    BY DEF WizardInv, LateOK, RequestOK, SourceIsDrafts
  <1>3. CleanIsStored'
    BY DEF WizardInv, CleanIsStored, Content
  <1>4. ASSUME SavingOK PROVE SavingOK'
    <2>1. RequestOK(saving)'
      BY <1>4 DEF SavingOK, RequestOK, SourceIsDrafts
    <2>2. ~ overtaken' => saving'.graph = Content(draft)'
      BY <1>4 DEF SavingOK, Content
    <2>3. saving'.outcome = "ok" /\ saving'.target \in DOMAIN store' \cap current' => store'[saving'.target] = saving'.graph
      BY <1>4 DEF SavingOK
    <2> QED BY <1>4, <2>1, <2>2, <2>3 DEF SavingOK
  <1> QED BY <1>1, <1>2, <1>3, <1>4 DEF WizardInv

\* The order the rows were written in is one of the orders they may come in.
LEMMA RowsAsWritten == ASSUME NEW n \in Nat, NEW g, ChainGraph(g, n) PROVE g.steps \in Orders(g.steps)
  <1> DEFINE f == [i \in DOMAIN g.steps |-> i]
  <1>1. f \in Bijection(DOMAIN g.steps, DOMAIN g.steps)
    BY DEF Bijection, Injection, Surjection, IsInjective
  <1>2. g.steps = [i \in DOMAIN g.steps |-> g.steps[f[i]]]
    BY DEF ChainGraph
  <1> HIDE DEF f
  <1> QED BY <1>1, <1>2 DEF Orders

\* Edits: what is stored and in flight is as it was.
LEMMA EditKeepsInv == ASSUME WizardInv, Edit PROVE WizardInv'
  <1>1. CountersOK /\ ids \in Nat /\ DraftOK(draft, ids)
    BY DEF WizardInv, CountersOK
  <1>2. PICK e \in Edits(draft) : draft' = e[1] /\ ids' = e[2] /\ edits' = edits + 1
    BY DEF Edit, Edited
  <1>3. EditedDraft(draft, e[1], e[2])
    <2>1. PICK d : d = draft
      OBVIOUS
    <2>2. EditedDraft(d, e[1], e[2])
      BY <1>1, <1>2, <2>1, EditIsWell
    <2> QED BY <2>1, <2>2
  <1>4. /\ edits < MaxEdits /\ overtaken' = (overtaken \/ saving # <<>>)
        /\ UNCHANGED <<pipelineId, storage, saving, late, store, ran, opened, current, saves, lostReplies>>
    BY DEF Edit
  <1>5. CountersOK' /\ ids' \in Nat /\ ids <= ids' /\ DraftOK(draft, ids)' /\ draft'.dirty /\ KeepsSource
    <2>1. CountersOK' /\ ids' \in Nat /\ ids <= ids'
      BY <1>1, <1>2, <1>3, <1>4, WizardAssumption DEF CountersOK, EditedDraft
    <2> QED BY <1>2, <1>3, <2>1 DEF EditedDraft, KeepsSource
  <1>6. \A g : ChainGraph(g, ids) => ChainGraph(g, ids')
    BY <1>1, <1>5, MoreIds
  <1>7. StoreOK'
    BY <1>4, <1>6 DEF WizardInv, StoreOK
  <1>8. \A r : RequestOK(r) => RequestOK(r)'
    BY <1>1, <1>4, <1>5, RequestsStay DEF CountersOK
  <1>9. LateOK'
    BY <1>4, <1>8 DEF WizardInv, LateOK
  <1>10. ASSUME SavingOK PROVE SavingOK' \/ saving = <<>>
    <2>1. PICK r : r = saving
      OBVIOUS
    <2>2. RequestOK(saving)'
      BY <1>4, <1>8, <1>10, <2>1 DEF SavingOK
    <2>3. overtaken' \/ saving = <<>>
      BY <1>4
    <2> QED BY <1>4, <1>10, <2>2, <2>3 DEF SavingOK
  <1>11. VisitOK'
    BY <1>4, <1>5 DEF WizardInv, VisitOK, HoldsSource, KeepsSource
  <1> QED BY <1>4, <1>5, <1>7, <1>9, <1>10, <1>11 DEF WizardInv, CleanIsStored

\* A save sends what the draft is, to the pipeline it belongs to.
LEMMA SaveKeepsInv == ASSUME WizardInv, Save PROVE WizardInv'
  <1>1. CountersOK /\ ids \in Nat /\ DraftOK(draft, ids)
    BY DEF WizardInv, CountersOK
  <1>2. PICK g : g = DerivePipelineBuilderGraph(draft)
    OBVIOUS
  <1>3. /\ saving' = [target |-> pipelineId, graph |-> g, number |-> saves + 1, outcome |-> "sent"]
        /\ saves < MaxSaves /\ saves' = saves + 1
        /\ UNCHANGED <<draft, pipelineId, storage, late, store, ran, opened, current, overtaken, ids, edits, lostReplies>>
    BY <1>2 DEF Save
  <1>4. saving'.target = pipelineId /\ saving'.graph = g /\ saving'.number = saves + 1 /\ saving'.outcome = "sent"
    BY <1>3
  <1>5. ChainGraph(g, ids) /\ SourceIsDrafts(g)
    BY <1>1, <1>2, DerivedGraph DEF SourceIsDrafts
  <1>6. CountersOK' /\ saves' \in Nat /\ saves <= saves' /\ saves' \in 1..saves'
    BY <1>1, <1>3, WizardAssumption DEF CountersOK
  <1>7. SavingOK'
    <2>1. saving' = [target |-> saving'.target, graph |-> saving'.graph, number |-> saving'.number, outcome |-> saving'.outcome]
      BY <1>3, <1>4
    <2>2. saving'.target \in 0..saves' /\ saving'.target \in 0..(saving'.number - 1) /\ saving'.number > opened'
      BY <1>1, <1>3, <1>4, <1>6 DEF CountersOK
    <2>3. saving'.graph = Content(draft)'
      BY <1>2, <1>3, <1>4 DEF Content
    <2>4. RequestOK(saving)'
      <3>1. ChainGraph(saving.graph, ids)' /\ SourceIsDrafts(saving.graph)'
        BY <1>3, <1>4, <1>5 DEF SourceIsDrafts
      <3> QED BY <1>3, <1>4, <1>6, <3>1 DEF RequestOK
    <2> QED BY <1>3, <1>4, <2>1, <2>2, <2>3, <2>4 DEF SavingOK, Outcomes
  <1>8. LateOK'
    <2>1. KeepsSource
      BY <1>3 DEF KeepsSource
    <2>2. \A r : RequestOK(r) => RequestOK(r)'
      BY <1>1, <1>3, <1>6, <2>1, RequestsStay
    <2> QED BY <1>3, <2>2 DEF WizardInv, LateOK
  <1>9. StoreOK'
    BY <1>1, <1>3 DEF WizardInv, StoreOK, CountersOK
  <1>10. VisitOK' /\ CleanIsStored'
    BY <1>3 DEF WizardInv, VisitOK, HoldsSource, CleanIsStored, Content
  <1> QED BY <1>1, <1>3, <1>6, <1>7, <1>8, <1>9, <1>10 DEF WizardInv

\* A graph that is accepted holds the draft's Source.
LEMMA AcceptedHasSource == ASSUME NEW g, SourceIsDrafts(g), Accepts(g) PROVE HoldsSource(g)
  <1>1. PICK i \in DOMAIN g.steps : g.steps[i].kind = "source"
    BY DEF Accepts, StepsAndEdgesAreValid
  <1> QED BY <1>1 DEF SourceIsDrafts, HoldsSource

\* What an accepted request does to the rows: it writes one of them, and if that
\* is a pipeline of this visit, it is the only one, since the Source's
\* identifier would have made a second insert fail.
LEMMA RequestWrites ==
  ASSUME WizardInv, NEW r, RequestOK(r), r.target \in 0..(r.number - 1), ServerOutcome(r) = "ok",
         store' = Written(RowOf(r), r.graph), UNCHANGED <<draft, ran, opened, ids, saves>>
  PROVE  /\ StoreOK' /\ VisitOK' /\ RowOf(r) \in 1..saves
         /\ DOMAIN store' = DOMAIN store \cup {RowOf(r)} /\ store'[RowOf(r)] = r.graph
         /\ \A q \in DOMAIN store \ {RowOf(r)} : store'[q] = store[q]
  <1> DEFINE p == RowOf(r)
  <1>1. CountersOK /\ StoreOK /\ VisitOK /\ saves \in Nat /\ opened \in Nat
    BY DEF WizardInv, CountersOK
  <1>2. Accepts(r.graph) /\ ChainGraph(r.graph, ids) /\ r.number \in 1..saves
    BY DEF ServerOutcome, CreateOutcome, UpdateOutcome, RequestOK
  <1>3. /\ r.target = 0 => p = r.number /\ StepIds(r.graph) \cap TakenIds(0) = {}
        /\ r.target # 0 => p = r.target /\ p \in DOMAIN store /\ r.number > p
    BY <1>1, <1>2 DEF RowOf, ServerOutcome, CreateOutcome, UpdateOutcome
  <1>4. p \in 1..saves
    BY <1>1, <1>2, <1>3 DEF StoreOK
  <1>5. p > opened => HoldsSource(r.graph)
    <2> SUFFICES ASSUME p > opened PROVE HoldsSource(r.graph)
      OBVIOUS
    <2>1. r.number > opened
      BY <1>1, <1>2, <1>3, <1>4
    <2>2. SourceIsDrafts(r.graph)
      BY <2>1 DEF RequestOK
    <2> QED BY <1>2, <2>2, AcceptedHasSource
  <1> HIDE DEF p
  <1>6. /\ DOMAIN store' = DOMAIN store \cup {p} /\ store'[p] = r.graph
        /\ \A q \in DOMAIN store \ {p} : store'[q] = store[q]
        /\ store' = [q \in DOMAIN store' |-> store'[q]]
    BY DEF Written, p
  <1>7. StoreOK'
    <2>1. DOMAIN store' \subseteq 1..saves' /\ ran' \subseteq DOMAIN store'
      BY <1>1, <1>4, <1>6 DEF StoreOK
    <2>2. \A q \in DOMAIN store' : ChainGraph(store'[q], ids)
      BY <1>1, <1>2, <1>6 DEF StoreOK
    <2> QED BY <1>6, <2>1, <2>2 DEF StoreOK
  <1>8. ASSUME NEW q \in DOMAIN store', q > opened PROVE HoldsSource(store'[q])
    <2>1. CASE q = p
      BY <1>5, <1>6, <1>8, <2>1
    <2>2. CASE q # p
      BY <1>1, <1>6, <1>8, <2>2 DEF VisitOK
    <2> QED BY <2>1, <2>2
  <1>9. ASSUME NEW q \in DOMAIN store', q > opened, q # p, p > opened PROVE FALSE
    <2>1. q \in DOMAIN store /\ HoldsSource(store[q])
      BY <1>1, <1>6, <1>9 DEF VisitOK
    <2>2. CASE r.target # 0
      BY <1>1, <1>3, <1>9, <2>1, <2>2 DEF VisitOK
    <2>3. CASE r.target = 0
      <3>1. draft.source[1].id \in StepIds(store[q]) /\ draft.source[1].id \in StepIds(r.graph)
        BY <1>5, <1>9, <2>1 DEF HoldsSource, StepIds
      <3>2. q # 0
        BY <1>1, <2>1 DEF StoreOK
      <3>3. draft.source[1].id \in TakenIds(0)
        BY <2>1, <3>1, <3>2 DEF TakenIds
      <3> QED BY <1>3, <2>3, <3>1, <3>3
    <2> QED BY <2>2, <2>3
  <1>10. ASSUME NEW q \in DOMAIN store', NEW s \in DOMAIN store', q > opened, s > opened PROVE q = s
    <2>1. CASE q = p \/ s = p
      BY <1>9, <1>10, <2>1
    <2>2. CASE q # p /\ s # p
      <3>1. q \in DOMAIN store /\ s \in DOMAIN store
        BY <1>6, <2>2
      <3> QED BY <1>1, <1>10, <3>1 DEF VisitOK
    <2> QED BY <2>1, <2>2
  <1>11. VisitOK'
    <2>1. \A q \in DOMAIN store' : q > opened' => HoldsSource(store[q])'
      BY <1>8 DEF HoldsSource
    <2> QED BY <1>10, <2>1 DEF VisitOK
  <1> QED BY <1>4, <1>6, <1>7, <1>11 DEF p

\* An answer that changes nothing but the request.
LEMMA RefusalKeepsInv ==
  ASSUME WizardInv, saving # <<>>, NEW o \in Outcomes \ {"sent", "ok"}, saving' = [saving EXCEPT !.outcome = o],
         lostReplies' \in 0..MaxLostReplies, late' \subseteq late \cup Unserved,
         UNCHANGED <<draft, pipelineId, storage, store, ran, opened, current, overtaken, ids, edits, saves>>
  PROVE  WizardInv'
  <1>1. SavingOK
    BY DEF WizardInv
  <1>2. PICK t, g, n, u : saving = [target |-> t, graph |-> g, number |-> n, outcome |-> u]
    BY <1>1 DEF SavingOK
  <1>3. saving' = [target |-> t, graph |-> g, number |-> n, outcome |-> o]
    BY <1>2
  <1>4. /\ saving.target = t /\ saving.graph = g /\ saving.number = n
        /\ saving'.target = t /\ saving'.graph = g /\ saving'.number = n /\ saving'.outcome = o
    BY <1>2, <1>3
  <1>5. SavingOK'
    <2>1. saving' = [target |-> saving'.target, graph |-> saving'.graph, number |-> saving'.number, outcome |-> saving'.outcome]
      BY <1>3, <1>4
    <2>2. RequestOK(saving)'
      BY <1>1, <1>4 DEF SavingOK, RequestOK, SourceIsDrafts
    <2>3. ~ overtaken' => saving'.graph = Content(draft)'
      BY <1>1, <1>4 DEF SavingOK, Content
    <2> QED BY <1>1, <1>4, <2>1, <2>2, <2>3 DEF SavingOK
  <1>6. CountersOK'
    BY DEF WizardInv, CountersOK
  <1>7. LateOK'
    BY UnservedIsLate DEF WizardInv, LateOK, RequestOK, SourceIsDrafts
  <1>8. StoreOK' /\ VisitOK' /\ CleanIsStored'
    BY DEF WizardInv, StoreOK, VisitOK, HoldsSource, CleanIsStored, Content
  <1> QED BY <1>5, <1>6, <1>7, <1>8 DEF WizardInv

\* The server answers the save that is waited for.
LEMMA ServeKeepsInv == ASSUME WizardInv, ServeSave PROVE WizardInv'
  <1>1. /\ saving # <<>> /\ saving.outcome = "sent"
        /\ UNCHANGED <<draft, pipelineId, storage, late, ran, opened, overtaken, ids, edits, saves, lostReplies>>
    BY DEF ServeSave, counters
  <1>2. SavingOK /\ CountersOK /\ StoreOK /\ VisitOK /\ LateOK /\ CleanIsStored /\ DraftOK(draft, ids)
    BY <1>1 DEF WizardInv
  <1>3. CASE ServerOutcome(saving) # "ok"
    <2>1. ServerOutcome(saving) \in Outcomes \ {"sent", "ok"}
      BY <1>3 DEF ServerOutcome, CreateOutcome, UpdateOutcome, Outcomes
    <2>2. saving' = [saving EXCEPT !.outcome = ServerOutcome(saving)] /\ UNCHANGED <<store, current>>
      BY <1>3 DEF ServeSave
    <2>3. PICK o : o = ServerOutcome(saving)
      OBVIOUS
    <2>4. lostReplies' \in 0..MaxLostReplies /\ late' \subseteq late \cup Unserved
      BY <1>1, <1>2 DEF CountersOK
    <2> QED BY <1>1, <2>1, <2>2, <2>3, <2>4, RefusalKeepsInv
  <1>4. CASE ServerOutcome(saving) = "ok"
    <2>1. PICK r : r = saving
      OBVIOUS
    <2>2. PICK p : p = RowOf(r)
      OBVIOUS
    <2>3. /\ store' = Written(p, r.graph) /\ current' = current \cup {p}
          /\ saving' = [r EXCEPT !.outcome = "ok", !.target = p]
      BY <1>4, <2>1, <2>2 DEF ServeSave
    <2>4. RequestOK(r) /\ r.target \in 0..(r.number - 1) /\ r.target = pipelineId /\ ServerOutcome(r) = "ok"
      BY <1>1, <1>2, <1>4, <2>1 DEF SavingOK
    <2>5. /\ StoreOK' /\ VisitOK' /\ p \in 1..saves
          /\ DOMAIN store' = DOMAIN store \cup {p} /\ store'[p] = r.graph
          /\ \A q \in DOMAIN store \ {p} : store'[q] = store[q]
      BY <1>1, <2>2, <2>3, <2>4, RequestWrites
    <2>6. PICK t, g, n, u : r = [target |-> t, graph |-> g, number |-> n, outcome |-> u]
      BY <1>2, <2>1 DEF SavingOK
    <2>7. saving' = [target |-> p, graph |-> g, number |-> n, outcome |-> "ok"]
      BY <2>3, <2>6
    <2>8. /\ saving.graph = g /\ saving.number = n /\ r.graph = g
          /\ saving'.target = p /\ saving'.graph = g /\ saving'.number = n /\ saving'.outcome = "ok"
      BY <2>1, <2>6, <2>7
    <2>9. CountersOK'
      <3>1. current' \subseteq 1..saves'
        BY <1>1, <1>2, <2>3, <2>5 DEF CountersOK
      <3> QED BY <1>1, <1>2, <3>1 DEF CountersOK
    <2>10. SavingOK'
      <3>1. saving' = [target |-> saving'.target, graph |-> saving'.graph, number |-> saving'.number, outcome |-> saving'.outcome]
        BY <2>7, <2>8
      <3>2. RequestOK(saving)'
        BY <1>1, <1>2, <2>8 DEF SavingOK, RequestOK, SourceIsDrafts
      <3>3. ~ overtaken' => saving'.graph = Content(draft)'
        BY <1>1, <1>2, <2>8 DEF SavingOK, Content
      <3>4. saving'.target \in 0..saves' /\ saving'.target # 0
        BY <1>1, <1>2, <2>5, <2>8 DEF CountersOK
      <3>5. saving'.number > opened'
        BY <1>1, <1>2, <2>8 DEF SavingOK
      <3> QED BY <2>5, <2>8, <3>1, <3>2, <3>3, <3>4, <3>5 DEF SavingOK, Outcomes
    <2>11. LateOK'
      BY <1>1, <1>2 DEF LateOK, RequestOK, SourceIsDrafts
    <2>12. CleanIsStored'
      <3>1. CASE pipelineId = p
        <4>1. ~ overtaken => g = Content(draft)
          BY <1>2, <2>8 DEF SavingOK
        <4> QED BY <1>1, <2>5, <2>8, <3>1, <4>1 DEF CleanIsStored, Content
      <3>2. CASE pipelineId # p
        <4>1. pipelineId' \in DOMAIN store' \cap current' => pipelineId \in DOMAIN store \cap current
          BY <1>1, <2>3, <2>5, <3>2
        <4>2. pipelineId \in DOMAIN store => store'[pipelineId] = store[pipelineId]
          BY <2>5, <3>2
        <4> QED BY <1>1, <1>2, <4>1, <4>2 DEF CleanIsStored, Content
      <3> QED BY <3>1, <3>2
    <2> QED BY <1>1, <1>2, <2>5, <2>9, <2>10, <2>11, <2>12 DEF WizardInv
  <1> QED BY <1>3, <1>4

\* A lost reply leaves the draft and the rows alone.
LEMMA LossKeepsInv == ASSUME WizardInv, LoseReply PROVE WizardInv'
  <1>1. lostReplies' \in 0..MaxLostReplies
    BY WizardAssumption DEF LoseReply, WizardInv, CountersOK
  <1>2. "lost" \in Outcomes \ {"sent", "ok"}
    BY DEF Outcomes
  <1> QED BY <1>1, <1>2, RefusalKeepsInv DEF LoseReply

\* A request is served that nobody waits for: its row is no longer current.
LEMMA LateKeepsInv == ASSUME WizardInv, NEW r \in late, ServeLate(r) PROVE WizardInv'
  <1>1. /\ late' = late \ {r}
        /\ UNCHANGED <<draft, pipelineId, storage, saving, ran, opened, overtaken, ids, edits, saves, lostReplies>>
    BY DEF ServeLate, counters
  <1>2. CountersOK /\ StoreOK /\ VisitOK /\ LateOK /\ CleanIsStored /\ DraftOK(draft, ids)
    BY DEF WizardInv
  <1>3. RequestOK(r) /\ r.target \in 0..(r.number - 1)
    BY <1>2 DEF LateOK
  <1>4. PICK p : p = RowOf(r)
    OBVIOUS
  <1>5. /\ StoreOK' /\ VisitOK' /\ current' \subseteq current
        /\ \A q \in DOMAIN store' \cap current' : q \in DOMAIN store \cap current /\ store'[q] = store[q]
    <2>1. CASE ServerOutcome(r) = "ok"
      <3>1. store' = Written(p, r.graph) /\ current' = current \ {p}
        BY <1>4, <2>1 DEF ServeLate
      <3>2. /\ StoreOK' /\ VisitOK' /\ DOMAIN store' = DOMAIN store \cup {p}
            /\ \A q \in DOMAIN store \ {p} : store'[q] = store[q]
        BY <1>1, <1>3, <1>4, <2>1, <3>1, RequestWrites
      <3> QED BY <3>1, <3>2
    <2>2. CASE ServerOutcome(r) # "ok"
      <3>1. UNCHANGED <<store, current>>
        BY <2>2 DEF ServeLate
      <3> QED BY <1>1, <1>2, <3>1 DEF StoreOK, VisitOK, HoldsSource
    <2> QED BY <2>1, <2>2
  <1> QED BY <1>1, <1>2, <1>5, RowsKeepInv

\* The reply arrives: a draft marked saved is stored unless it was edited
\* while the save was under way.
LEMMA FinishKeepsInv == ASSUME WizardInv, FinishWizardSave PROVE WizardInv'
  <1>1. /\ saving # <<>> /\ saving' = <<>>
        /\ UNCHANGED <<late, store, ran, opened, current, overtaken, ids, edits, saves, lostReplies>>
    BY DEF FinishWizardSave, counters
  <1>2. SavingOK /\ CountersOK /\ StoreOK /\ VisitOK /\ LateOK /\ CleanIsStored /\ DraftOK(draft, ids) /\ ids \in Nat
    BY <1>1 DEF WizardInv, CountersOK
  <1>3. StoreOK'
    BY <1>1, <1>2 DEF StoreOK
  <1>4. CASE saving.outcome = "ok"
    <2>1. PICK t : t = saving.target
      OBVIOUS
    <2>2. /\ pipelineId' = t /\ draft' = [draft EXCEPT !.dirty = FALSE]
          /\ storage' = t \/ storage' = storage
      BY <1>4, <2>1 DEF FinishWizardSave
    <2>3. DraftOK(draft', ids) /\ draft'.source = draft.source /\ Content(draft') = Content(draft)
      BY <1>2, <2>2, MarkedSaved DEF Content
    <2>4. t \in 0..saves
      BY <1>2, <2>1 DEF SavingOK
    <2>5. CountersOK'
      BY <1>1, <1>2, <2>2, <2>4 DEF CountersOK
    <2>6. VisitOK' /\ LateOK'
      BY <1>1, <1>2, <2>3 DEF VisitOK, HoldsSource, LateOK, RequestOK, SourceIsDrafts
    <2>7. (~ overtaken /\ t \in DOMAIN store \cap current) => Content(draft) = store[t]
      BY <1>2, <1>4, <2>1 DEF SavingOK
    <2>8. CleanIsStored'
      BY <1>1, <2>2, <2>3, <2>7 DEF CleanIsStored
    <2> QED BY <1>1, <1>3, <2>3, <2>5, <2>6, <2>8 DEF WizardInv
  <1>5. CASE saving.outcome # "ok"
    <2>1. UNCHANGED <<pipelineId, storage, draft>>
      BY <1>5 DEF FinishWizardSave
    <2>2. CountersOK' /\ VisitOK' /\ LateOK' /\ CleanIsStored'
      BY <1>1, <1>2, <2>1 DEF CountersOK, VisitOK, HoldsSource, LateOK, RequestOK, SourceIsDrafts, CleanIsStored, Content
    <2> QED BY <1>1, <1>2, <1>3, <2>1, <2>2 DEF WizardInv
  <1> QED BY <1>4, <1>5

\* A new visit resumes the stored pipeline or starts empty.
LEMMA ReloadKeepsInv == ASSUME WizardInv, Reload PROVE WizardInv'
  <1>1. /\ saving' = <<>> /\ late' = late \cup Unserved /\ opened' = saves /\ overtaken' = FALSE
        /\ UNCHANGED <<store, ran, ids, edits, saves, lostReplies>>
    BY DEF Reload, counters
  <1>2. CountersOK /\ StoreOK /\ ids \in Nat /\ saves \in Nat
    BY DEF WizardInv, CountersOK
  <1>3. StoreOK'
    BY <1>1, <1>2 DEF StoreOK
  <1>4. VisitOK'
    <2>1. \A p \in DOMAIN store' : ~ (p > opened')
      BY <1>1, <1>2 DEF StoreOK
    <2> QED BY <2>1 DEF VisitOK
  <1>5. LateOK'
    <2>1. \A r \in late \cup Unserved : RequestOK(r) /\ r.target \in 0..(r.number - 1)
      BY UnservedIsLate DEF WizardInv, LateOK
    <2>2. ASSUME NEW r \in late' PROVE RequestOK(r)' /\ r.target \in 0..(r.number - 1)
      <3>1. r.number \in 1..saves /\ ChainGraph(r.graph, ids) /\ r.target \in 0..(r.number - 1)
        BY <1>1, <2>1, <2>2 DEF RequestOK
      <3>2. ~ (r.number > saves)
        BY <1>2, <3>1
      <3> QED BY <1>1, <3>1, <3>2 DEF RequestOK
    <2> QED BY <2>2 DEF LateOK
  <1>6. CASE Resume
    <2>1. PICK rows \in Orders(store[storage].steps) :
            draft' = CreatePipelineBuilderDraftFromPipeline(store[storage], rows)
      BY <1>6 DEF Resume
    <2>2. storage \in DOMAIN store /\ pipelineId' = storage /\ storage' = storage /\ current' = {storage}
      BY <1>6 DEF Resume
    <2>3. ChainGraph(store[storage], ids)
      BY <1>2, <2>2 DEF StoreOK
    <2>4. DraftOK(draft', ids) /\ Content(draft') = store[storage]
      <3>1. PICK g : g = store[storage]
        OBVIOUS
      <3> QED BY <1>2, <2>1, <2>3, <3>1, ResumedDraft DEF Content
    <2>5. CountersOK'
      <3>1. current' \subseteq 1..saves' /\ opened' \in 0..saves'
        BY <1>1, <1>2, <2>2 DEF StoreOK
      <3> QED BY <1>1, <1>2, <2>2, <3>1 DEF CountersOK
    <2>6. CleanIsStored'
      BY <1>1, <2>2, <2>4 DEF CleanIsStored
    <2> QED BY <1>1, <1>3, <1>4, <1>5, <2>4, <2>5, <2>6 DEF WizardInv
  <1>7. CASE StartEmpty
    <2>1. draft' = EmptyDraft /\ pipelineId' = 0 /\ storage' = 0 /\ current' = {}
      BY <1>7 DEF StartEmpty
    <2>2. DraftOK(draft', ids')
      BY <2>1, EmptyDraftOK
    <2>3. CountersOK'
      <3>1. pipelineId' \in 0..saves' /\ storage' \in 0..saves' /\ opened' \in 0..saves' /\ current' \subseteq 1..saves'
        BY <1>1, <1>2, <2>1
      <3> QED BY <1>1, <1>2, <3>1 DEF CountersOK
    <2>4. CleanIsStored'
      BY <2>1 DEF CleanIsStored
    <2> QED BY <1>1, <1>3, <1>4, <1>5, <2>2, <2>3, <2>4 DEF WizardInv
  <1> QED BY <1>6, <1>7 DEF Reload

\* Forgetting the name of the pipeline disturbs nothing that is on the page.
LEMMA ForgetKeepsInv == ASSUME WizardInv, ForgetStoredId PROVE WizardInv'
  <1>1. /\ UNCHANGED <<draft, pipelineId, saving, late, store, ran, opened, current, overtaken, ids, edits, saves, lostReplies>>
        /\ storage' = 0
    BY DEF ForgetStoredId, counters
  <1>2. CountersOK'
    BY <1>1 DEF WizardInv, CountersOK
  <1>3. StoreOK' /\ VisitOK' /\ LateOK' /\ CleanIsStored'
    BY <1>1 DEF WizardInv, StoreOK, VisitOK, HoldsSource, LateOK, RequestOK, SourceIsDrafts, CleanIsStored, Content
  <1>4. SavingOK => SavingOK'
    BY <1>1 DEF SavingOK, RequestOK, SourceIsDrafts, Content
  <1> QED BY <1>1, <1>2, <1>3, <1>4 DEF WizardInv

\* Runs and deletions by others leave every pipeline that stays as it was.
LEMMA OthersKeepInv ==
  ASSUME WizardInv, NEW p \in DOMAIN store, RunPipeline(p) \/ DeleteByAnother(p)
  PROVE  WizardInv'
  <1>1. /\ UNCHANGED <<draft, pipelineId, storage, saving, late, opened, current, overtaken, ids, edits, saves, lostReplies>>
        /\ DOMAIN store' \subseteq DOMAIN store /\ \A q \in DOMAIN store' : store'[q] = store[q]
        /\ store' = [q \in DOMAIN store' |-> store'[q]]
    BY DEF RunPipeline, DeleteByAnother, WizardInv, StoreOK, counters
  <1>2. CountersOK /\ StoreOK /\ VisitOK
    BY DEF WizardInv
  <1>3. ran' \subseteq DOMAIN store'
    BY <1>2 DEF RunPipeline, DeleteByAnother, StoreOK
  <1>4. StoreOK'
    BY <1>1, <1>2, <1>3 DEF StoreOK
  <1>5. VisitOK'
    BY <1>1, <1>2 DEF VisitOK, HoldsSource
  <1> QED BY <1>1, <1>4, <1>5, RowsKeepInv

\* An update by another page: its draft came from the row and has the row's
\* Source, so the row keeps it.
LEMMA AnotherKeepsInv == ASSUME WizardInv, NEW p \in DOMAIN store, UpdateByAnother(p) PROVE WizardInv'
  <1>1. /\ UNCHANGED <<draft, pipelineId, storage, saving, late, ran, opened, overtaken, saves, lostReplies>>
        /\ edits < MaxEdits /\ current' = current \ {p}
    BY DEF UpdateByAnother
  <1>2. CountersOK /\ StoreOK /\ VisitOK /\ LateOK /\ CleanIsStored /\ DraftOK(draft, ids) /\ ids \in Nat
    BY DEF WizardInv, CountersOK
  <1>3. PICK old : old = store[p]
    OBVIOUS
  <1>4. PICK d : d = CreatePipelineBuilderDraftFromPipeline(old, old.steps)
    OBVIOUS
  <1>5. ChainGraph(old, ids) /\ DraftOK(d, ids) /\ DerivePipelineBuilderGraph(d) = old
    <2>1. ChainGraph(old, ids)
      BY <1>2, <1>3 DEF StoreOK
    <2>2. old.steps \in Orders(old.steps)
      BY <1>2, <2>1, RowsAsWritten
    <2> QED BY <1>2, <1>4, <2>1, <2>2, ResumedDraft
  <1>6. PICK e \in Edits(d) : /\ store' = Written(p, DerivePipelineBuilderGraph(e[1]))
                              /\ ids' = e[2] /\ edits' = edits + 1 /\ Accepts(DerivePipelineBuilderGraph(e[1]))
    BY <1>3, <1>4 DEF UpdateByAnother, Edited, UpdateOutcome
  <1>7. EditedDraft(d, e[1], e[2])
    BY <1>2, <1>5, <1>6, EditIsWell
  <1>8. CountersOK' /\ ids' \in Nat /\ ids <= ids'
    <2>1. ids' \in {ids, ids + 1}
      BY <1>6, <1>7 DEF EditedDraft
    <2>2. edits' \in 0..MaxEdits /\ ids' \in 0..edits' /\ ids' \in Nat /\ ids <= ids'
      BY <1>1, <1>2, <1>6, <2>1, WizardAssumption DEF CountersOK
    <2>3. current' \subseteq 1..saves'
      BY <1>1, <1>2 DEF CountersOK
    <2> QED BY <1>1, <1>2, <2>2, <2>3 DEF CountersOK
  <1>9. PICK g : g = DerivePipelineBuilderGraph(e[1])
    OBVIOUS
  <1>10. /\ ChainGraph(g, ids') /\ Accepts(g)
         /\ \A i \in DOMAIN g.steps : g.steps[i].kind = "source" => e[1].source # <<>> /\ g.steps[i].id = e[1].source[1].id
    BY <1>6, <1>7, <1>8, <1>9, DerivedGraph DEF EditedDraft
  <1>11. /\ DOMAIN store' = DOMAIN store /\ store'[p] = g /\ \A q \in DOMAIN store \ {p} : store'[q] = store[q]
         /\ store' = [q \in DOMAIN store' |-> store'[q]]
    BY <1>6, <1>9 DEF Written
  <1>12. StoreOK'
    <2>1. \A h : ChainGraph(h, ids) => ChainGraph(h, ids')
      BY <1>2, <1>8, MoreIds
    <2>2. \A q \in DOMAIN store' : ChainGraph(store'[q], ids')
      BY <1>2, <1>10, <1>11, <2>1 DEF StoreOK
    <2> QED BY <1>1, <1>2, <1>11, <2>2 DEF StoreOK
  <1>13. p > opened => HoldsSource(g)
    <2> SUFFICES ASSUME p > opened PROVE HoldsSource(g)
      OBVIOUS
    <2>1. PICK i \in DOMAIN old.steps : old.steps[i].kind = "source" /\ old.steps[i].id = draft.source[1].id
      BY <1>2, <1>3 DEF VisitOK, HoldsSource
    <2>2. d.source # <<>> /\ d.source[1].id = draft.source[1].id
      <3>1. \A j \in DOMAIN old.steps : old.steps[j].kind = "source" => d.source # <<>> /\ old.steps[j].id = d.source[1].id
        BY <1>2, <1>5, DerivedGraph
      <3> QED BY <2>1, <3>1
    <2>3. PICK j \in DOMAIN g.steps : g.steps[j].kind = "source"
      BY <1>10 DEF Accepts, StepsAndEdgesAreValid
    <2>4. g.steps[j].id = draft.source[1].id
      BY <1>7, <1>10, <2>2, <2>3 DEF EditedDraft
    <2>5. draft.source # <<>>
      BY <1>2 DEF VisitOK, HoldsSource
    <2> QED BY <2>3, <2>4, <2>5 DEF HoldsSource
  <1>14. VisitOK'
    <2>1. ASSUME NEW q \in DOMAIN store', q > opened PROVE HoldsSource(store'[q])
      <3>1. CASE q = p
        BY <1>11, <1>13, <2>1, <3>1
      <3>2. CASE q # p
        BY <1>2, <1>11, <2>1, <3>2 DEF VisitOK
      <3> QED BY <3>1, <3>2
    <2>2. \A q \in DOMAIN store' : q > opened' => HoldsSource(store[q])'
      BY <1>1, <2>1 DEF HoldsSource
    <2> QED BY <1>1, <1>2, <1>11, <2>2 DEF VisitOK
  <1>15. KeepsSource
    BY <1>1 DEF KeepsSource
  <1>16. \A r : RequestOK(r) => RequestOK(r)'
    BY <1>1, <1>2, <1>8, <1>15, RequestsStay DEF CountersOK
  <1>17. LateOK'
    BY <1>1, <1>2, <1>16 DEF LateOK
  <1>18. ASSUME SavingOK PROVE SavingOK'
    <2>1. PICK r : r = saving
      OBVIOUS
    <2>2. RequestOK(saving)'
      BY <1>1, <1>16, <1>18, <2>1 DEF SavingOK
    <2>3. ~ overtaken' => saving'.graph = Content(draft)'
      BY <1>1, <1>18 DEF SavingOK, Content
    <2>4. saving'.outcome = "ok" /\ saving'.target \in DOMAIN store' \cap current' => store'[saving'.target] = saving'.graph
      BY <1>1, <1>11, <1>18 DEF SavingOK
    <2> QED BY <1>1, <1>18, <2>2, <2>3, <2>4 DEF SavingOK
  <1>19. CleanIsStored'
    BY <1>1, <1>2, <1>11 DEF CleanIsStored, Content
  <1>20. DraftOK(draft, ids)'
    BY <1>1, <1>2, <1>8, MoreIds
  <1> QED BY <1>1, <1>8, <1>12, <1>14, <1>17, <1>18, <1>19, <1>20 DEF WizardInv

\* WizardInv is inductive.
LEMMA WizardNextInv == WizardInv /\ [WizardNext]_wizardVars => WizardInv'
  <1> SUFFICES ASSUME WizardInv, [WizardNext]_wizardVars PROVE WizardInv'
    OBVIOUS
  <1>1. CASE UNCHANGED wizardVars
    <2>1. /\ UNCHANGED <<draft, pipelineId, storage, saving, late, opened, current, overtaken, ids, edits, saves, lostReplies>>
          /\ UNCHANGED <<store, ran>>
      BY <1>1 DEF wizardVars
    <2>2. StoreOK' /\ VisitOK'
      BY <2>1 DEF WizardInv, StoreOK, VisitOK, HoldsSource
    <2> QED BY <2>1, <2>2, RowsKeepInv
  <1> QED BY <1>1, EditKeepsInv, SaveKeepsInv, ServeKeepsInv, LossKeepsInv, LateKeepsInv, FinishKeepsInv,
             ReloadKeepsInv, ForgetKeepsInv, OthersKeepInv, AnotherKeepsInv DEF WizardNext

-----------------------------------------------------------------------------
(* What follows from it *)

\* A chain of at most so many identifiers is a graph of the type.
LEMMA ChainIsGraph == ASSUME NEW n \in 0..MaxEdits, NEW g, ChainGraph(g, n) PROVE Graphs(g)
  <1>1. PICK named, steps, edges : /\ g = [named |-> named, steps |-> steps, edges |-> edges]
                                   /\ edges = DerivePipelineBuilderEdges(steps)
    BY DEF ChainGraph
  <1>2. DOMAIN g = {"named", "steps", "edges"} /\ g.named = named /\ g.steps = steps /\ g.edges = edges
    BY <1>1
  <1>3. named \in BOOLEAN /\ steps \in Seq(Steps(n))
    BY <1>2 DEF ChainGraph
  <1>4. MaxEdits \in Nat /\ n \in Nat /\ n <= MaxEdits
    BY WizardAssumption
  <1>5. \A i \in DOMAIN steps : steps[i].id \in 1..MaxEdits /\ steps[i].kind \in Kinds
    <2> SUFFICES ASSUME NEW i \in DOMAIN steps PROVE steps[i].id \in 1..MaxEdits /\ steps[i].kind \in Kinds
      OBVIOUS
    <2>1. steps[i] \in Steps(n)
      BY <1>3, ElementOfSeq, LenProperties
    <2>2. steps[i].id \in 1..n /\ steps[i].kind \in Kinds
      BY <2>1 DEF Steps
    <2> QED BY <1>4, <2>2
  <1>6. \A i \in DOMAIN edges : {edges[i].from, edges[i].to} \subseteq 1..MaxEdits
    <2> SUFFICES ASSUME NEW i \in DOMAIN edges PROVE {edges[i].from, edges[i].to} \subseteq 1..MaxEdits
      OBVIOUS
    <2>1. Len(steps) \in Nat /\ DOMAIN steps = 1..Len(steps)
      BY <1>3, LenProperties
    <2> DEFINE k == IF steps = <<>> THEN 0 ELSE Len(steps) - 1
    <2>2. k = IF steps = <<>> THEN 0 ELSE Len(steps) - 1
      OBVIOUS
    <2>3. k \in Int
      BY <2>1
    <2> HIDE DEF k
    <2>4. edges = [j \in 1..k |-> [from |-> steps[j].id, to |-> steps[j + 1].id]]
      BY <1>1, <2>2 DEF DerivePipelineBuilderEdges
    <2>5. i \in 1..k /\ edges[i].from = steps[i].id /\ edges[i].to = steps[i + 1].id
      BY <2>4
    <2>6. i \in DOMAIN steps /\ i + 1 \in DOMAIN steps
      <3>1. k \in Int /\ i \in Int /\ 1 <= i /\ i <= k
        BY <2>3, <2>5
      <3>2. k = Len(steps) - 1
        BY <2>2, <3>1
      <3> QED BY <2>1, <3>1, <3>2
    <2> QED BY <1>5, <2>5, <2>6
  <1> QED BY <1>2, <1>3, <1>5, <1>6 DEF Graphs

\* The type invariant follows from it.
LEMMA WizardTypes == WizardInv => WizardTypeOK
  <1> SUFFICES ASSUME WizardInv PROVE WizardTypeOK
    OBVIOUS
  <1>1. CountersOK /\ StoreOK /\ DraftOK(draft, ids) /\ (saving = <<>> \/ SavingOK)
    BY DEF WizardInv
  <1>2. /\ MaxEdits \in Nat /\ MaxSaves \in Nat /\ edits \in 0..MaxEdits /\ ids \in 0..MaxEdits /\ ids \in Nat
        /\ saves \in 0..MaxSaves /\ ids <= MaxEdits
    BY <1>1, WizardAssumption DEF CountersOK
  <1>3. \A g : ChainGraph(g, ids) => Graphs(g)
    BY <1>2, ChainIsGraph
  <1>4. ASSUME NEW kind, NEW s \in Seq(SelectionsOf(kind, ids)), NEW i \in DOMAIN s PROVE s[i] \in Selections
    <2>1. s[i] \in SelectionsOf(kind, ids)
      BY <1>4, ElementOfSeq, LenProperties
    <2>2. 1..ids \subseteq 1..MaxEdits
      BY <1>2
    <2> QED BY <2>1, <2>2 DEF SelectionsOf, Selections, Types
  <1>5. \A part \in {draft.source, draft.transforms, draft.export} : \A i \in DOMAIN part : part[i] \in Selections
    BY <1>1, <1>4 DEF DraftOK
  <1>6. {pipelineId, storage} \subseteq 0..MaxSaves /\ DOMAIN store \subseteq 1..MaxSaves
    BY <1>1, <1>2 DEF CountersOK, StoreOK
  <1>7. saving = <<>> \/ (Graphs(saving.graph) /\ saving.outcome \in Outcomes)
    BY <1>1, <1>3 DEF SavingOK, RequestOK
  <1>8. ran \subseteq DOMAIN store /\ \A p \in DOMAIN store : Graphs(store[p])
    BY <1>1, <1>3 DEF StoreOK
  <1>9. draft.dirty \in BOOLEAN /\ draft.named \in BOOLEAN /\ Len(draft.source) <= 1 /\ Len(draft.export) <= 1
    BY <1>1 DEF DraftOK
  <1>10. /\ overtaken \in BOOLEAN /\ lostReplies \in 0..MaxLostReplies
         /\ opened \in 0..MaxSaves /\ current \subseteq 1..MaxSaves
    BY <1>1, <1>2 DEF CountersOK
  <1>11. \A r \in late : Graphs(r.graph) /\ r.target \in 0..MaxSaves /\ r.number \in 1..MaxSaves
    <2> SUFFICES ASSUME NEW r \in late PROVE Graphs(r.graph) /\ r.target \in 0..MaxSaves /\ r.number \in 1..MaxSaves
      OBVIOUS
    <2>1. ChainGraph(r.graph, ids) /\ r.number \in 1..saves /\ r.target \in 0..(r.number - 1)
      BY DEF WizardInv, LateOK, RequestOK
    <2> QED BY <1>2, <1>3, <2>1
  <1> QED BY <1>2, <1>5, <1>6, <1>7, <1>8, <1>9, <1>10, <1>11 DEF WizardTypeOK

\* So do the three properties.
LEMMA WizardInvImplies == WizardInv => WizardInvariant
  <1> SUFFICES ASSUME WizardInv PROVE WizardInvariant
    OBVIOUS
  <1>1. ResumeRestoresDraft
    <2> SUFFICES ASSUME NEW p \in DOMAIN store, NEW rows \in Orders(store[p].steps)
                 PROVE  Content(CreatePipelineBuilderDraftFromPipeline(store[p], rows)) = store[p]
      BY DEF ResumeRestoresDraft
    <2>1. ChainGraph(store[p], ids) /\ ids \in Nat
      BY DEF WizardInv, StoreOK, CountersOK
    <2> QED BY <2>1, ResumedDraft DEF Content
  <1>2. OneVisitOnePipeline
    <2> DEFINE M == {p \in DOMAIN store : p > opened}
    <2>1. \A p, q \in M : p = q
      BY DEF WizardInv, VisitOK
    <2>2. CASE M = {}
      BY <2>2, FS_EmptySet DEF OneVisitOnePipeline
    <2>3. CASE M # {}
      <3>1. PICK p : M = {p}
        BY <2>1, <2>3
      <3>2. Cardinality({p}) = 1
        BY FS_Singleton
      <3> QED BY <3>1, <3>2 DEF OneVisitOnePipeline
    <2> QED BY <2>2, <2>3
  <1>3. CleanMeansSaved
    BY DEF WizardInv, CleanIsStored, CleanMeansSaved
  <1> QED BY <1>1, <1>2, <1>3, WizardTypes DEF WizardInvariant

\* The wizard, for any catalogue, any number of edits, saves and lost replies,
\* and whatever further condition the server puts on a graph (Connects): a
\* saved pipeline is resumed as it was saved, in whatever order its rows come
\* back; a draft that is not dirty is what is stored, if it was not edited
\* during a save and nobody wrote the row since; one visit leaves one pipeline
\* behind, however many replies are lost, saves retried and requests served
\* late, and whoever else edits, runs or deletes pipelines meanwhile.
THEOREM WizardSafe == WizardSpec => []WizardInvariant
  <1>1. WizardInit => WizardInv
    BY WizardInitInv
  <1>2. WizardInv /\ [WizardNext]_wizardVars => WizardInv'
    BY WizardNextInv
  <1>3. WizardInv => WizardInvariant
    BY WizardInvImplies
  <1> QED BY <1>1, <1>2, <1>3, PTL DEF WizardSpec
=============================================================================

---------------------------- MODULE RunRequests ----------------------------
(***************************************************************************)
(* The round trip of a pipeline action: a button of PipelineActionControls *)
(* in a browser tab, the web route of apps/web/src/pipeline-api, for runs  *)
(* the scheduler's internal route, the database, and the way back to the   *)
(* feedback and the cached pipeline.  Responses get lost, other tabs act   *)
(* on the same pipeline, and a rejected request handler ends the           *)
(* scheduler process (main.ts: nothing catches it).                        *)
(*                                                                         *)
(* RunQueue models the database transactions; here each is one step.       *)
(***************************************************************************)
EXTENDS Naturals, FiniteSets

CONSTANTS
  Tabs,
  MaxClicks,  \* bound: clicks on a button
  MaxFaults,  \* bound: lost responses, expired sessions and database errors
  MaxStops    \* bound: operator's stops of the scheduler

ASSUME RequestAssumption == Tabs # {} /\ {MaxClicks, MaxFaults, MaxStops} \subseteq Nat

VARIABLES
  state,      \* pipelines.state; "gone" when the row is deleted
  executable, \* would assertPipelineExecutable accept the stored graph?
  busy,       \* a queued or running run exists
  created,    \* requests that created a run
  applied,    \* requests that changed the state or made a copy
  scheduler,  \* "up" or "down"
  req,        \* a request: its tab and action, where it is, and its answer
  waiting,    \* actionInFlight of a tab: its request, or 0
  shown,      \* feedback of a tab: a request and its message
  cached,     \* a tab's cached pipeline state
  clicks, faults, stops

requestVars == <<state, executable, busy, created, applied, scheduler, req, waiting, shown, cached,
          clicks, faults, stops>>
dbVars == <<state, executable, busy, created, applied>>
tabVars == <<waiting, shown, cached>>
clickBounds == <<clicks, faults, stops>>

Requests == 1..MaxClicks
Actions == {"run", "enable", "disable", "duplicate"}
States == {"enabled", "disabled"}
Conflicts == {"pipeline_locked", "pipeline_not_enabled", "pipeline_not_found"}
Codes == Conflicts \cup {"pipeline_not_executable", "unauthenticated", "error"} \cup States
InScheduler == {"sched", "create", "sched_reply"}
Messages == Conflicts \cup {"none", "success", "unavailable"}
NoRequest == [tab |-> CHOOSE t \in Tabs : TRUE, action |-> "run", at |-> "none", code |-> "error"]

RequestTypeOK ==
  /\ state \in States \cup {"gone"} /\ executable \in BOOLEAN /\ busy \in BOOLEAN
  /\ created \subseteq Requests /\ applied \subseteq Requests
  /\ scheduler \in {"up", "down"}
  /\ req \in [Requests -> [tab : Tabs, action : Actions, code : Codes,
                           at : {"none", "web", "read", "reply", "settled"} \cup InScheduler]]
  /\ waiting \in [Tabs -> 0..MaxClicks]
  /\ shown \in [Tabs -> [req : 0..MaxClicks, message : Messages]]
  /\ cached \in [Tabs -> States]
  /\ clicks \in 0..MaxClicks /\ faults \in 0..MaxFaults /\ stops \in 0..MaxStops

RequestInit ==
  /\ state \in States /\ executable \in BOOLEAN /\ busy = FALSE
  /\ created = {} /\ applied = {} /\ scheduler = "up"
  /\ req = [n \in Requests |-> NoRequest]
  /\ waiting = [t \in Tabs |-> 0]
  /\ shown = [t \in Tabs |-> [req |-> 0, message |-> "none"]]
  /\ cached = [t \in Tabs |-> state]
  /\ clicks = 0 /\ faults = 0 /\ stops = 0

MoveTo(n, at) == req' = [req EXCEPT ![n].at = at]
Answer(n, code) == req' = [req EXCEPT ![n].at = "reply", ![n].code = code]

-----------------------------------------------------------------------------
(* The browser. *)

Offered(t, a) == CASE a = "run" -> cached[t] = "enabled"
                   [] a = "disable" -> cached[t] = "enabled"
                   [] a = "enable" -> cached[t] # "enabled"
                   [] OTHER -> TRUE

Send(t, a) ==
  LET n == clicks + 1
  IN  /\ clicks < MaxClicks /\ Offered(t, a)
      /\ clicks' = n
      /\ req' = [req EXCEPT ![n] = [tab |-> t, action |-> a, at |-> "web", code |-> "error"]]
      /\ waiting' = [waiting EXCEPT ![t] = n]
      /\ shown' = [shown EXCEPT ![t] = [req |-> n, message |-> "none"]]
      /\ UNCHANGED <<dbVars, scheduler, cached, faults, stops>>

\* handleRun, handleDuplicate, handleStateChange: actionInFlight is a ref, so a
\* second click before the next render finds it set.
Click(t, a) == waiting[t] = 0 /\ Send(t, a)

\* parseErrorCode keeps the documented conflicts, getActionErrorMessage too.
Message(code) ==
  IF code \in States THEN "success" ELSE IF code \in Conflicts THEN code ELSE "unavailable"

\* Faulty: the action is released on success only.
SettleOnSuccess(t, code) == IF code \in States THEN 0 ELSE waiting[t]

\* onSettled: releaseAction.
Settle(t, code) == 0

\* The response arrives; of a tab's mutations only the latest reports.
Receive(n) ==
  LET t == req[n].tab
      code == req[n].code
  IN  /\ req[n].at = "reply"
      /\ MoveTo(n, "settled")
      /\ IF waiting[t] # n THEN UNCHANGED tabVars
         ELSE /\ waiting' = [waiting EXCEPT ![t] = Settle(t, code)]
              /\ shown' = [shown EXCEPT ![t].message = Message(code)]
              /\ cached' = IF code \in States /\ req[n].action \in {"enable", "disable"}
                           THEN [cached EXCEPT ![t] = code] ELSE cached
      /\ UNCHANGED <<dbVars, scheduler, clickBounds>>

\* The connection breaks: network_error, wherever the request is by now.
Disconnect(t) ==
  /\ waiting[t] # 0 /\ faults < MaxFaults
  /\ faults' = faults + 1
  /\ waiting' = [waiting EXCEPT ![t] = 0]
  /\ shown' = [shown EXCEPT ![t].message = "unavailable"]
  /\ UNCHANGED <<dbVars, scheduler, req, cached, clicks, stops>>

\* A detail query is refetched (invalidation, focus).
Refetch(t) ==
  /\ state # "gone" /\ cached[t] # state
  /\ cached' = [cached EXCEPT ![t] = state]
  /\ UNCHANGED <<dbVars, scheduler, req, waiting, shown, clickBounds>>

-----------------------------------------------------------------------------
(* The web routes. *)

Unauthenticated(n) ==
  /\ req[n].at = "web" /\ faults < MaxFaults
  /\ faults' = faults + 1
  /\ Answer(n, "unauthenticated")
  /\ UNCHANGED <<dbVars, scheduler, tabVars, clicks, stops>>

\* setPipelineStateForOwner: the conflicts in the order they are checked.
StateConflict(a) ==
  IF state = "gone" THEN "pipeline_not_found"
  ELSE IF busy THEN "pipeline_locked"
  ELSE IF a = "enable" /\ ~executable THEN "pipeline_not_executable" ELSE "none"

\* Faulty: the state is written before the graph is validated.
StateActionLate(n) ==
  LET a == req[n].action
      unlocked == StateConflict("disable") = "none"
  IN  /\ req[n].at = "web" /\ a \in {"enable", "disable"}
      /\ state' = IF unlocked THEN (IF a = "enable" THEN "enabled" ELSE "disabled") ELSE state
      /\ applied' = IF unlocked THEN applied \cup {n} ELSE applied
      /\ IF StateConflict(a) = "none" THEN MoveTo(n, "read")
         ELSE Answer(n, IF unlocked THEN "pipeline_not_enabled" ELSE StateConflict(a))
      /\ UNCHANGED <<executable, busy, created, scheduler, tabVars, clickBounds>>

\* stateActionResponse, first half: the committed transition.
StateAction(n) ==
  LET a == req[n].action
  IN  /\ req[n].at = "web" /\ a \in {"enable", "disable"}
      /\ IF StateConflict(a) # "none" THEN Answer(n, StateConflict(a)) /\ UNCHANGED <<state, applied>>
         ELSE /\ state' = IF a = "enable" THEN "enabled" ELSE "disabled"
              /\ applied' = applied \cup {n}
              /\ MoveTo(n, "read")
      /\ UNCHANGED <<executable, busy, created, scheduler, tabVars, clickBounds>>

\* ... second half: the pipeline as it is by now.
ReadBack(n) ==
  /\ req[n].at = "read"
  /\ Answer(n, IF state = "gone" THEN "pipeline_not_found" ELSE state)
  /\ UNCHANGED <<dbVars, scheduler, tabVars, clickBounds>>

Duplicate(n) ==
  /\ req[n].at = "web" /\ req[n].action = "duplicate"
  /\ IF state = "gone" THEN Answer(n, "pipeline_not_found") /\ UNCHANGED applied
     ELSE Answer(n, state) /\ applied' = applied \cup {n}
  /\ UNCHANGED <<state, executable, busy, created, scheduler, tabVars, clickBounds>>

\* enqueuePipelineRun; fetch rejects when nobody listens.
EnqueuePipelineRun(n) ==
  /\ req[n].at = "web" /\ req[n].action = "run"
  /\ IF scheduler = "up" THEN MoveTo(n, "sched") ELSE Answer(n, "error")
  /\ UNCHANGED <<dbVars, scheduler, tabVars, clickBounds>>

-----------------------------------------------------------------------------
(* The scheduler. *)

RunConflict == IF state = "gone" THEN "pipeline_not_found"
               ELSE IF state # "enabled" THEN "pipeline_not_enabled" ELSE "none"

\* runPipelineForOwner before it delegates.
CheckRun(n) ==
  /\ req[n].at = "sched"
  /\ IF RunConflict = "none" THEN MoveTo(n, "create")
     ELSE req' = [req EXCEPT ![n].at = "sched_reply", ![n].code = RunConflict]
  /\ UNCHANGED <<dbVars, scheduler, tabVars, clickBounds>>

\* createPipelineRun checks again under the row lock.
CreateRun(n) ==
  /\ req[n].at = "create"
  /\ IF RunConflict = "none"
       THEN /\ created' = created \cup {n} /\ busy' = TRUE
            /\ req' = [req EXCEPT ![n].at = "sched_reply", ![n].code = "enabled"]
       ELSE /\ req' = [req EXCEPT ![n].at = "sched_reply", ![n].code = RunConflict]
            /\ UNCHANGED <<created, busy>>
  /\ UNCHANGED <<state, executable, applied, scheduler, tabVars, clickBounds>>

\* internal-run-route answers, enqueuePipelineRun and the web route map it.
SchedulerAnswers(n) ==
  /\ req[n].at = "sched_reply"
  /\ Answer(n, req[n].code)
  /\ UNCHANGED <<dbVars, scheduler, tabVars, clickBounds>>

\* Every open request of the dying process fails; the web route rethrows.
SchedulerDies ==
  /\ scheduler' = "down"
  /\ req' = [n \in Requests |-> IF req[n].at \in InScheduler
                                THEN [req[n] EXCEPT !.at = "reply", !.code = "error"] ELSE req[n]]
  /\ UNCHANGED <<dbVars, tabVars, clicks>>

\* A database error is no conflict: actionErrorResponse rethrows it, the async
\* handler of createServer rejects, and Node ends the process.
DatabaseError(n) ==
  /\ req[n].at \in {"sched", "create"} /\ faults < MaxFaults
  /\ faults' = faults + 1
  /\ SchedulerDies
  /\ UNCHANGED stops

\* The service is stopped or started by its operator.
Stop ==
  /\ scheduler = "up" /\ stops < MaxStops
  /\ stops' = stops + 1
  /\ SchedulerDies
  /\ UNCHANGED faults
Restart ==
  /\ scheduler = "down"
  /\ scheduler' = "up"
  /\ UNCHANGED <<dbVars, req, tabVars, clickBounds>>

-----------------------------------------------------------------------------
(* Other users of the pipeline. *)

RunsEnd ==
  /\ busy
  /\ busy' = FALSE
  /\ UNCHANGED <<state, executable, created, applied, scheduler, req, tabVars, clickBounds>>

\* deletePipeline refuses a pipeline with any run.
Delete ==
  /\ state # "gone" /\ ~busy /\ created = {}
  /\ state' = "gone"
  /\ UNCHANGED <<executable, busy, created, applied, scheduler, req, tabVars, clickBounds>>

-----------------------------------------------------------------------------
Serve(n) ==
  \/ StateAction(n) \/ ReadBack(n) \/ Duplicate(n) \/ EnqueuePipelineRun(n)
  \/ CheckRun(n) \/ CreateRun(n) \/ SchedulerAnswers(n) \/ Receive(n)

RequestNext ==
  \/ \E t \in Tabs : Disconnect(t) \/ Refetch(t) \/ \E a \in Actions : Click(t, a)
  \/ \E n \in Requests : Serve(n) \/ Unauthenticated(n) \/ DatabaseError(n)
  \/ Stop \/ Restart \/ RunsEnd \/ Delete

RequestSpec == RequestInit /\ [][RequestNext]_requestVars

-----------------------------------------------------------------------------
(* Properties. *)

Effects == created \cup applied

\* What the tab reports as done was committed by that very request, although
\* state, scheduler and connections change on the way.
SuccessIsReal ==
  \A t \in Tabs : shown[t].message = "success" => shown[t].req \in Effects

\* A reported conflict means that the request changed nothing; only a pipeline
\* deleted between transition and read-back is reported as not found after all.
RefusalIsReal ==
  \A t \in Tabs : shown[t].message \in Conflicts /\ shown[t].req \in Effects => state = "gone"

\* A tab's second request is never sent while the first may still be answered:
\* requests of one tab overlap only after a broken connection.
OneInFlight ==
  \A t \in Tabs : Cardinality({n \in Requests : req[n].tab = t /\ req[n].at \notin {"none", "settled"}})
                    <= 1 + faults

\* What the tabs show is what happened, one request at a time.
RequestInvariant == RequestTypeOK /\ SuccessIsReal /\ RefusalIsReal /\ OneInFlight

\* No run comes into being for a pipeline that is not enabled at that moment,
\* and no state changes under one, however old the page is.
EffectsAreLegal ==
  [][/\ created' # created => state = "enabled"
     /\ state' # state => ~busy]_requestVars

\* Every action ends: the buttons are released and feedback is shown.
ClickEnds == \A t \in Tabs : (waiting[t] # 0) ~> (waiting[t] = 0)

=============================================================================

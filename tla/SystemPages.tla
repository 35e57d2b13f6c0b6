---------------------------- MODULE SystemPages ----------------------------
(***************************************************************************)
(* The system page and the settings page of the web application.           *)
(*                                                                         *)
(* The system page asks /api/system/health, which probes the database, the *)
(* queue (two counts), the services and the storage concurrently and waits *)
(* for all of them.  What is probed changes while the probes are under     *)
(* way, and a service may not answer at all.  On the settings page         *)
(* administrators change the one retention setting at the same time; a     *)
(* submission whose connection breaks may still be stored much later.      *)
(***************************************************************************)
EXTENDS Naturals

CONSTANTS
  Services,     \* scheduler, worker, garbage-collector
  Pages,        \* open settings pages
  DayInputs,    \* numbers typed into the retention field; 0 is what it refuses
  DefaultDays,  \* DEFAULT_RUN_LOG_RETENTION_DAYS
  NoDays,       \* no row in settings, nothing loaded
  MaxLoads,     \* bound: loads of the system page
  MaxChanges,   \* bound: changes of what is probed
  MaxSaves      \* bound: submissions of the retention form

ASSUME PagesAssumption ==
  /\ {MaxLoads, MaxChanges, MaxSaves} \subseteq Nat
  /\ DayInputs \subseteq Nat /\ DefaultDays \in Nat \ {0} /\ NoDays \notin Nat
  /\ Services \cap {"database", "storage", "queued", "running"} = {}

VARIABLES
  condition,  \* of each component: "ok", "bad" or, for a service, "silent"
  loads,      \* loads started so far
  request,    \* of a load: where it is and what each probe found
  wasOk,      \* history: components that were ok at an instant of a load
  view,       \* loadState of the system page, and the load it comes from
  changes,
  storedDays, \* the row retention.run_log_days
  shown,      \* settings.runLogRetentionDays of a page
  field,      \* retentionDays of a page
  saving,     \* the submission of a page
  saveState,
  abandoned,  \* submissions no page waits for any more, not yet served
  lastWriter, \* history: the page that waited for the submission stored last
  saves

healthVars == <<condition, loads, request, wasOk, view, changes>>
settingsVars == <<storedDays, shown, field, saving, saveState, abandoned, lastWriter, saves>>
pageVars == <<healthVars, settingsVars>>

Parts == Services \cup {"database", "storage"}
Probes == Parts \cup {"queued", "running"}
Loads == 1..MaxLoads
Probed(p) == IF p \in {"queued", "running"} THEN "database" ELSE p
Findings == {"pending", "healthy", "unavailable"}
Unasked == [at |-> "none", found |-> [p \in Probes |-> "pending"]]
Asked == [Unasked EXCEPT !.at = "session"]
Received == [Unasked EXCEPT !.at = "received"]

Submitted == [at : {"sent", "stored"}, days : Nat]
NotSaving == [at |-> "no", days |-> 0]
Refused == [at |-> "refused", days |-> 0]
Abandoned == [page : Pages, number : Nat, days : Nat]

PagesTypeOK ==
  /\ condition \in [Parts -> {"ok", "bad", "silent"}]
  /\ loads \in Loads \cup {0}
  /\ request \in [Loads -> [at : {"none", "session", "probing", "failed", "answered", "received"},
                            found : [Probes -> Findings]]]
  /\ wasOk \in [Loads -> SUBSET Parts]
  /\ view \in [status : {"closed", "loading", "ready", "error"}, load : Loads \cup {0}, healthy : BOOLEAN]
  /\ changes \in Nat
  /\ storedDays \in (Nat \ {0}) \cup {NoDays}
  /\ shown \in [Pages -> Nat \cup {NoDays}] /\ field \in [Pages -> Nat]
  /\ saving \in [Pages -> Submitted \cup {NotSaving, Refused}]
  /\ saveState \in [Pages -> {"idle", "saved", "error"}]
  /\ abandoned \subseteq Abandoned /\ lastWriter \subseteq Pages /\ saves \in Nat

PagesInit ==
  /\ condition = [c \in Parts |-> "ok"]
  /\ loads = 0 /\ request = [l \in Loads |-> Unasked]
  /\ wasOk = [l \in Loads |-> {}]
  /\ view = [status |-> "closed", load |-> 0, healthy |-> FALSE]
  /\ changes = 0
  /\ storedDays = NoDays
  /\ shown = [p \in Pages |-> NoDays] /\ field = [p \in Pages |-> 0]
  /\ saving = [p \in Pages |-> NotSaving]
  /\ saveState = [p \in Pages |-> "idle"]
  /\ abandoned = {} /\ lastWriter = {} /\ saves = 0

-----------------------------------------------------------------------------
(* The system page. *)

Change(c, to) ==
  /\ changes < MaxChanges
  /\ to = "silent" => c \in Services
  /\ condition' = [condition EXCEPT ![c] = to]
  /\ wasOk' = [l \in Loads |-> IF to = "ok" /\ l <= loads THEN wasOk[l] \cup {c} ELSE wasOk[l]]
  /\ changes' = changes + 1
  /\ UNCHANGED <<loads, request, view, settingsVars>>

\* Opening the page loads; its refresh button is disabled while it is loading.
MayLoad == view.status # "loading" /\ loads < MaxLoads

LoadHealth ==
  /\ MayLoad
  /\ loads' = loads + 1
  /\ request' = [request EXCEPT ![loads + 1] = Asked]
  /\ wasOk' = [wasOk EXCEPT ![loads + 1] = {c \in Parts : condition[c] = "ok"}]
  /\ view' = [view EXCEPT !.status = "loading"]
  /\ UNCHANGED <<condition, changes, settingsVars>>

\* getApiSession: without a session the answer is 401.
CheckSession(l) ==
  /\ request[l].at = "session"
  /\ \E at \in {"probing", "failed"} : request' = [request EXCEPT ![l].at = at]
  /\ UNCHANGED <<condition, loads, wasOk, view, changes, settingsVars>>

\* Faulty: any answer will do.
IsHealthyAnswer(c) == condition[c] # "silent"

\* select 1, the counts, access, and isHealthyService.
IsHealthy(c) == condition[c] = "ok"

ProbeAnswers(l, p) ==
  /\ request[l].at = "probing" /\ request[l].found[p] = "pending"
  /\ condition[Probed(p)] # "silent"
  /\ request' = [request EXCEPT ![l].found[p] = IF IsHealthy(Probed(p)) THEN "healthy" ELSE "unavailable"]
  /\ UNCHANGED <<condition, loads, wasOk, view, changes, settingsVars>>

\* Faulty: fetch waits as long as it takes.
Unlimited(p) == FALSE

\* AbortSignal.timeout(2_000)
HasTimeout(p) == p \in Services

ProbeTimesOut(l, p) ==
  /\ request[l].at = "probing" /\ request[l].found[p] = "pending" /\ HasTimeout(p)
  /\ request' = [request EXCEPT ![l].found[p] = "unavailable"]
  /\ UNCHANGED <<condition, loads, wasOk, view, changes, settingsVars>>

\* Promise.all of getSystemHealth.
Respond(l) ==
  /\ request[l].at = "probing" /\ \A p \in Probes : request[l].found[p] # "pending"
  /\ request' = [request EXCEPT ![l].at = "answered"]
  /\ UNCHANGED <<condition, loads, wasOk, view, changes, settingsVars>>

\* The browser parses the answer, or it is an error status or lost.
Receive(l) ==
  /\ \/ /\ request[l].at = "answered"
        /\ view' = [status |-> "ready", load |-> l, healthy |-> \A p \in Probes : request[l].found[p] = "healthy"]
     \/ /\ request[l].at \in {"session", "probing", "answered", "failed"}
        /\ view' = [status |-> "error", load |-> l, healthy |-> FALSE]
  /\ request' = [request EXCEPT ![l] = Received]
  /\ UNCHANGED <<condition, loads, wasOk, changes, settingsVars>>

-----------------------------------------------------------------------------
(* The settings page. *)

\* resolveRunLogRetentionDays, for a value the table may hold.
ResolvedDays(value) == IF value = NoDays THEN DefaultDays ELSE value

\* getGlobalSettings; a page whose session has ended stays without a form.
LoadSettings(p) ==
  /\ shown[p] = NoDays
  /\ shown' = [shown EXCEPT ![p] = ResolvedDays(storedDays)]
  /\ field' = [field EXCEPT ![p] = ResolvedDays(storedDays)]
  /\ UNCHANGED <<healthVars, storedDays, saving, saveState, abandoned, lastWriter, saves>>

\* Typing is possible while a submission is under way, submitting again is not.
Type(p, days) ==
  /\ shown[p] # NoDays
  /\ field' = [field EXCEPT ![p] = days]
  /\ UNCHANGED <<healthVars, storedDays, shown, saving, saveState, abandoned, lastWriter, saves>>

SaveRetention(p) ==
  /\ shown[p] # NoDays /\ saving[p].at = "no" /\ saves < MaxSaves
  /\ saving' = [saving EXCEPT ![p] = [at |-> "sent", days |-> field[p]]]
  /\ saveState' = [saveState EXCEPT ![p] = "idle"]
  /\ saves' = saves + 1
  /\ UNCHANGED <<healthVars, storedDays, shown, field, abandoned, lastWriter>>

\* The upsert of setRunLogRetentionDays.
Upsert(days) == days

\* parseRunLogRetentionUpdate, the administrator check and the statement.
UpdateRetention(p) ==
  /\ saving[p].at = "sent"
  /\ \/ /\ saving[p].days >= 1
        /\ storedDays' = Upsert(saving[p].days)
        /\ lastWriter' = {p}
        /\ saving' = [saving EXCEPT ![p].at = "stored"]
     \/ /\ saving' = [saving EXCEPT ![p] = Refused]
        /\ UNCHANGED <<storedDays, lastWriter>>
  /\ UNCHANGED <<healthVars, shown, field, saveState, abandoned, saves>>

\* The answer arrives, or is lost.
SaveSettles(p) ==
  /\ saving[p].at \in {"stored", "refused"}
  /\ \/ /\ saving[p].at = "stored"
        /\ shown' = [shown EXCEPT ![p] = saving[p].days]
        /\ field' = [field EXCEPT ![p] = saving[p].days]
        /\ saveState' = [saveState EXCEPT ![p] = "saved"]
     \/ /\ saveState' = [saveState EXCEPT ![p] = "error"]
        /\ UNCHANGED <<shown, field>>
  /\ saving' = [saving EXCEPT ![p] = NotSaving]
  /\ UNCHANGED <<healthVars, storedDays, abandoned, lastWriter, saves>>

\* The connection breaks before the statement has run: the form is enabled
\* again, while the request may still be on its way.
SaveBreaksOff(p) ==
  /\ saving[p].at = "sent"
  /\ abandoned' = abandoned \cup {[page |-> p, number |-> saves, days |-> saving[p].days]}
  /\ saveState' = [saveState EXCEPT ![p] = "error"]
  /\ saving' = [saving EXCEPT ![p] = NotSaving]
  /\ UNCHANGED <<healthVars, storedDays, shown, field, lastWriter, saves>>

\* An abandoned submission reaches the server, or never does.
ServeAbandoned(s) ==
  /\ abandoned' = abandoned \ {s}
  /\ \/ s.days >= 1 /\ storedDays' = Upsert(s.days) /\ lastWriter' = {}
     \/ UNCHANGED <<storedDays, lastWriter>>
  /\ UNCHANGED <<healthVars, shown, field, saving, saveState, saves>>

-----------------------------------------------------------------------------
ServeHealth(l) == CheckSession(l) \/ (\E p \in Probes : ProbeAnswers(l, p) \/ ProbeTimesOut(l, p)) \/ Respond(l)
ServeSettings(p) == UpdateRetention(p) \/ SaveSettles(p) \/ SaveBreaksOff(p)

PagesNext ==
  \/ \E c \in Parts, to \in {"ok", "bad", "silent"} : Change(c, to)
  \/ LoadHealth
  \/ \E l \in Loads : ServeHealth(l) \/ Receive(l)
  \/ \E p \in Pages : LoadSettings(p) \/ (\E days \in DayInputs : Type(p, days)) \/ SaveRetention(p) \/ ServeSettings(p)
  \/ \E s \in abandoned : ServeAbandoned(s)

PagesSpec == PagesInit /\ [][PagesNext]_pageVars

-----------------------------------------------------------------------------
(* Properties *)

\* The result on the page is that of the last load: an older answer never
\* arrives after a newer one, because a load starts only when none is under way.
ViewIsCurrent == view.status # "loading" => view.load = loads

\* A system that is shown as healthy was healthy: each component was ok at an
\* instant of the load whose result is shown, though not all at the same one.
HealthyWasOk == view.status = "ready" /\ view.healthy => wasOk[view.load] = Parts

\* A page that says a retention period was saved shows the one in force unless a
\* later submission was stored after it: another page's, or an older one that a
\* page had given up waiting for.
LastSaveIsInForce == \A p \in lastWriter : saveState[p] = "saved" => shown[p] = storedDays

PagesInvariant == PagesTypeOK /\ ViewIsCurrent /\ HealthyWasOk /\ LastSaveIsInForce

\* A load ends, whatever services do not answer.
LoadingEnds == view.status = "loading" ~> view.status # "loading"
=============================================================================

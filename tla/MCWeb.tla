-------------------------------- MODULE MCWeb --------------------------------
(***************************************************************************)
(* The web application's own state on small instances: accounts, the       *)
(* system and settings pages, and the trigger and component panels of the  *)
(* pipeline editor.  They share no state, so which of them a behaviour is  *)
(* about is fixed in Init, and the others stay where they started.         *)
(*                                                                         *)
(* Accounts are looked at five times: two browsers and a reset that race   *)
(* for the setup of an account ("setup"), seeders of the same or different *)
(* identities ("identities"), a browser that also uses API tokens, and one *)
(* whose owner also uses Better Auth's endpoints, beside a reset           *)
(* ("owners") and beside a second seeder ("renamed").                      *)
(***************************************************************************)
EXTENDS AdminAccounts, SystemPages, TriggerEditor, ConfigurationForm

CONSTANTS
  Second,                                         \* the browser that only races for the setup
  FileSource, JsonSource, RestComponent, TextKey

VARIABLE subject

\* A component that reads files, one that reads JSON and files, and one that
\* does neither.
DeclaredKeys(c) == CASE c = FileSource -> {FileKey, TextKey}
                     [] c = JsonSource -> {FileKey, JsonKey}
                     [] c = RestComponent -> {JsonKey, TextKey}

Quarter == [minute |-> Other, hour |-> Star, day |-> Star, month |-> Star, weekday |-> Star]
Mondays == [minute |-> 30, hour |-> 6, day |-> Star, month |-> Star, weekday |-> 1]
Yearly == [minute |-> 0, hour |-> 0, day |-> 1, month |-> 1, weekday |-> Star]
SomeCrons == {EmptyCron, Quarter, Mondays, Yearly}

OfAccounts == subject \in {"setup", "identities", "tokens", "owners", "renamed"}

Init ==
  /\ subject \in {"setup", "identities", "tokens", "owners", "renamed", "health", "settings", "triggers", "form"}
  /\ AccountsInit /\ PagesInit /\ TriggersInit /\ FormInit
  /\ subject # "triggers" => stored = [manual |-> "none", schedules |-> <<>>]

Idle(b) == sessions'[b] = sessions[b] /\ signing'[b] = signing[b] /\ page'[b] = page[b]

IsDefault(s) == seeding'[s] \in [at : {"idle", "read", "hash", "done"}, email : {DefaultEmail}, username : {DefaultUsername}]

WithinAccounts ==
  /\ subject # "tokens" => UNCHANGED <<tokens, asking>>
  /\ subject \notin {"owners", "renamed"} => UNCHANGED <<owning, owned>>
  /\ subject \in {"tokens", "owners", "renamed"} => Idle(Second) /\ owning'[Second] = owning[Second]
  /\ subject \in {"identities", "renamed"} => UNCHANGED reset
  /\ subject = "renamed" => \A s \in Bootstraps : IsDefault(s)
  /\ subject \notin {"identities", "renamed"} => \A s \in Bootstraps : seeding'[s] = seeding[s]

\* Bound: one broken-off submission at a time is still on its way.
WithinSettings == \A s, t \in abandoned' : s = t

Next ==
  \/ OfAccounts /\ AccountsNext /\ WithinAccounts /\ UNCHANGED <<subject, pageVars, triggerVars, formVars>>
  \/ subject = "health" /\ PagesNext /\ UNCHANGED <<subject, accountVars, settingsVars, triggerVars, formVars>>
  \/ /\ subject = "settings" /\ PagesNext /\ WithinSettings
     /\ UNCHANGED <<subject, accountVars, healthVars, triggerVars, formVars>>
  \/ subject = "triggers" /\ TriggersNext /\ UNCHANGED <<subject, accountVars, pageVars, formVars>>
  \/ subject = "form" /\ FormNext /\ UNCHANGED <<subject, accountVars, pageVars, triggerVars>>

\* The server works through what it has received; PostgreSQL serves the waiters
\* for a row in turn and ends a deadlock; the reset script runs on; the database
\* and the file system answer or fail, timers fire, and what the server has
\* answered reaches the browser or is lost.  Nobody has to submit or to load.
Answered(l) == request[l].at \in {"answered", "failed"}
Fairness ==
  /\ \A b \in Browsers : /\ SF_accountVars(OfAccounts /\ SetupStep(b))
                         /\ WF_accountVars(OfAccounts /\ DeadlockDetected(b))
  /\ WF_accountVars(OfAccounts /\ ResetStep)
  /\ \A l \in Loads : /\ WF_pageVars(subject = "health" /\ ServeHealth(l))
                      /\ WF_pageVars(subject = "health" /\ Answered(l) /\ Receive(l))

Spec == Init /\ [][Next]_<<subject, accountVars, pageVars, triggerVars, formVars>> /\ Fairness
=============================================================================

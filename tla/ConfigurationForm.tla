-------------------------- MODULE ConfigurationForm -------------------------
(***************************************************************************)
(* Choosing and configuring one component (component-picker.tsx,           *)
(* component-configuration-form.tsx, component-source-file-field.tsx): the *)
(* catalog request behind the picker, the controls of the chosen           *)
(* component's fields, a JSON control that keeps text it cannot parse, and *)
(* a file control whose uploads are answered later.  The answer is applied *)
(* by the callback of the render that started the upload, so with that     *)
(* render's component and values.                                          *)
(*                                                                         *)
(* A configuration is a function on all keys; Unset is an absent key.      *)
(***************************************************************************)
EXTENDS Naturals

CONSTANTS
  Components,
  Keys, FileKey, JsonKey,
  Declared(_),   \* the keys of a component's non-secret fields
  Values,        \* what can be typed or an upload can return
  Unset, Garbage, None,
  UploadIds,
  MaxEdits       \* bound: edits, selections and retries

ASSUME FormAssumption ==
  /\ \A c \in Components : Declared(c) \subseteq Keys
  /\ {FileKey, JsonKey} \subseteq Keys /\ FileKey # JsonKey
  /\ {Unset, Garbage} \cap Values = {} /\ Unset # Garbage /\ None \notin Components
  /\ MaxEdits \in Nat

VARIABLES
  catalog,    \* the capability query: "pending", "error" or "ready"
  selected,   \* the slot's component, or None
  values,     \* its draft configuration
  raw,        \* text of the JSON control, as the value it stands for, or Garbage
  jsonError,
  mount,      \* which instance of the file control is on the page
  upload,     \* of an upload: where it is, and what its render closed over
  intended,   \* history: what the operator entered for the selected component
  disturbed,  \* history: the operator acted while an upload was under way
  edits

formVars == <<catalog, selected, values, raw, jsonError, mount, upload, intended, disturbed, edits>>

Entries == Values \cup {Unset}
Configurations == [Keys -> Entries]
Blank == [k \in Keys |-> Unset]
Fields(c) == IF c = None THEN {} ELSE Declared(c)
NoUpload == [at |-> "none", mount |-> 0, component |-> None, base |-> Blank]
Sending == {u \in UploadIds : upload[u].at = "sending"}

FormTypeOK ==
  /\ catalog \in {"pending", "error", "ready"} /\ selected \in Components \cup {None}
  /\ values \in Configurations /\ intended \in Configurations
  /\ raw \in Entries \cup {Garbage} /\ jsonError \in BOOLEAN /\ disturbed \in BOOLEAN
  /\ mount \in Nat /\ edits \in Nat
  /\ upload \in [UploadIds -> [at : {"none", "sending", "settled"}, mount : Nat,
                               component : Components \cup {None}, base : Configurations]]

FormInit ==
  /\ catalog = "pending" /\ selected = None
  /\ values = Blank /\ intended = Blank /\ raw = Unset /\ jsonError = FALSE
  /\ mount = 0 /\ upload = [u \in UploadIds |-> NoUpload]
  /\ disturbed = FALSE /\ edits = 0

-----------------------------------------------------------------------------
(* The catalog and the picker. *)

\* The request ends with the parsed catalog or one of the errors of api.ts.
CatalogSettles ==
  /\ catalog = "pending"
  /\ catalog' \in {"ready", "error"}
  /\ UNCHANGED <<selected, values, raw, jsonError, mount, upload, intended, disturbed, edits>>

Act == edits < MaxEdits /\ edits' = edits + 1 /\ disturbed' = (disturbed \/ Sending # {})

RetryCatalog ==
  /\ catalog = "error" /\ edits < MaxEdits /\ edits' = edits + 1
  /\ catalog' = "pending"
  /\ UNCHANGED <<selected, values, raw, jsonError, mount, upload, intended, disturbed>>

\* sanitizeNonSecretConfigurationValues
Sanitized(c, v) == [k \in Keys |-> IF k \in Fields(c) THEN v[k] ELSE Unset]

\* The effect of JsonConfigurationInput: its text follows the value it is given.
RawAfter(c, v) ==
  IF Sanitized(c, v)[JsonKey] # Sanitized(selected, values)[JsonKey] THEN Sanitized(c, v)[JsonKey] ELSE raw

\* Another component clears the configuration.  A control stays mounted when
\* both components declare its key.
Select(c) ==
  /\ catalog = "ready" /\ Act
  /\ selected' = c
  /\ IF c = selected THEN UNCHANGED <<values, intended, raw, jsonError, mount>>
     ELSE /\ values' = Blank /\ intended' = Blank
          /\ IF JsonKey \in Fields(c) \cap Fields(selected)
             THEN raw' = RawAfter(c, Blank) /\ UNCHANGED jsonError
             ELSE raw' = Unset /\ jsonError' = FALSE
          /\ mount' = IF FileKey \in Fields(c) \cap Fields(selected) THEN mount ELSE mount + 1
  /\ UNCHANGED <<catalog, upload>>

-----------------------------------------------------------------------------
(* The controls. *)

\* Faulty: only the key that is edited survives.
OnlyThisKey(c, base, k, v) == Sanitized(c, [Blank EXCEPT ![k] = v])

\* updateValue, of a render for component c with values base.
WithValue(c, base, k, v) == Sanitized(c, [Sanitized(c, base) EXCEPT ![k] = v])

SetValue(k, v) ==
  /\ k \in Fields(selected) \ {JsonKey} /\ Act
  /\ values' = WithValue(selected, values, k, v)
  /\ intended' = [intended EXCEPT ![k] = v]
  /\ raw' = RawAfter(selected, values')
  /\ UNCHANGED <<catalog, selected, jsonError, mount, upload>>

\* changeJson: text that does not parse stays in the control.
ChangeJson(text) ==
  /\ JsonKey \in Fields(selected) /\ Act
  /\ raw' = text /\ jsonError' = (text = Garbage)
  /\ IF text = Garbage THEN UNCHANGED <<values, intended>>
     ELSE /\ values' = WithValue(selected, values, JsonKey, text)
          /\ intended' = [intended EXCEPT ![JsonKey] = text]
  /\ UNCHANGED <<catalog, selected, mount, upload>>

Uploading == \E u \in Sending : upload[u].mount = mount

\* The upload button is disabled while this instance is uploading.
StartUpload(u) ==
  /\ FileKey \in Fields(selected) /\ ~Uploading /\ upload[u].at = "none"
  /\ upload' = [upload EXCEPT ![u] = [at |-> "sending", mount |-> mount, component |-> selected, base |-> values]]
  /\ disturbed' = (disturbed \/ Sending # {})
  /\ UNCHANGED <<catalog, selected, values, raw, jsonError, mount, intended, edits>>

UploadSucceeds(u, path) ==
  /\ upload[u].at = "sending"
  /\ values' = WithValue(upload[u].component, upload[u].base, FileKey, path)
  /\ intended' = IF FileKey \in Fields(selected) THEN [intended EXCEPT ![FileKey] = path] ELSE intended
  /\ raw' = RawAfter(selected, values')
  /\ upload' = [upload EXCEPT ![u] = [NoUpload EXCEPT !.at = "settled"]]
  /\ UNCHANGED <<catalog, selected, jsonError, mount, disturbed, edits>>

\* Any status or answer that createSourceUploadApiClient turns into an error.
UploadFails(u) ==
  /\ upload[u].at = "sending"
  /\ upload' = [upload EXCEPT ![u] = [NoUpload EXCEPT !.at = "settled"]]
  /\ UNCHANGED <<catalog, selected, values, raw, jsonError, mount, intended, disturbed, edits>>

UploadSettles(u) == UploadFails(u) \/ \E path \in Values : UploadSucceeds(u, path)

FormNext ==
  \/ CatalogSettles \/ RetryCatalog
  \/ \E c \in Components : Select(c)
  \/ \E k \in Keys, v \in Entries : SetValue(k, v)
  \/ \E text \in Entries \cup {Garbage} : ChangeJson(text)
  \/ \E u \in UploadIds : StartUpload(u) \/ UploadSettles(u)

FormSpec == FormInit /\ [][FormNext]_formVars

-----------------------------------------------------------------------------
(* Properties *)

\* A JSON control that reports no error shows the value that would be saved,
\* also when a late upload has put older values back.
JsonShowsItsValue ==
  JsonKey \in Fields(selected) /\ ~jsonError => raw = values[JsonKey]

\* One instance of the file control has at most one upload under way.
OneUploadPerControl == \A u, v \in Sending : upload[u].mount = upload[v].mount => u = v

\* As long as nobody edits while an upload is under way, nothing that was
\* entered is lost, whatever uploads fail: "A failed upload leaves any existing
\* path untouched" (component-source-file-field.tsx).
UndisturbedFormKeepsEntries == ~disturbed => values = intended

FormInvariant == FormTypeOK /\ JsonShowsItsValue /\ OneUploadPerControl /\ UndisturbedFormKeepsEntries
=============================================================================

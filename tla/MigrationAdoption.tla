------------------------- MODULE MigrationAdoption -------------------------
(***************************************************************************)
(* migrate:apply: packages/database/scripts/adopt-migration-history.mjs,   *)
(* which reconciles a schema that has no or an incomplete Drizzle journal, *)
(* followed by drizzle-kit migrate.  Nothing is locked: every statement    *)
(* and every applied migration is a transaction of its own, and several    *)
(* invocations may run at once, fail, crash and be repeated.               *)
(*                                                                         *)
(* A migration creates one catalog object of every kind; an object that    *)
(* exists makes it fail as a whole.                                        *)
(***************************************************************************)
EXTENDS Naturals

CONSTANTS
  Runners,
  N,           \* migrations 0..N-1 of the journal file
  K,           \* the first K have a fingerprint
  Kinds,       \* catalog queries: tables, enums, indexes, constraints, columns
  MaxCrashes,  \* bound: invocations that die
  MaxRetries   \* bound: repetitions of failed or dead invocations

ASSUME MigrationAssumption ==
  /\ N \in Nat /\ K \in 0..N /\ Kinds # {}
  /\ MaxCrashes \in Nat /\ MaxRetries \in Nat

VARIABLES
  catalog,  \* objects of the public schema
  table,    \* drizzle.__drizzle_migrations exists
  journal,  \* rows of the journal per migration
  pc,
  recorded, \* recordedHashes of an invocation
  read,     \* catalog queries answered so far
  seen,     \* their answers
  adopt,    \* adoptedMigrations still to record
  missing,  \* missingHistoricalMigrations still to apply
  last,     \* drizzle-kit: how many migrations it takes as applied
  crashes, retries

migrationVars == <<catalog, table, journal, pc, recorded, read, seen, adopt, missing, last, crashes, retries>>
dbVars == <<catalog, table, journal>>
bounds == <<crashes, retries>>

Migrations == 0..(N - 1)
Known == 0..(K - 1)
Objects(m) == {m} \X Kinds
Present == {m \in Migrations : Objects(m) \subseteq catalog}
Partial == {m \in Known : Objects(m) \cap catalog # {} /\ m \notin Present}
Recorded == {m \in Migrations : journal[m] > 0}

MigrationTypeOK ==
  /\ catalog \subseteq Migrations \X Kinds
  /\ table \in BOOLEAN /\ (~table => Recorded = {})
  /\ journal \in [Migrations -> Nat]
  /\ pc \in [Runners -> {"journal", "catalog", "plan", "table", "record", "apply",
                         "drizzle", "drizzle_apply", "done", "failed", "crashed"}]
  /\ recorded \in [Runners -> SUBSET Migrations]
  /\ read \in [Runners -> SUBSET Kinds]
  /\ seen \in [Runners -> SUBSET (Migrations \X Kinds)]
  /\ adopt \in [Runners -> SUBSET Known] /\ missing \in [Runners -> SUBSET Known]
  /\ last \in [Runners -> 0..N]
  /\ crashes \in 0..MaxCrashes /\ retries \in 0..MaxRetries

\* A development database without history, whatever it holds of the known
\* migrations, or one that an earlier release has migrated.
MigrationInit ==
  /\ \/ /\ catalog \in SUBSET (Known \X Kinds)
        /\ table = FALSE /\ journal = [m \in Migrations |-> 0]
     \/ \E n \in 1..N :
          /\ catalog = (0..(n - 1)) \X Kinds
          /\ table = TRUE /\ journal = [m \in Migrations |-> IF m < n THEN 1 ELSE 0]
  /\ pc = [r \in Runners |-> "journal"]
  /\ recorded = [r \in Runners |-> {}]
  /\ read = [r \in Runners |-> {}] /\ seen = [r \in Runners |-> {}]
  /\ adopt = [r \in Runners |-> {}] /\ missing = [r \in Runners |-> {}]
  /\ last = [r \in Runners |-> 0]
  /\ crashes = 0 /\ retries = 0

Goto(r, l) == pc' = [pc EXCEPT ![r] = l]
First(m, S) == m \in S /\ \A n \in S : m <= n

-----------------------------------------------------------------------------
(* adoptMigrationHistory *)

ReadJournal(r) ==
  /\ pc[r] = "journal"
  /\ recorded' = [recorded EXCEPT ![r] = Recorded]
  /\ Goto(r, "catalog")
  /\ UNCHANGED <<dbVars, read, seen, adopt, missing, last, bounds>>

\* readCatalog: one query per kind, each of them sees the database of its time.
ReadCatalog(r) ==
  /\ pc[r] = "catalog"
  /\ \E k \in Kinds \ read[r] :
       /\ read' = [read EXCEPT ![r] = @ \cup {k}]
       /\ seen' = [seen EXCEPT ![r] = @ \cup {o \in catalog : o[2] = k}]
       /\ Goto(r, IF read'[r] = Kinds THEN "plan" ELSE "catalog")
  /\ UNCHANGED <<dbVars, recorded, adopt, missing, last, bounds>>

\* Faulty: what exists in part counts as applied.
MigrationStateLenient(objects, m) == IF objects \cap Objects(m) = {} THEN "absent" ELSE "present"

\* Faulty: what exists in part is applied again.
MigrationStateStrict(objects, m) == IF Objects(m) \subseteq objects THEN "present" ELSE "absent"

MigrationState(objects, m) ==
  IF objects \cap Objects(m) = {} THEN "absent"
  ELSE IF Objects(m) \subseteq objects THEN "present" ELSE "partial"

\* Faulty: every gap is left to drizzle-kit.
MissingNone(absent, found) == {}

\* missingHistoricalMigrations: absent ones below the highest recorded index.
MissingHistorical(absent, found) == {m \in absent : \E n \in found : m < n}

Plan(r) ==
  LET state(m) == MigrationState(seen[r], m)
      present == {m \in Known : state(m) = "present"}
      absent == {m \in Known : state(m) = "absent"}
      found == present \cup (recorded[r] \cap Known)
      toAdopt == present \ recorded[r]
      toApply == MissingHistorical(absent, found)
  IN  /\ pc[r] = "plan"
      /\ IF \E m \in Known : state(m) = "partial" \/ (m \in recorded[r] /\ state(m) # "present")
           THEN Goto(r, "failed") /\ UNCHANGED <<adopt, missing>>
           ELSE /\ Goto(r, IF toAdopt \cup toApply = {} THEN "drizzle" ELSE "table")
                /\ adopt' = [adopt EXCEPT ![r] = toAdopt]
                /\ missing' = [missing EXCEPT ![r] = toApply]
      /\ UNCHANGED <<dbVars, recorded, read, seen, last, bounds>>

EnsureMigrationTable(r) ==
  /\ pc[r] = "table"
  /\ table' = TRUE
  /\ Goto(r, "record")
  /\ UNCHANGED <<catalog, journal, recorded, read, seen, adopt, missing, last, bounds>>

\* recordMigration: the journal has no key that "on conflict" could meet.
RecordMigration(r) ==
  /\ pc[r] = "record"
  /\ \/ \E m \in adopt[r] :
          /\ First(m, adopt[r])
          /\ journal' = [journal EXCEPT ![m] = @ + 1]
          /\ adopt' = [adopt EXCEPT ![r] = @ \ {m}]
          /\ UNCHANGED pc
     \/ adopt[r] = {} /\ Goto(r, "apply") /\ UNCHANGED <<journal, adopt>>
  /\ UNCHANGED <<catalog, table, recorded, read, seen, missing, last, bounds>>

\* applyHistoricalMigration: all statements and the record, or nothing.
ApplyHistoricalMigration(r) ==
  /\ pc[r] = "apply"
  /\ \/ \E m \in missing[r] :
          /\ First(m, missing[r])
          /\ IF Objects(m) \cap catalog # {}
               THEN Goto(r, "failed") /\ UNCHANGED <<catalog, journal, missing>>
               ELSE /\ catalog' = catalog \cup Objects(m)
                    /\ journal' = [journal EXCEPT ![m] = @ + 1]
                    /\ missing' = [missing EXCEPT ![r] = @ \ {m}]
                    /\ UNCHANGED pc
     \/ missing[r] = {} /\ Goto(r, "drizzle") /\ UNCHANGED <<catalog, journal, missing>>
  /\ UNCHANGED <<table, recorded, read, seen, adopt, last, bounds>>

-----------------------------------------------------------------------------
(* drizzle-kit migrate: everything newer than the newest journal row, in one *)
(* transaction. *)

DrizzleRead(r) ==
  /\ pc[r] = "drizzle"
  /\ table' = TRUE
  /\ \E l \in 0..N :
       /\ \A m \in Recorded : m < l
       /\ l > 0 => l - 1 \in Recorded
       /\ last' = [last EXCEPT ![r] = l]
  /\ Goto(r, "drizzle_apply")
  /\ UNCHANGED <<catalog, journal, recorded, read, seen, adopt, missing, bounds>>

DrizzleApply(r) ==
  LET pending == last[r]..(N - 1)
  IN  /\ pc[r] = "drizzle_apply"
      /\ IF \E m \in pending : Objects(m) \cap catalog # {}
           THEN Goto(r, "failed") /\ UNCHANGED <<catalog, journal>>
           ELSE /\ catalog' = catalog \cup (pending \X Kinds)
                /\ journal' = [m \in Migrations |-> journal[m] + IF m \in pending THEN 1 ELSE 0]
                /\ Goto(r, "done")
      /\ UNCHANGED <<table, recorded, read, seen, adopt, missing, last, bounds>>

-----------------------------------------------------------------------------
Crash(r) ==
  /\ pc[r] \notin {"done", "failed", "crashed"} /\ crashes < MaxCrashes
  /\ crashes' = crashes + 1
  /\ Goto(r, "crashed")
  /\ UNCHANGED <<dbVars, recorded, read, seen, adopt, missing, last, retries>>

\* The operator repeats the command.
Repeat(r) ==
  /\ pc[r] \in {"failed", "crashed"} /\ retries < MaxRetries
  /\ retries' = retries + 1
  /\ Goto(r, "journal")
  /\ read' = [read EXCEPT ![r] = {}] /\ seen' = [seen EXCEPT ![r] = {}]
  /\ UNCHANGED <<dbVars, recorded, adopt, missing, last, crashes>>

Apply(r) ==
  \/ ReadJournal(r) \/ ReadCatalog(r) \/ Plan(r) \/ EnsureMigrationTable(r)
  \/ RecordMigration(r) \/ ApplyHistoricalMigration(r) \/ DrizzleRead(r) \/ DrizzleApply(r)

MigrationNext == \E r \in Runners : Apply(r) \/ Crash(r) \/ Repeat(r)

MigrationSpec == MigrationInit /\ [][MigrationNext]_migrationVars

-----------------------------------------------------------------------------
(* Properties. *)

\* A migration the journal claims is there in full, after any crash and with
\* any number of invocations at once (adoptMigrationHistory).
RecordedIsPresent == Recorded \subseteq Present

\* An invocation that reports success leaves the whole schema and its history:
\* no historical gap hides below the newest row, where drizzle-kit never looks.
SuccessMeansMigrated ==
  \A r \in Runners : pc[r] = "done" => Present = Migrations /\ Recorded = Migrations

\* Journal, catalog and exit code agree after any crash and interleaving.
MigrationInvariant == MigrationTypeOK /\ RecordedIsPresent /\ SuccessMeansMigrated

\* "Incomplete fingerprints stop migration rather than altering unknown
\* database state."
PartialIsUntouched == [][Partial # {} => UNCHANGED <<catalog, journal>>]_migrationVars

\* A recognised schema is brought up to date although invocations run at once,
\* crash half way and are repeated.
RecognisedIsMigrated == (Partial = {}) ~> (Recorded = Migrations)

=============================================================================

--------------------------- MODULE AdminAccounts ---------------------------
(***************************************************************************)
(* Accounts of the control plane (apps/web/src/auth): how the first        *)
(* administrator is seeded, how its well-known credentials are replaced on *)
(* the /welcome page, how a password is reset from the command line, and   *)
(* the API tokens a signed-in account owns.  Requests of several browsers, *)
(* the sign-in page's seeding and two command-line scripts interleave at   *)
(* every await; a transaction is split where it waits for a row lock.      *)
(*                                                                         *)
(* Better Auth's handler is mounted whole, so a signed-in owner may also   *)
(* call its change-password and update-user endpoints, which no page of    *)
(* the application uses.                                                   *)
(*                                                                         *)
(* An account is identified by the seeder that inserted it.  Passwords are *)
(* abstracted to where they come from.                                     *)
(***************************************************************************)
EXTENDS Naturals

CONSTANTS
  LoginPages,    \* requests for the sign-in page, each of which seeds
  Bootstraps,    \* invocations of bootstrap-admin.ts
  Browsers,
  Emails,        \* well-formed addresses, in the normal form of trim and toLowerCase
  Usernames,     \* of at least three characters
  DefaultEmail, DefaultUsername,
  Missing,       \* an environment variable that is not set, or an absent row
  Malformed,     \* an address or a username that validation refuses
  TokenIds,
  MaxResets      \* bound: runs of reset-admin-password.ts

Seeders == LoginPages \cup Bootstraps
Passwords == {"published", "temporary", "chosen"}
Accounts == [email : Emails, username : Usernames, password : Passwords, pending : BOOLEAN]

ASSUME AccountsAssumption ==
  /\ LoginPages \cap Bootstraps = {}
  /\ DefaultEmail \in Emails /\ DefaultUsername \in Usernames
  /\ {Missing, Malformed} \cap (Emails \cup Usernames \cup Seeders \cup TokenIds) = {}
  /\ Missing \notin Accounts
  /\ Missing # Malformed
  /\ MaxResets \in Nat

VARIABLES
  users,       \* users joined with their credential in accounts, or Missing
  seeding,     \* a seeder: where it is, and its identity
  sessions,    \* the account a browser's session row names, or Missing
  signing,     \* the account whose password a sign-in has verified, or Missing
  page,        \* the page a browser shows
  setup,       \* a browser's completeAdminSetup request
  reset,       \* the reset-admin-password.ts process
  tokens,      \* api_tokens
  asking,      \* a browser's request to /api/tokens, past its session check
  resets,      \* history: committed resets of an account
  setups,      \* history: committed setups of an account
  owning,      \* a browser's request to Better Auth's endpoints, past its session check
  owned        \* history: the accounts whose owner has changed a field there, with the field

accountVars ==
  <<users, seeding, sessions, signing, page, setup, reset, tokens, asking, resets, setups, owning, owned>>

Inputs == Passwords \cup {"weak"}   \* what may be typed into the setup form
Exists(u) == users[u] # Missing
Pending(u) == Exists(u) /\ users[u].pending
Present == {u \in Seeders : Exists(u)}

NoSetup == [at |-> "idle", user |-> Missing, email |-> Missing, password |-> "weak"]
NoToken == [owner |-> Missing, revoked |-> FALSE]
NoReset == [at |-> "idle", user |-> Missing]

AccountsTypeOK ==
  /\ users \in [Seeders -> Accounts \cup {Missing}]
  /\ seeding \in [Seeders -> [at : {"idle", "read", "hash", "done", "refused"},
                              email : Emails, username : Usernames]]
  /\ sessions \in [Browsers -> Seeders \cup {Missing}]
  /\ signing \in [Browsers -> Seeders \cup {Missing}]
  /\ page \in [Browsers -> {"login", "welcome", "app", "error"}]
  /\ setup \in [Browsers -> [at : {"idle", "sent", "hash", "locked"}, user : Seeders \cup {Missing},
                             email : Emails \cup {Missing, Malformed}, password : Inputs]]
  /\ reset \in [at : {"idle", "hash", "credential"}, user : Seeders \cup {Missing}]
  /\ tokens \in [TokenIds -> [owner : Seeders \cup {Missing}, revoked : BOOLEAN]]
  /\ asking \in [Browsers -> Seeders \cup {Missing}]
  /\ resets \in [Seeders -> Nat] /\ setups \in [Seeders -> Nat]
  /\ owning \in [Browsers -> Seeders \cup {Missing}]
  /\ owned \subseteq Seeders \X {"password", "username"}

AccountsInit ==
  /\ users = [s \in Seeders |-> Missing]
  /\ seeding = [s \in Seeders |-> [at |-> "idle", email |-> DefaultEmail, username |-> DefaultUsername]]
  /\ sessions = [b \in Browsers |-> Missing] /\ signing = [b \in Browsers |-> Missing]
  /\ page = [b \in Browsers |-> "login"]
  /\ setup = [b \in Browsers |-> NoSetup]
  /\ reset = NoReset
  /\ tokens = [t \in TokenIds |-> NoToken]
  /\ asking = [b \in Browsers |-> Missing]
  /\ resets = [s \in Seeders |-> 0] /\ setups = [s \in Seeders |-> 0]
  /\ owning = [b \in Browsers |-> Missing] /\ owned = {}

-----------------------------------------------------------------------------
(* Seeding the first administrator. *)

OrDefault(value, default) == IF value = Missing THEN default ELSE value

\* parseAdminIdentity: the sign-in page seeds without one.
SeedStart(s) ==
  /\ seeding[s].at = "idle"
  /\ \E e \in Emails \cup {Missing, Malformed}, n \in Usernames \cup {Missing, Malformed} :
       /\ s \in LoginPages => e = Missing /\ n = Missing
       /\ seeding' = [seeding EXCEPT ![s] =
            IF Malformed \in {e, n} THEN [@ EXCEPT !.at = "refused"]
            ELSE [at |-> "read", email |-> OrDefault(e, DefaultEmail), username |-> OrDefault(n, DefaultUsername)]]
  /\ UNCHANGED <<users, sessions, signing, page, setup, reset, tokens, asking, resets, setups, owning, owned>>

\* ensureFirstAdmin reads whether there is any account at all ...
SeedRead(s) ==
  /\ seeding[s].at = "read"
  /\ seeding' = [seeding EXCEPT ![s].at = IF Present = {} THEN "hash" ELSE "done"]
  /\ UNCHANGED <<users, sessions, signing, page, setup, reset, tokens, asking, resets, setups, owning, owned>>

\* users_email_unique and users_username_unique, for a row of u.
Unique(u, email, username) ==
  \A v \in Present \ {u} : users[v].email # email /\ users[v].username # username

\* ... and inserts after hashing the password, by when that may have changed:
\* a unique violation means somebody else has seeded.
SeedInsert(s) ==
  /\ seeding[s].at = "hash"
  /\ users' = IF Unique(s, seeding[s].email, seeding[s].username)
              THEN [users EXCEPT ![s] = [email |-> seeding[s].email, username |-> seeding[s].username,
                                         password |-> "published", pending |-> TRUE]]
              ELSE users
  /\ seeding' = [seeding EXCEPT ![s].at = "done"]
  /\ UNCHANGED <<sessions, signing, page, setup, reset, tokens, asking, resets, setups, owning, owned>>

-----------------------------------------------------------------------------
(* Sessions and pages. *)

\* Better Auth checks the credentials, then inserts the session; the form
\* navigates to the page that was asked for.
SignIn(b, u) ==
  /\ page[b] = "login" /\ signing[b] = Missing /\ Exists(u)
  /\ signing' = [signing EXCEPT ![b] = u]
  /\ UNCHANGED <<users, seeding, sessions, page, setup, reset, tokens, asking, resets, setups, owning, owned>>

\* requireSession and requireInitialSetup: where a visit of a guarded page ends.
Landing(u) == IF u = Missing THEN "login" ELSE IF Pending(u) THEN "welcome" ELSE "app"

SignedIn(b) ==
  /\ signing[b] # Missing
  /\ sessions' = [sessions EXCEPT ![b] = signing[b]]
  /\ page' = [page EXCEPT ![b] = Landing(signing[b])]
  /\ signing' = [signing EXCEPT ![b] = Missing]
  /\ UNCHANGED <<users, seeding, setup, reset, tokens, asking, resets, setups, owning, owned>>

\* Opening a page; the sign-in page is not guarded.
Visit(b) ==
  /\ signing[b] = Missing /\ setup[b].at = "idle"
  /\ \E landing \in {"login", Landing(sessions[b])} : page' = [page EXCEPT ![b] = landing]
  /\ UNCHANGED <<users, seeding, sessions, signing, setup, reset, tokens, asking, resets, setups, owning, owned>>

\* A session expires.
SessionEnds(b) ==
  /\ sessions[b] # Missing
  /\ sessions' = [sessions EXCEPT ![b] = Missing]
  /\ UNCHANGED <<users, seeding, signing, page, setup, reset, tokens, asking, resets, setups, owning, owned>>

-----------------------------------------------------------------------------
(* Replacing the first credentials. *)

\* Welcome.submit, when password and confirmation agree; the button is
\* disabled while a submission is under way.
Submit(b, e, p) ==
  /\ page[b] = "welcome" /\ setup[b].at = "idle"
  /\ setup' = [setup EXCEPT ![b] = [at |-> "sent", user |-> Missing, email |-> e, password |-> p]]
  /\ UNCHANGED <<users, seeding, sessions, signing, page, reset, tokens, asking, resets, setups, owning, owned>>

SetupAnswered(b, where) ==
  /\ setup' = [setup EXCEPT ![b] = NoSetup]
  /\ page' = [page EXCEPT ![b] = where]

AcceptableCredentials(e, p) == e # Malformed /\ p \notin {"published", "weak"}

\* completeAdminSetup resolves the session, and the values are validated.
SetupCheck(b) ==
  /\ setup[b].at = "sent"
  /\ IF sessions[b] # Missing /\ Pending(sessions[b]) /\ AcceptableCredentials(setup[b].email, setup[b].password)
     THEN /\ setup' = [setup EXCEPT ![b].at = "hash", ![b].user = sessions[b]]
          /\ UNCHANGED page
     ELSE SetupAnswered(b, "welcome")
  /\ UNCHANGED <<users, seeding, sessions, signing, reset, tokens, asking, resets, setups, owning, owned>>

\* Faulty: no FOR UPDATE.
LocksNothing(b, u) == FALSE

Locks(b, u) == setup[b].at = "locked" /\ setup[b].user = u

\* Faulty: an established account is changed as well.
SetupLockAny(b) ==
  /\ setup[b].at = "hash"
  /\ \A c \in Browsers : ~Locks(c, setup[b].user)
  /\ setup' = [setup EXCEPT ![b].at = "locked"]
  /\ UNCHANGED <<users, seeding, sessions, signing, page, reset, tokens, asking, resets, setups, owning, owned>>

\* Faulty: nothing answers when the account is no longer pending.
SetupLockPending(b) == setup[b].at = "hash" /\ Pending(setup[b].user) /\ SetupLockAny(b)

\* SELECT ... FOR UPDATE of the pending row, once nobody else holds it, and the
\* look for another account with the address.
SetupLock(b) ==
  LET u == setup[b].user IN
  /\ setup[b].at = "hash"
  /\ \A c \in Browsers : ~Locks(c, u)
  /\ IF Pending(u) /\ \A v \in Present \ {u} : users[v].email # setup[b].email
     THEN /\ setup' = [setup EXCEPT ![b].at = "locked"]
          /\ UNCHANGED page
     ELSE SetupAnswered(b, "welcome")
  /\ UNCHANGED <<users, seeding, sessions, signing, reset, tokens, asking, resets, setups, owning, owned>>

\* The writes and the commit, once the reset does not hold the row of accounts.
\* An address taken meanwhile is a unique violation, which no handler expects.
SetupWrite(b) ==
  LET u == setup[b].user IN
  /\ setup[b].at = "locked"
  /\ ~(reset.at = "credential" /\ reset.user = u)
  /\ IF Unique(u, setup[b].email, users[u].username)
     THEN /\ users' = [users EXCEPT ![u].email = setup[b].email, ![u].password = setup[b].password,
                                    ![u].pending = FALSE]
          /\ setups' = [setups EXCEPT ![u] = @ + 1]
          /\ SetupAnswered(b, IF sessions[b] = Missing THEN "login" ELSE "app")
     ELSE SetupAnswered(b, "error") /\ UNCHANGED <<users, setups>>
  /\ UNCHANGED <<seeding, sessions, signing, reset, tokens, asking, resets, owning, owned>>

-----------------------------------------------------------------------------
(* reset-admin-password.ts. *)

\* Finds the administrator by address.
ResetFind(u) ==
  /\ reset.at = "idle" /\ Exists(u) /\ resets[u] < MaxResets
  /\ reset' = [at |-> "hash", user |-> u]
  /\ UNCHANGED <<users, seeding, sessions, signing, page, setup, tokens, asking, resets, setups, owning, owned>>

\* Writes accounts, whose row it locks, before users.
ResetCredential ==
  /\ reset.at = "hash"
  /\ reset' = [reset EXCEPT !.at = "credential"]
  /\ UNCHANGED <<users, seeding, sessions, signing, page, setup, tokens, asking, resets, setups, owning, owned>>

\* The rest of the transaction: the flag, the sessions, the commit.
ResetCommit ==
  LET u == reset.user IN
  /\ reset.at = "credential"
  /\ \A b \in Browsers : ~Locks(b, u)
  /\ users' = [users EXCEPT ![u].password = "temporary", ![u].pending = TRUE]
  /\ sessions' = [b \in Browsers |-> IF sessions[b] = u THEN Missing ELSE sessions[b]]
  /\ resets' = [resets EXCEPT ![u] = @ + 1]
  /\ reset' = NoReset
  /\ UNCHANGED <<seeding, signing, page, setup, tokens, asking, setups, owning, owned>>

\* PostgreSQL aborts one of two transactions that wait for each other: setup
\* locks users before accounts, reset accounts before users.
DeadlockDetected(b) ==
  /\ reset.at = "credential" /\ Locks(b, reset.user)
  /\ \/ SetupAnswered(b, "error") /\ UNCHANGED reset
     \/ reset' = NoReset /\ UNCHANGED <<setup, page>>
  /\ UNCHANGED <<users, seeding, sessions, signing, tokens, asking, resets, setups, owning, owned>>

-----------------------------------------------------------------------------
(* API tokens. *)

\* getApiSession: an account with first-run credentials has no API session.
ApiSession(b) == IF sessions[b] # Missing /\ ~Pending(sessions[b]) THEN sessions[b] ELSE Missing

AskTokens(b) ==
  /\ asking[b] = Missing /\ ApiSession(b) # Missing
  /\ asking' = [asking EXCEPT ![b] = ApiSession(b)]
  /\ UNCHANGED <<users, seeding, sessions, signing, page, setup, reset, tokens, resets, setups, owning, owned>>

\* GET, or a POST whose name is refused, changes nothing.
CreateToken(b, t) ==
  /\ asking[b] # Missing
  /\ \/ /\ tokens[t].owner = Missing
        /\ tokens' = [tokens EXCEPT ![t].owner = asking[b]]
     \/ UNCHANGED tokens
  /\ asking' = [asking EXCEPT ![b] = Missing]
  /\ UNCHANGED <<users, seeding, sessions, signing, page, setup, reset, resets, setups, owning, owned>>

RevokeToken(b, t) ==
  /\ asking[b] # Missing
  /\ tokens' = [tokens EXCEPT ![t].revoked = @ \/ tokens[t].owner = asking[b]]
  /\ asking' = [asking EXCEPT ![b] = Missing]
  /\ UNCHANGED <<users, seeding, sessions, signing, page, setup, reset, resets, setups, owning, owned>>

\* The account a bearer credential stands for.
authenticateApiToken(t) == IF tokens[t].revoked THEN Missing ELSE tokens[t].owner

-----------------------------------------------------------------------------
(* The endpoints of Better Auth that write an account. *)

\* Any session will do, also one of an account that is pending.
AskBetterAuth(b) ==
  /\ owning[b] = Missing /\ sessions[b] # Missing
  /\ owning' = [owning EXCEPT ![b] = sessions[b]]
  /\ UNCHANGED <<users, seeding, sessions, signing, page, setup, reset, tokens, asking, resets, setups, owned>>

\* /change-password, after it has verified the current password: one UPDATE of
\* accounts.  What setup demands of a password is not asked here.
ChangePassword(b, p) ==
  LET u == owning[b] IN
  /\ u # Missing /\ ~(reset.at = "credential" /\ reset.user = u)
  /\ users' = [users EXCEPT ![u].password = p]
  /\ owned' = owned \cup {<<u, "password">>}
  /\ owning' = [owning EXCEPT ![b] = Missing]
  /\ UNCHANGED <<seeding, sessions, signing, page, setup, reset, tokens, asking, resets, setups>>

\* /update-user: name is the column username.
UpdateUser(b, n) ==
  LET u == owning[b] IN
  /\ u # Missing /\ \A c \in Browsers : ~Locks(c, u)
  /\ Unique(u, users[u].email, n)
  /\ users' = [users EXCEPT ![u].username = n]
  /\ owned' = owned \cup {<<u, "username">>}
  /\ owning' = [owning EXCEPT ![b] = Missing]
  /\ UNCHANGED <<seeding, sessions, signing, page, setup, reset, tokens, asking, resets, setups>>

\* A wrong password, one that is too short, a name that is taken.
RefusedByBetterAuth(b) ==
  /\ owning[b] # Missing
  /\ owning' = [owning EXCEPT ![b] = Missing]
  /\ UNCHANGED <<users, seeding, sessions, signing, page, setup, reset, tokens, asking, resets, setups, owned>>

-----------------------------------------------------------------------------
SetupStep(b) == SetupCheck(b) \/ SetupLock(b) \/ SetupWrite(b)
ResetStep == ResetCredential \/ ResetCommit
OwnerStep(b) ==
  \/ AskBetterAuth(b) \/ RefusedByBetterAuth(b)
  \/ \E p \in {"published", "chosen"} : ChangePassword(b, p)
  \/ \E n \in Usernames : UpdateUser(b, n)

AccountsNext ==
  \/ \E s \in Seeders : SeedStart(s) \/ SeedRead(s) \/ SeedInsert(s)
  \/ \E b \in Browsers :
       \/ \E u \in Seeders : SignIn(b, u)
       \/ SignedIn(b) \/ Visit(b) \/ SessionEnds(b)
       \/ \E e \in Emails \cup {Malformed}, p \in {"published", "weak", "chosen"} : Submit(b, e, p)
       \/ SetupStep(b) \/ DeadlockDetected(b)
       \/ AskTokens(b)
       \/ \E t \in TokenIds : CreateToken(b, t) \/ RevokeToken(b, t)
       \/ OwnerStep(b)
  \/ \E u \in Seeders : ResetFind(u)
  \/ ResetStep

AccountsSpec == AccountsInit /\ [][AccountsNext]_accountVars

-----------------------------------------------------------------------------
(* Properties *)

\* What a transaction past its row lock relies on: the account it is about to
\* write is still pending, and nobody else is about to write it.
LockedIsPending ==
  \A b \in Browsers : setup[b].at = "locked" =>
    /\ setup[b].user \in Seeders /\ Pending(setup[b].user)
    /\ \A c \in Browsers \ {b} : ~(setup[c].at = "locked" /\ setup[c].user = setup[b].user)

\* A seeder that has returned leaves a deployment somebody can sign in to.
SeededHasAccount == \A s \in Seeders : seeding[s].at = "done" => Present # {}

\* The rows agree with both unique indexes.
RowsAreUnique ==
  \A u, v \in Present : u # v => users[u].email # users[v].email /\ users[u].username # users[v].username

\* Seeders of the same identity create one account between them, also when the
\* first has been given another address before the second inserts: it is the
\* username that settles that race, unless an owner has renamed the account by then.
Renamed(u) == <<u, "username">> \in owned
OneAccountPerIdentity ==
  \A s, t \in {u \in Present : ~Renamed(u)} : seeding[s].username = seeding[t].username => s = t

\* An account is set up once, and once more after each reset, however many
\* browsers submit the form at the same time.
SetupOncePerReset == \A u \in Seeders : setups[u] <= resets[u] + 1

\* No account that holds the published password is free of the obligation to
\* replace it ("a deployment is never left reachable with the published
\* password", admin.ts), unless its owner has chosen the password elsewhere.
PublishedIsPending ==
  \A u \in Seeders : Exists(u) /\ users[u].password = "published" /\ <<u, "password">> \notin owned =>
    users[u].pending

\* A bearer credential stands for an account that has completed its setup, also
\* when a reset comes between the session check and the insert of the token.
TokenOwnersWereSetUp ==
  \A t \in TokenIds : authenticateApiToken(t) # Missing =>
    authenticateApiToken(t) \in Seeders /\ setups[authenticateApiToken(t)] > 0

AccountsInvariant ==
  /\ AccountsTypeOK /\ LockedIsPending /\ SeededHasAccount /\ RowsAreUnique
  /\ OneAccountPerIdentity /\ SetupOncePerReset /\ PublishedIsPending /\ TokenOwnersWereSetUp

\* An established account is changed by a reset, which replaces its password and
\* demands a new setup, and by its owner, whose session was checked and who
\* changes its password or its username alone.  No setup changes it, whatever was
\* pending when the setup began; its address stays.
EstablishedChangesByResetOrOwner ==
  [][\A u \in Seeders : Exists(u) /\ ~users[u].pending =>
       \/ users'[u] = users[u]
       \/ reset.user = u /\ users'[u] = [users[u] EXCEPT !.password = "temporary", !.pending = TRUE]
       \/ /\ \E b \in Browsers : owning[b] = u
          /\ \/ \E p \in Passwords : users'[u] = [users[u] EXCEPT !.password = p]
             \/ \E n \in Usernames : users'[u] = [users[u] EXCEPT !.username = n]]_accountVars

\* A submitted setup is answered: also when it and a reset wait for each other.
SubmissionsAreAnswered == \A b \in Browsers : setup[b].at # "idle" ~> setup[b].at = "idle"

=============================================================================

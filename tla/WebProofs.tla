----------------------------- MODULE WebProofs -----------------------------
(***************************************************************************)
(* The web application for any number of seeders, browsers, tokens and     *)
(* resets; of services, loads and settings pages; of schedules; and of     *)
(* components, fields and files.                                           *)
(***************************************************************************)
EXTENDS AdminAccounts, SystemPages, TriggerEditor, ConfigurationForm, TLAPS

-----------------------------------------------------------------------------
(* AdminAccounts: who may set up, sign in and hold tokens. *)

\* An account belongs to the seeder that inserted it and returned, and keeps
\* that seeder's username until its owner changes it.
AccountsHaveSeeders ==
  \A s \in Seeders : Exists(s) =>
    seeding[s].at = "done" /\ (users[s].username = seeding[s].username \/ Renamed(s))

\* A request past validation names an account and values the rows may hold.
SetupsAreValidated ==
  \A b \in Browsers :
    /\ setup[b].at = "sent" => setup[b].email # Missing
    /\ setup[b].at \in {"hash", "locked"} =>
         /\ setup[b].user \in Seeders /\ setup[b].email \in Emails
         /\ setup[b].password \in Passwords \ {"published"}

\* Sessions, sign-ins, requests and the reset name rows that exist: nothing deletes one.
NamedAccountsExist ==
  /\ \A b \in Browsers : \A u \in {sessions[b], signing[b], owning[b]} : u # Missing => Exists(u)
  /\ reset.at # "idle" => reset.user \in Present

\* A pending account is one setup behind; one that is not pending was set up.
SetupsAreCounted ==
  \A u \in Seeders :
    /\ ~Exists(u) => setups[u] = 0
    /\ Pending(u) => setups[u] <= resets[u]
    /\ Exists(u) /\ ~Pending(u) => setups[u] \in 1..(resets[u] + 1)

\* Whoever is past getApiSession, and every owner of a token, was set up.
OwnersWereSetUp ==
  /\ \A b \in Browsers : asking[b] # Missing => setups[asking[b]] > 0
  /\ \A t \in TokenIds : tokens[t].owner # Missing => setups[tokens[t].owner] > 0

AccountsCore == AccountsTypeOK /\ LockedIsPending /\ SeededHasAccount /\ RowsAreUnique

AccountsInv ==
  /\ AccountsCore /\ AccountsHaveSeeders /\ SetupsAreValidated /\ NamedAccountsExist
  /\ SetupsAreCounted /\ PublishedIsPending /\ OwnersWereSetUp

SeedRow == [at : {"idle", "read", "hash", "done", "refused"}, email : Emails, username : Usernames]
SetupRow == [at : {"idle", "sent", "hash", "locked"}, user : Seeders \cup {Missing},
             email : Emails \cup {Missing, Malformed}, password : Inputs]
ResetRow == [at : {"idle", "hash", "credential"}, user : Seeders \cup {Missing}]
TokenRow == [owner : Seeders \cup {Missing}, revoked : BOOLEAN]

LEMMA AccountsInitInv == AccountsInit => AccountsInv
  <1> SUFFICES ASSUME AccountsInit PROVE AccountsInv
    OBVIOUS
  <1> USE AccountsAssumption DEF AccountsInit
  <1>1. AccountsTypeOK
    <2>1. seeding \in [Seeders -> SeedRow]
      BY DEF SeedRow
    <2>2. setup \in [Browsers -> SetupRow]
      BY DEF SetupRow, NoSetup, Inputs
    <2>3. tokens \in [TokenIds -> TokenRow]
      BY DEF TokenRow, NoToken
    <2>4. reset \in ResetRow
      BY DEF ResetRow, NoReset
    <2> QED BY <2>1, <2>2, <2>3, <2>4 DEF AccountsTypeOK, SeedRow, SetupRow, TokenRow, ResetRow
  <1>2. LockedIsPending /\ SeededHasAccount /\ RowsAreUnique
    BY DEF LockedIsPending, SeededHasAccount, RowsAreUnique, NoSetup, Present, Exists
  <1>3. AccountsHaveSeeders /\ SetupsAreValidated /\ NamedAccountsExist
    BY DEF AccountsHaveSeeders, SetupsAreValidated, NamedAccountsExist, NoSetup, NoReset, Exists
  <1>4. SetupsAreCounted /\ PublishedIsPending /\ OwnersWereSetUp
    BY DEF SetupsAreCounted, PublishedIsPending, OwnersWereSetUp, NoToken, Exists, Pending
  <1> QED BY <1>1, <1>2, <1>3, <1>4 DEF AccountsInv, AccountsCore

\* Steps that write no account: what is said of the rows alone stays.
LEMMA AccountRowsStay ==
  ASSUME AccountsInv, UNCHANGED <<users, owned>>
  PROVE  /\ RowsAreUnique' /\ PublishedIsPending' /\ Present' = Present
         /\ \A u : (Exists(u)' <=> Exists(u)) /\ (Pending(u)' <=> Pending(u))
  BY DEF AccountsInv, AccountsCore, RowsAreUnique, PublishedIsPending, Present, Exists, Pending

LEMMA CountsStay ==
  ASSUME AccountsInv, UNCHANGED <<users, resets, setups>>
  PROVE  SetupsAreCounted'
  BY DEF AccountsInv, SetupsAreCounted, Exists, Pending

LEMMA SeedSteps ==
  ASSUME AccountsInv, NEW s \in Seeders, SeedStart(s) \/ SeedRead(s)
  PROVE  AccountsInv'
  <1> USE AccountsAssumption
  <1>0. AccountsTypeOK /\ SeededHasAccount /\ AccountsHaveSeeders
    BY DEF AccountsInv, AccountsCore
  <1>1. /\ UNCHANGED <<users, sessions, signing, page, setup, reset, tokens, asking, resets, setups, owning, owned>>
        /\ seeding[s].at \in {"idle", "read"}
    BY DEF SeedStart, SeedRead
  <1>2. seeding \in [Seeders -> SeedRow]
    BY <1>0 DEF AccountsTypeOK, SeedRow
  <1>3. PICK new \in SeedRow : /\ seeding' = [seeding EXCEPT ![s] = new]
                               /\ new.at = "done" => Present # {}
    <2>1. CASE SeedStart(s)
      <3>1. PICK e \in Emails \cup {Missing, Malformed}, n \in Usernames \cup {Missing, Malformed} :
              seeding' = [seeding EXCEPT ![s] =
                IF Malformed \in {e, n} THEN [@ EXCEPT !.at = "refused"]
                ELSE [at |-> "read", email |-> OrDefault(e, DefaultEmail),
                      username |-> OrDefault(n, DefaultUsername)]]
        BY <2>1 DEF SeedStart
      <3>2. CASE Malformed \in {e, n}
        <4>1. [seeding[s] EXCEPT !.at = "refused"] \in SeedRow
          BY <1>2 DEF SeedRow
        <4>2. seeding' = [seeding EXCEPT ![s] = [seeding[s] EXCEPT !.at = "refused"]]
          BY <1>2, <3>1, <3>2
        <4> QED BY <1>2, <4>1, <4>2 DEF SeedRow
      <3>3. CASE Malformed \notin {e, n}
        <4> DEFINE r == [at |-> "read", email |-> OrDefault(e, DefaultEmail),
                         username |-> OrDefault(n, DefaultUsername)]
        <4>1. r \in SeedRow /\ r.at # "done"
          BY <3>3 DEF SeedRow, OrDefault
        <4>2. seeding' = [seeding EXCEPT ![s] = r]
          BY <1>2, <3>1, <3>3
        <4> QED BY <4>1, <4>2
      <3> QED BY <3>2, <3>3
    <2>2. CASE SeedRead(s)
      <3> DEFINE r == [seeding[s] EXCEPT !.at = IF Present = {} THEN "hash" ELSE "done"]
      <3>1. r \in SeedRow /\ (r.at = "done" => Present # {})
        BY <1>2 DEF SeedRow
      <3>2. seeding' = [seeding EXCEPT ![s] = r]
        BY <1>2, <2>2 DEF SeedRead
      <3> QED BY <3>1, <3>2
    <2> QED BY <2>1, <2>2
  <1>4. /\ seeding' \in [Seeders -> SeedRow]
        /\ \A t \in Seeders : seeding'[t] = IF t = s THEN new ELSE seeding[t]
    BY <1>2, <1>3
  <1>5. AccountsTypeOK'
    BY <1>0, <1>1, <1>4 DEF AccountsTypeOK, SeedRow
  <1>6. SeededHasAccount'
    BY <1>0, <1>1, <1>3, <1>4, AccountRowsStay DEF SeededHasAccount
  <1>7. AccountsHaveSeeders'
    BY <1>0, <1>1, <1>4 DEF AccountsHaveSeeders, Exists, Renamed
  <1>8. LockedIsPending' /\ SetupsAreValidated' /\ NamedAccountsExist' /\ OwnersWereSetUp'
    BY <1>1, AccountRowsStay DEF AccountsInv, AccountsCore, LockedIsPending, SetupsAreValidated,
      NamedAccountsExist, OwnersWereSetUp
  <1> QED
    BY <1>1, <1>5, <1>6, <1>7, <1>8, AccountRowsStay, CountsStay DEF AccountsInv, AccountsCore

\* The account appears with the published password, pending, and alone with its
\* address and username; or somebody else has one.
LEMMA SeedInsertStep ==
  ASSUME AccountsInv, NEW s \in Seeders, SeedInsert(s)
  PROVE  AccountsInv'
  <1> USE AccountsAssumption
  <1> DEFINE row == [email |-> seeding[s].email, username |-> seeding[s].username,
                     password |-> "published", pending |-> TRUE]
             new == [seeding[s] EXCEPT !.at = "done"]
  <1>0. AccountsTypeOK /\ AccountsHaveSeeders /\ SeededHasAccount
    BY DEF AccountsInv, AccountsCore
  <1>1. /\ UNCHANGED <<sessions, signing, page, setup, reset, tokens, asking, resets, setups, owning, owned>>
        /\ seeding[s].at = "hash"
        /\ seeding' = [seeding EXCEPT ![s].at = "done"]
    BY DEF SeedInsert
  <1>2. seeding \in [Seeders -> SeedRow] /\ users \in [Seeders -> Accounts \cup {Missing}]
    BY <1>0 DEF AccountsTypeOK, SeedRow
  <1>3. /\ new \in SeedRow /\ new.at = "done" /\ new.username = seeding[s].username
        /\ row \in Accounts /\ row # Missing
    <2>1. seeding[s] \in SeedRow
      BY <1>2
    <2>2. new \in SeedRow /\ new.at = "done" /\ new.username = seeding[s].username
      BY <2>1 DEF SeedRow
    <2>3. seeding[s].email \in Emails /\ seeding[s].username \in Usernames
      BY <2>1 DEF SeedRow
    <2>4. row \in Accounts
      BY <2>3 DEF Accounts, Passwords
    <2>5. row # Missing
      BY <2>4
    <2> QED BY <2>2, <2>4, <2>5
  <1>4. /\ seeding' \in [Seeders -> SeedRow]
        /\ \A t \in Seeders : seeding'[t] = IF t = s THEN new ELSE seeding[t]
    <2>1. seeding' = [seeding EXCEPT ![s] = new]
      BY <1>1, <1>2
    <2> QED BY <1>2, <1>3, <2>1
  <1>5. ~Exists(s)
    BY <1>0, <1>1 DEF AccountsHaveSeeders
  <1>6. CASE users' = users
    <2>1. Present # {}
      BY <1>1, <1>2, <1>3, <1>5, <1>6 DEF SeedInsert, Unique, Exists
    <2>2. AccountsTypeOK'
      BY <1>0, <1>1, <1>4, <1>6 DEF AccountsTypeOK, SeedRow
    <2>3. SeededHasAccount' /\ AccountsHaveSeeders'
      BY <1>0, <1>1, <1>4, <1>5, <1>6, <2>1, AccountRowsStay DEF SeededHasAccount, AccountsHaveSeeders, Renamed
    <2>4. LockedIsPending' /\ SetupsAreValidated' /\ NamedAccountsExist' /\ OwnersWereSetUp'
      BY <1>1, <1>6, AccountRowsStay DEF AccountsInv, AccountsCore, LockedIsPending,
        SetupsAreValidated, NamedAccountsExist, OwnersWereSetUp
    <2> QED
      BY <1>1, <1>6, <2>2, <2>3, <2>4, AccountRowsStay, CountsStay DEF AccountsInv, AccountsCore
  <1>7. CASE Unique(s, seeding[s].email, seeding[s].username) /\ users' = [users EXCEPT ![s] = row]
    <2>1. /\ users' \in [Seeders -> Accounts \cup {Missing}]
          /\ \A u \in Seeders : users'[u] = IF u = s THEN row ELSE users[u]
      BY <1>2, <1>3, <1>7
    <2>2. row.email = seeding[s].email /\ row.username = seeding[s].username /\ row.pending = TRUE
      OBVIOUS
    <2> HIDE DEF row, new
    <2>3. \A u \in Seeders : (Exists(u)' <=> u = s \/ Exists(u)) /\ (Pending(u) => Pending(u)')
          /\ (u # s => (Pending(u)' <=> Pending(u)))
      BY <1>3, <1>5, <2>1 DEF Exists, Pending
    <2>4. Pending(s)'
      BY <1>3, <2>1, <2>2 DEF Exists, Pending
    <2>5. AccountsTypeOK'
      BY <1>0, <1>1, <1>4, <2>1 DEF AccountsTypeOK, SeedRow
    <2>6. SeededHasAccount' /\ AccountsHaveSeeders'
      BY <1>0, <1>1, <1>3, <1>4, <1>5, <2>1, <2>2, <2>3 DEF SeededHasAccount, AccountsHaveSeeders, Renamed, Present
    <2>7. RowsAreUnique'
      <3> SUFFICES ASSUME NEW u \in Seeders, NEW v \in Seeders, u # v, Exists(u)', Exists(v)'
                   PROVE  users'[u].email # users'[v].email /\ users'[u].username # users'[v].username
        BY DEF RowsAreUnique, Present
      <3>1. CASE u # s /\ v # s
        BY <2>1, <2>3, <3>1 DEF AccountsInv, AccountsCore, RowsAreUnique, Present
      <3>2. \A t \in Seeders : t # s /\ Exists(t)' => users[t].email # row.email /\ users[t].username # row.username
        BY <1>7, <2>2, <2>3 DEF Unique, Present
      <3> QED BY <2>1, <3>1, <3>2
    <2>8. LockedIsPending' /\ SetupsAreValidated'
      BY <1>1, <2>3 DEF AccountsInv, AccountsCore, LockedIsPending, SetupsAreValidated
    <2>9. NamedAccountsExist' /\ OwnersWereSetUp'
      BY <1>0, <1>1, <2>3 DEF AccountsTypeOK, AccountsInv, NamedAccountsExist, OwnersWereSetUp, Present
    <2>10. SetupsAreCounted'
      <3>1. setups[s] = 0 /\ resets[s] \in Nat
        BY <1>0, <1>5 DEF AccountsInv, SetupsAreCounted, AccountsTypeOK
      <3> QED BY <1>1, <2>3, <2>4, <3>1 DEF AccountsInv, SetupsAreCounted
    <2>11. PublishedIsPending'
      BY <1>1, <2>1, <2>2, <2>3 DEF AccountsInv, PublishedIsPending
    <2> QED
      BY <2>5, <2>6, <2>7, <2>8, <2>9, <2>10, <2>11 DEF AccountsInv, AccountsCore
  <1> QED BY <1>6, <1>7 DEF SeedInsert

LEMMA SessionSteps ==
  ASSUME AccountsInv, NEW b \in Browsers,
         (\E u \in Seeders : SignIn(b, u)) \/ SignedIn(b) \/ Visit(b) \/ SessionEnds(b)
  PROVE  AccountsInv'
  <1> USE AccountsAssumption
  <1>0. AccountsTypeOK
    BY DEF AccountsInv, AccountsCore
  <1>1. UNCHANGED <<users, seeding, setup, reset, tokens, asking, resets, setups, owning, owned>>
    BY DEF SignIn, SignedIn, Visit, SessionEnds
  <1>2. \A u : Landing(u) \in {"login", "welcome", "app", "error"}
    BY DEF Landing
  <1>3. AccountsTypeOK'
    <2>1. page' \in [Browsers -> {"login", "welcome", "app", "error"}]
      BY <1>0, <1>2, SMTT(20) DEF AccountsTypeOK, SignIn, SignedIn, Visit, SessionEnds
    <2>2. sessions' \in [Browsers -> Seeders \cup {Missing}] /\ signing' \in [Browsers -> Seeders \cup {Missing}]
      <3>0. sessions \in [Browsers -> Seeders \cup {Missing}] /\ signing \in [Browsers -> Seeders \cup {Missing}]
        BY <1>0 DEF AccountsTypeOK
      <3>1. PICK u \in Seeders \cup {Missing} : sessions' \in {sessions, [sessions EXCEPT ![b] = u]}
        BY <3>0 DEF SignIn, SignedIn, Visit, SessionEnds
      <3>2. PICK v \in Seeders \cup {Missing} : signing' \in {signing, [signing EXCEPT ![b] = v]}
        BY <3>0 DEF SignIn, SignedIn, Visit, SessionEnds
      <3> QED BY <3>0, <3>1, <3>2
    <2> QED BY <1>0, <1>1, <2>1, <2>2 DEF AccountsTypeOK
  <1>4. NamedAccountsExist'
    <2>1. \A c \in Browsers : \A u \in {sessions'[c], signing'[c], owning'[c]} :
            u # Missing => u \in {sessions[c], signing[c], owning[c]} \/ Exists(u)
      BY <1>0 DEF AccountsTypeOK, SignIn, SignedIn, Visit, SessionEnds
    <2>2. \A c \in Browsers : \A u \in {sessions'[c], signing'[c], owning'[c]} : u # Missing => Exists(u)
      BY <2>1 DEF AccountsInv, NamedAccountsExist
    <2>3. reset'.at # "idle" => reset'.user \in Present'
      BY <1>1, AccountRowsStay DEF AccountsInv, NamedAccountsExist
    <2> QED BY <1>1, <2>2, <2>3, AccountRowsStay DEF NamedAccountsExist
  <1>5. /\ LockedIsPending' /\ SetupsAreValidated' /\ OwnersWereSetUp' /\ SeededHasAccount'
        /\ AccountsHaveSeeders'
    BY <1>1, AccountRowsStay DEF AccountsInv, AccountsCore, LockedIsPending, SetupsAreValidated,
      OwnersWereSetUp, SeededHasAccount, AccountsHaveSeeders, Renamed
  <1> QED
    BY <1>1, <1>3, <1>4, <1>5, AccountRowsStay, CountsStay DEF AccountsInv, AccountsCore

\* Steps of one setup request that write no account.
LEMMA SetupMoves ==
  ASSUME AccountsInv, NEW b \in Browsers, NEW new \in SetupRow, setup' = [setup EXCEPT ![b] = new],
         page' \in [Browsers -> {"login", "welcome", "app", "error"}],
         UNCHANGED <<users, seeding, sessions, signing, tokens, asking, resets, setups, owning, owned>>,
         reset' \in ResetRow, reset'.at # "idle" => reset'.user \in Present,
         new.at = "sent" => new.email # Missing,
         new.at \in {"hash", "locked"} => /\ new.user \in Seeders /\ new.email \in Emails
                                          /\ new.password \in Passwords \ {"published"},
         new.at = "locked" => /\ Pending(new.user)
                              /\ \A c \in Browsers \ {b} : ~Locks(c, new.user)
  PROVE  AccountsInv'
  <1> USE AccountsAssumption
  <1>0. AccountsTypeOK
    BY DEF AccountsInv, AccountsCore
  <1>1. setup \in [Browsers -> SetupRow]
    BY <1>0 DEF AccountsTypeOK, SetupRow
  <1>2. /\ setup' \in [Browsers -> SetupRow]
        /\ \A c \in Browsers : setup'[c] = IF c = b THEN new ELSE setup[c]
    BY <1>1
  <1>3. AccountsTypeOK'
    BY <1>0, <1>2 DEF AccountsTypeOK, SetupRow, ResetRow
  <1>4. LockedIsPending'
    <2> SUFFICES ASSUME NEW c \in Browsers, setup'[c].at = "locked"
                 PROVE  /\ setup'[c].user \in Seeders /\ Pending(setup'[c].user)
                        /\ \A d \in Browsers \ {c} :
                             ~(setup'[d].at = "locked" /\ setup'[d].user = setup'[c].user)
      BY DEF LockedIsPending, Pending, Exists
    <2>1. setup'[c].user \in Seeders /\ Pending(setup'[c].user)
      BY <1>2 DEF AccountsInv, AccountsCore, LockedIsPending
    <2>2. ASSUME NEW d \in Browsers \ {c}, setup'[d].at = "locked", setup'[d].user = setup'[c].user
          PROVE  FALSE
      <3>1. CASE c = b
        BY <1>2, <2>2, <3>1 DEF Locks
      <3>2. CASE d = b
        BY <1>2, <2>2, <3>2 DEF Locks
      <3>3. CASE c # b /\ d # b
        BY <1>2, <2>2, <3>3 DEF AccountsInv, AccountsCore, LockedIsPending
      <3> QED BY <3>1, <3>2, <3>3
    <2> QED BY <2>1, <2>2
  <1>5. SetupsAreValidated'
    BY <1>2 DEF AccountsInv, SetupsAreValidated
  <1>6. NamedAccountsExist' /\ OwnersWereSetUp' /\ SeededHasAccount' /\ AccountsHaveSeeders'
    BY AccountRowsStay DEF AccountsInv, AccountsCore, NamedAccountsExist,
      OwnersWereSetUp, SeededHasAccount, AccountsHaveSeeders, Renamed
  <1> QED
    BY <1>3, <1>4, <1>5, <1>6, AccountRowsStay, CountsStay DEF AccountsInv, AccountsCore

\* A request's answer, whatever it was waiting for.
LEMMA SetupEnds ==
  ASSUME AccountsInv, NEW b \in Browsers, NEW where \in {"login", "welcome", "app", "error"},
         SetupAnswered(b, where), UNCHANGED reset,
         UNCHANGED <<users, seeding, sessions, signing, tokens, asking, resets, setups, owning, owned>>
  PROVE  AccountsInv'
  <1>1. NoSetup \in SetupRow /\ NoSetup.at = "idle"
    BY DEF NoSetup, SetupRow, Inputs
  <1>2. page' \in [Browsers -> {"login", "welcome", "app", "error"}] /\ reset' \in ResetRow
    BY DEF AccountsInv, AccountsCore, AccountsTypeOK, SetupAnswered, ResetRow
  <1>3. reset'.at # "idle" => reset'.user \in Present
    BY DEF AccountsInv, NamedAccountsExist
  <1>4. setup' = [setup EXCEPT ![b] = NoSetup]
    BY DEF SetupAnswered
  <1> QED BY <1>1, <1>2, <1>3, <1>4, SetupMoves

LEMMA SetupSteps ==
  ASSUME AccountsInv, NEW b \in Browsers,
         \/ \E e \in Emails \cup {Malformed}, p \in {"published", "weak", "chosen"} : Submit(b, e, p)
         \/ SetupCheck(b) \/ SetupLock(b)
  PROVE  AccountsInv'
  <1> USE AccountsAssumption
  <1>0. AccountsTypeOK
    BY DEF AccountsInv, AccountsCore
  <1>1. setup \in [Browsers -> SetupRow] /\ setup[b] \in SetupRow
    BY <1>0 DEF AccountsTypeOK, SetupRow
  <1>2. UNCHANGED <<users, seeding, sessions, signing, reset, tokens, asking, resets, setups, owning, owned>>
    BY DEF Submit, SetupCheck, SetupLock
  <1>3. reset' \in ResetRow /\ (reset'.at # "idle" => reset'.user \in Present)
    BY <1>0, <1>2 DEF AccountsInv, NamedAccountsExist, AccountsTypeOK, ResetRow
  <1>4. page \in [Browsers -> {"login", "welcome", "app", "error"}]
    BY <1>0 DEF AccountsTypeOK
  <1>5. ASSUME NEW e \in Emails \cup {Malformed}, NEW p \in {"published", "weak", "chosen"}, Submit(b, e, p)
        PROVE  AccountsInv'
    <2> DEFINE new == [at |-> "sent", user |-> Missing, email |-> e, password |-> p]
    <2>1. new \in SetupRow /\ new.at = "sent" /\ new.email # Missing
      BY DEF SetupRow, Inputs, Passwords
    <2>2. setup' = [setup EXCEPT ![b] = new] /\ page' = page
      BY <1>5 DEF Submit
    <2> HIDE DEF new
    <2> QED BY <1>2, <1>3, <1>4, <2>1, <2>2, SetupMoves
  <1>6. CASE SetupAnswered(b, "welcome")
    BY <1>2, <1>6, SetupEnds
  <1>7. CASE SetupCheck(b) /\ ~SetupAnswered(b, "welcome")
    <2> DEFINE new == [setup[b] EXCEPT !.at = "hash", !.user = sessions[b]]
    <2>1. /\ sessions[b] \in Seeders /\ AcceptableCredentials(setup[b].email, setup[b].password)
          /\ setup' = [setup EXCEPT ![b].at = "hash", ![b].user = sessions[b]] /\ page' = page
          /\ setup[b].at = "sent"
      BY <1>0, <1>7 DEF SetupCheck, AccountsTypeOK
    <2>2. setup[b].email \in Emails /\ setup[b].password \in Passwords \ {"published"}
      BY <1>1, <2>1 DEF AcceptableCredentials, SetupRow, Inputs, AccountsInv, SetupsAreValidated
    <2>3. /\ new \in SetupRow /\ new.at = "hash" /\ new.user = sessions[b]
          /\ new.email = setup[b].email /\ new.password = setup[b].password
      BY <1>1, <2>1 DEF SetupRow
    <2>4. setup' = [setup EXCEPT ![b] = new]
      BY <1>1, <2>1
    <2> HIDE DEF new
    <2> QED BY <1>2, <1>3, <1>4, <2>1, <2>2, <2>3, <2>4, SetupMoves
  <1>8. CASE SetupLock(b) /\ ~SetupAnswered(b, "welcome")
    <2> DEFINE new == [setup[b] EXCEPT !.at = "locked"]
    <2>1. /\ Pending(setup[b].user) /\ \A c \in Browsers : ~Locks(c, setup[b].user)
          /\ setup' = [setup EXCEPT ![b].at = "locked"] /\ page' = page /\ setup[b].at = "hash"
      BY <1>8 DEF SetupLock
    <2>2. /\ setup[b].user \in Seeders /\ setup[b].email \in Emails
          /\ setup[b].password \in Passwords \ {"published"}
      BY <2>1 DEF AccountsInv, SetupsAreValidated
    <2>3. /\ new \in SetupRow /\ new.at = "locked" /\ new.user = setup[b].user
          /\ new.email = setup[b].email /\ new.password = setup[b].password
      BY <1>1 DEF SetupRow
    <2>4. setup' = [setup EXCEPT ![b] = new]
      BY <1>1, <2>1
    <2> HIDE DEF new
    <2> QED BY <1>2, <1>3, <1>4, <2>1, <2>2, <2>3, <2>4, SetupMoves
  <1> QED BY <1>5, <1>6, <1>7, <1>8

\* One account changes in place and stays unique; a change of its username is its owner's.
LEMMA AccountMoves ==
  ASSUME AccountsInv, NEW u \in Seeders, Exists(u), NEW row \in Accounts,
         users' = [users EXCEPT ![u] = row], owned \subseteq owned',
         row.username = users[u].username \/ <<u, "username">> \in owned',
         Unique(u, row.email, row.username)
  PROVE  /\ users' \in [Seeders -> Accounts \cup {Missing}]
         /\ \A v \in Seeders : users'[v] = IF v = u THEN row ELSE users[v]
         /\ \A v \in Seeders : Exists(v)' <=> Exists(v)
         /\ Present' = Present /\ RowsAreUnique'
         /\ UNCHANGED seeding => AccountsHaveSeeders' /\ SeededHasAccount'
  <1> USE AccountsAssumption
  <1>1. users \in [Seeders -> Accounts \cup {Missing}]
    BY DEF AccountsInv, AccountsCore, AccountsTypeOK
  <1>2. /\ users' \in [Seeders -> Accounts \cup {Missing}]
        /\ \A v \in Seeders : users'[v] = IF v = u THEN row ELSE users[v]
    BY <1>1
  <1>3. row # Missing
    OBVIOUS
  <1>4. \A v \in Seeders : Exists(v)' <=> Exists(v)
    BY <1>2, <1>3 DEF Exists
  <1>5. Present' = Present
    BY <1>4 DEF Present
  <1>6. RowsAreUnique'
    <2> SUFFICES ASSUME NEW v \in Present, NEW w \in Present, v # w
                 PROVE  users'[v].email # users'[w].email /\ users'[v].username # users'[w].username
      BY <1>5 DEF RowsAreUnique
    <2>0. v \in Seeders /\ w \in Seeders
      BY DEF Present
    <2>1. \A x \in Present : x # u => users[x].email # row.email /\ users[x].username # row.username
      BY DEF Unique
    <2>2. users[v].email # users[w].email /\ users[v].username # users[w].username
      BY DEF AccountsInv, AccountsCore, RowsAreUnique
    <2> QED BY <1>2, <2>0, <2>1, <2>2
  <1>7. UNCHANGED seeding => AccountsHaveSeeders' /\ SeededHasAccount'
    BY <1>2, <1>4, <1>5 DEF AccountsInv, AccountsCore, AccountsHaveSeeders, SeededHasAccount, Renamed
  <1> QED BY <1>2, <1>4, <1>5, <1>6, <1>7

\* The commit of a setup: the account was pending under the lock, is so no
\* longer, and has been set up once more than reset at most.
LEMMA SetupWriteStep ==
  ASSUME AccountsInv, NEW b \in Browsers, SetupWrite(b)
  PROVE  AccountsInv'
  <1> USE AccountsAssumption
  <1>0. AccountsTypeOK
    BY DEF AccountsInv, AccountsCore
  <1>1. /\ UNCHANGED <<seeding, sessions, signing, reset, tokens, asking, resets, owning, owned>>
        /\ setup[b].at = "locked"
    BY DEF SetupWrite
  <1>2. PICK u \in Seeders :
          /\ u = setup[b].user /\ Pending(u) /\ Exists(u) /\ setup[b].email \in Emails
          /\ setup[b].password \in Passwords \ {"published"}
          /\ \A c \in Browsers \ {b} : ~(setup[c].at = "locked" /\ setup[c].user = u)
    BY <1>1 DEF AccountsInv, AccountsCore, LockedIsPending, SetupsAreValidated, Pending
  <1> DEFINE row == [users[u] EXCEPT !.email = setup[b].email, !.password = setup[b].password,
                                     !.pending = FALSE]
  <1>3. CASE ~Unique(u, setup[b].email, users[u].username)
    BY <1>1, <1>2, <1>3, SetupEnds DEF SetupWrite
  <1>4. CASE Unique(u, setup[b].email, users[u].username)
    <2>1. users \in [Seeders -> Accounts \cup {Missing}] /\ users[u] \in Accounts
      BY <1>0, <1>2 DEF AccountsTypeOK, Exists
    <2>2. /\ users' = [users EXCEPT ![u] = row] /\ setups' = [setups EXCEPT ![u] = @ + 1]
          /\ SetupAnswered(b, IF sessions[b] = Missing THEN "login" ELSE "app")
      <3>1. [users EXCEPT ![u].email = setup[b].email, ![u].password = setup[b].password,
                          ![u].pending = FALSE] = [users EXCEPT ![u] = row]
        BY <1>2, <2>1
      <3> QED BY <1>2, <1>4, <3>1 DEF SetupWrite
    <2>3. /\ row \in Accounts /\ row.username = users[u].username /\ row.email = setup[b].email
          /\ row.password # "published" /\ row.pending = FALSE
      BY <1>2, <2>1 DEF Accounts
    <2> HIDE DEF row
    <2>4. /\ users' \in [Seeders -> Accounts \cup {Missing}]
          /\ \A v \in Seeders : users'[v] = IF v = u THEN row ELSE users[v]
          /\ \A v \in Seeders : Exists(v)' <=> Exists(v)
          /\ Present' = Present /\ RowsAreUnique' /\ AccountsHaveSeeders' /\ SeededHasAccount'
      BY <1>1, <1>2, <1>4, <2>2, <2>3, AccountMoves
    <2>5. \A v \in Seeders : (v # u => (Pending(v)' <=> Pending(v))) /\ ~Pending(u)'
      BY <1>2, <2>3, <2>4 DEF Pending, Exists
    <2>6. /\ setup' \in [Browsers -> SetupRow]
          /\ \A c \in Browsers : setup'[c] = IF c = b THEN NoSetup ELSE setup[c]
          /\ page' \in [Browsers -> {"login", "welcome", "app", "error"}]
      <3>1. NoSetup \in SetupRow /\ setup \in [Browsers -> SetupRow]
        BY <1>0 DEF NoSetup, SetupRow, Inputs, AccountsTypeOK
      <3> QED BY <1>0, <2>2, <3>1 DEF SetupAnswered, AccountsTypeOK
    <2>7. setups' \in [Seeders -> Nat] /\ \A v \in Seeders : setups'[v] = IF v = u THEN setups[u] + 1 ELSE setups[v]
      BY <1>0, <1>2, <2>2 DEF AccountsTypeOK
    <2>8. AccountsTypeOK'
      BY <1>0, <1>1, <2>4, <2>6, <2>7 DEF AccountsTypeOK, SetupRow
    <2>9. LockedIsPending' /\ SetupsAreValidated'
      <3>1. NoSetup.at = "idle"
        BY DEF NoSetup
      <3>2. LockedIsPending'
        <4> SUFFICES ASSUME NEW c \in Browsers, setup'[c].at = "locked"
                     PROVE  /\ setup'[c].user \in Seeders
                            /\ users'[setup'[c].user] # Missing /\ users'[setup'[c].user].pending
                            /\ \A d \in Browsers \ {c} :
                                 ~(setup'[d].at = "locked" /\ setup'[d].user = setup'[c].user)
          BY DEF LockedIsPending, Pending, Exists
        <4>1. c # b /\ setup'[c] = setup[c]
          BY <2>6, <3>1
        <4>2. /\ setup[c].user \in Seeders /\ Pending(setup[c].user) /\ setup[c].user # u
              /\ \A d \in Browsers \ {c} : ~(setup[d].at = "locked" /\ setup[d].user = setup[c].user)
          BY <1>2, <4>1 DEF AccountsInv, AccountsCore, LockedIsPending
        <4>3. users'[setup[c].user] = users[setup[c].user]
          BY <2>4, <4>2
        <4>4. \A d \in Browsers \ {c} : ~(setup'[d].at = "locked" /\ setup'[d].user = setup'[c].user)
          BY <2>6, <3>1, <4>1, <4>2
        <4> QED BY <4>1, <4>2, <4>3, <4>4 DEF Pending, Exists
      <3> QED BY <2>6, <3>1, <3>2 DEF AccountsInv, SetupsAreValidated
    <2>10. NamedAccountsExist'
      BY <1>0, <1>1, <2>4 DEF AccountsInv, NamedAccountsExist, AccountsTypeOK
    <2>11. OwnersWereSetUp'
      <3>1. \A v \in Seeders : setups[v] > 0 => setups'[v] > 0
        <4>1. setups \in [Seeders -> Nat]
          BY <1>0 DEF AccountsTypeOK
        <4> QED BY <2>7, <4>1
      <3>2. /\ \A c \in Browsers : asking[c] # Missing => asking[c] \in Seeders
            /\ \A t \in TokenIds : tokens[t].owner # Missing => tokens[t].owner \in Seeders
        BY <1>0 DEF AccountsTypeOK
      <3> QED BY <1>1, <3>1, <3>2 DEF AccountsInv, OwnersWereSetUp
    <2>12. SetupsAreCounted'
      <3>1. setups[u] <= resets[u] /\ setups[u] \in Nat /\ resets[u] \in Nat
        BY <1>0, <1>2 DEF AccountsInv, SetupsAreCounted, AccountsTypeOK
      <3> SUFFICES ASSUME NEW v \in Seeders
                   PROVE  /\ ~Exists(v)' => setups'[v] = 0
                          /\ Pending(v)' => setups'[v] <= resets'[v]
                          /\ Exists(v)' /\ ~Pending(v)' => setups'[v] \in 1..(resets'[v] + 1)
        BY DEF SetupsAreCounted
      <3>2. CASE v = u
        BY <1>1, <1>2, <2>4, <2>5, <2>7, <3>1, <3>2
      <3>3. CASE v # u
        <4>1. /\ setups'[v] = setups[v] /\ resets'[v] = resets[v]
              /\ (Exists(v)' <=> Exists(v)) /\ (Pending(v)' <=> Pending(v))
          BY <1>1, <2>4, <2>5, <2>7, <3>3
        <4> QED BY <4>1 DEF AccountsInv, SetupsAreCounted
      <3> QED BY <3>2, <3>3
    <2>13. PublishedIsPending'
      BY <1>1, <2>3, <2>4 DEF AccountsInv, PublishedIsPending
    <2> QED
      BY <2>4, <2>8, <2>9, <2>10, <2>11, <2>12, <2>13 DEF AccountsInv, AccountsCore
  <1> QED BY <1>3, <1>4

LEMMA ResetMoves ==
  ASSUME AccountsInv, NEW new \in ResetRow, reset' = new, new.at # "idle" => new.user \in Present,
         UNCHANGED <<users, seeding, sessions, signing, page, setup, tokens, asking, resets, setups, owning, owned>>
  PROVE  AccountsInv'
  <1>1. AccountsTypeOK'
    BY DEF AccountsInv, AccountsCore, AccountsTypeOK, ResetRow
  <1>2. NamedAccountsExist'
    BY AccountRowsStay DEF AccountsInv, NamedAccountsExist
  <1>3. /\ LockedIsPending' /\ SetupsAreValidated' /\ OwnersWereSetUp' /\ SeededHasAccount'
        /\ AccountsHaveSeeders'
    BY AccountRowsStay DEF AccountsInv, AccountsCore, LockedIsPending, SetupsAreValidated,
      OwnersWereSetUp, SeededHasAccount, AccountsHaveSeeders, Renamed
  <1> QED
    BY <1>1, <1>2, <1>3, AccountRowsStay, CountsStay DEF AccountsInv, AccountsCore

LEMMA ResetSteps ==
  ASSUME AccountsInv, (\E u \in Seeders : ResetFind(u)) \/ ResetCredential
  PROVE  AccountsInv'
  <1>1. ASSUME NEW u \in Seeders, ResetFind(u) PROVE AccountsInv'
    <2> DEFINE new == [at |-> "hash", user |-> u]
    <2>1. new \in ResetRow /\ new.user \in Present
      BY <1>1 DEF ResetRow, ResetFind, Present
    <2> QED BY <1>1, <2>1, ResetMoves DEF ResetFind
  <1>2. CASE ResetCredential
    <2> DEFINE new == [reset EXCEPT !.at = "credential"]
    <2>1. reset \in ResetRow /\ reset.user \in Present
      BY <1>2 DEF AccountsInv, AccountsCore, AccountsTypeOK, ResetRow, ResetCredential, NamedAccountsExist
    <2>2. new \in ResetRow /\ new.user = reset.user
      BY <2>1 DEF ResetRow
    <2> HIDE DEF new
    <2> QED BY <1>2, <2>1, <2>2, ResetMoves DEF ResetCredential, new
  <1> QED BY <1>1, <1>2

LEMMA DeadlockStep ==
  ASSUME AccountsInv, NEW b \in Browsers, DeadlockDetected(b)
  PROVE  AccountsInv'
  <1>1. NoReset \in ResetRow /\ NoReset.at = "idle"
    BY DEF NoReset, ResetRow
  <1>2. CASE SetupAnswered(b, "error") /\ UNCHANGED reset
    BY <1>2, SetupEnds DEF DeadlockDetected
  <1>3. CASE reset' = NoReset /\ UNCHANGED <<setup, page>>
    BY <1>1, <1>3, ResetMoves DEF DeadlockDetected
  <1> QED BY <1>2, <1>3 DEF DeadlockDetected

\* The commit of a reset: nobody holds the account's lock; it is pending again.
LEMMA ResetCommitStep ==
  ASSUME AccountsInv, ResetCommit
  PROVE  AccountsInv'
  <1> USE AccountsAssumption
  <1>0. AccountsTypeOK
    BY DEF AccountsInv, AccountsCore
  <1>1. PICK u \in Seeders : u = reset.user /\ Exists(u)
    BY DEF ResetCommit, AccountsInv, NamedAccountsExist, Present
  <1> DEFINE row == [users[u] EXCEPT !.password = "temporary", !.pending = TRUE]
  <1>2. /\ UNCHANGED <<seeding, signing, page, setup, tokens, asking, setups, owning, owned>>
        /\ \A b \in Browsers : ~Locks(b, u)
        /\ sessions' = [b \in Browsers |-> IF sessions[b] = u THEN Missing ELSE sessions[b]]
        /\ resets' = [resets EXCEPT ![u] = @ + 1]
        /\ users' = [users EXCEPT ![u].password = "temporary", ![u].pending = TRUE]
        /\ reset' = NoReset
    BY <1>1 DEF ResetCommit
  <1>3. users \in [Seeders -> Accounts \cup {Missing}] /\ users[u] \in Accounts
    BY <1>0, <1>1 DEF AccountsTypeOK, Exists
  <1>4. users' = [users EXCEPT ![u] = row]
    BY <1>1, <1>2, <1>3
  <1>5. /\ row \in Accounts /\ row.username = users[u].username /\ row.email = users[u].email
        /\ row.password = "temporary" /\ row.pending = TRUE
    BY <1>3 DEF Accounts, Passwords
  <1> HIDE DEF row
  <1>6. Unique(u, row.email, row.username)
    BY <1>1, <1>5 DEF AccountsInv, AccountsCore, RowsAreUnique, Unique, Present
  <1>7. /\ users' \in [Seeders -> Accounts \cup {Missing}]
        /\ \A v \in Seeders : users'[v] = IF v = u THEN row ELSE users[v]
        /\ \A v \in Seeders : Exists(v)' <=> Exists(v)
        /\ Present' = Present /\ RowsAreUnique' /\ AccountsHaveSeeders' /\ SeededHasAccount'
    BY <1>1, <1>2, <1>4, <1>5, <1>6, AccountMoves
  <1>8. Pending(u)' /\ \A v \in Seeders : v # u => (Pending(v)' <=> Pending(v))
    BY <1>1, <1>5, <1>7 DEF Pending, Exists
  <1>9. /\ resets' \in [Seeders -> Nat]
        /\ \A v \in Seeders : resets'[v] = IF v = u THEN resets[u] + 1 ELSE resets[v]
    BY <1>0, <1>2 DEF AccountsTypeOK
  <1>10. NoReset \in ResetRow /\ NoReset.at = "idle"
    BY DEF NoReset, ResetRow
  <1>11. AccountsTypeOK'
    <2>1. sessions' \in [Browsers -> Seeders \cup {Missing}]
      BY <1>0, <1>2 DEF AccountsTypeOK
    <2> QED BY <1>0, <1>2, <1>7, <1>9, <1>10, <2>1 DEF AccountsTypeOK, ResetRow
  <1>12. LockedIsPending'
    <2> SUFFICES ASSUME NEW c \in Browsers, setup[c].at = "locked"
                 PROVE  /\ setup[c].user \in Seeders
                        /\ users'[setup[c].user] # Missing /\ users'[setup[c].user].pending
                        /\ \A d \in Browsers \ {c} :
                             ~(setup[d].at = "locked" /\ setup[d].user = setup[c].user)
      BY <1>2 DEF LockedIsPending, Pending, Exists
    <2>1. /\ setup[c].user \in Seeders /\ Pending(setup[c].user) /\ setup[c].user # u
          /\ \A d \in Browsers \ {c} : ~(setup[d].at = "locked" /\ setup[d].user = setup[c].user)
      BY <1>2 DEF AccountsInv, AccountsCore, LockedIsPending, Locks
    <2>2. users'[setup[c].user] = users[setup[c].user]
      BY <1>7, <2>1
    <2> QED BY <2>1, <2>2 DEF Pending, Exists
  <1>13. SetupsAreValidated' /\ OwnersWereSetUp'
    BY <1>2 DEF AccountsInv, SetupsAreValidated, OwnersWereSetUp
  <1>14. NamedAccountsExist'
    <2>1. \A b \in Browsers : sessions'[b] # Missing => sessions'[b] = sessions[b]
      BY <1>2
    <2>2. \A b \in Browsers : \A v \in {sessions'[b], signing'[b], owning'[b]} :
            v # Missing => v \in Seeders /\ Exists(v)
      BY <1>0, <1>2, <2>1 DEF AccountsInv, NamedAccountsExist, AccountsTypeOK
    <2>3. \A b \in Browsers : \A v \in {sessions'[b], signing'[b], owning'[b]} : v # Missing => users'[v] # Missing
      BY <1>7, <2>2 DEF Exists
    <2> QED BY <1>2, <1>10, <2>3 DEF NamedAccountsExist, Exists
  <1>15. SetupsAreCounted'
    <2>0. setups[u] \in Nat /\ resets[u] \in Nat
      BY <1>0 DEF AccountsTypeOK
    <2>1. setups[u] <= resets[u] + 1
      BY <1>1, <2>0 DEF AccountsInv, SetupsAreCounted
    <2> SUFFICES ASSUME NEW v \in Seeders
                 PROVE  /\ ~Exists(v)' => setups'[v] = 0
                        /\ Pending(v)' => setups'[v] <= resets'[v]
                        /\ Exists(v)' /\ ~Pending(v)' => setups'[v] \in 1..(resets'[v] + 1)
      BY DEF SetupsAreCounted
    <2>2. CASE v = u
      BY <1>1, <1>2, <1>7, <1>8, <1>9, <2>1, <2>2
    <2>3. CASE v # u
      <3>1. /\ setups'[v] = setups[v] /\ resets'[v] = resets[v]
            /\ (Exists(v)' <=> Exists(v)) /\ (Pending(v)' <=> Pending(v))
        BY <1>2, <1>7, <1>8, <1>9, <2>3
      <3> QED BY <3>1 DEF AccountsInv, SetupsAreCounted
    <2> QED BY <2>2, <2>3
  <1>16. PublishedIsPending'
    BY <1>2, <1>5, <1>7 DEF AccountsInv, PublishedIsPending, Exists
  <1> QED
    BY <1>7, <1>11, <1>12, <1>13, <1>14, <1>15, <1>16 DEF AccountsInv, AccountsCore

\* A token is created for the account that passed getApiSession, which had been
\* set up; no reset takes that back.
LEMMA TokenSteps ==
  ASSUME AccountsInv, NEW b \in Browsers,
         AskTokens(b) \/ \E t \in TokenIds : CreateToken(b, t) \/ RevokeToken(b, t)
  PROVE  AccountsInv'
  <1> USE AccountsAssumption
  <1>0. AccountsTypeOK
    BY DEF AccountsInv, AccountsCore
  <1>1. UNCHANGED <<users, seeding, sessions, signing, page, setup, reset, resets, setups, owning, owned>>
    BY DEF AskTokens, CreateToken, RevokeToken
  <1>2. asking \in [Browsers -> Seeders \cup {Missing}] /\ tokens \in [TokenIds -> TokenRow]
    BY <1>0 DEF AccountsTypeOK, TokenRow
  <1>3. ApiSession(b) # Missing => ApiSession(b) \in Seeders /\ setups[ApiSession(b)] > 0
    <2> SUFFICES ASSUME ApiSession(b) # Missing PROVE ApiSession(b) \in Seeders /\ setups[ApiSession(b)] > 0
      OBVIOUS
    <2>1. ApiSession(b) = sessions[b] /\ ~Pending(sessions[b])
      BY DEF ApiSession
    <2>2. sessions[b] \in Seeders /\ Exists(sessions[b])
      BY <1>0, <2>1 DEF AccountsTypeOK, AccountsInv, NamedAccountsExist
    <2>3. setups[sessions[b]] \in 1..(resets[sessions[b]] + 1) /\ resets[sessions[b]] \in Nat
      BY <1>0, <2>1, <2>2 DEF AccountsInv, SetupsAreCounted, AccountsTypeOK
    <2> QED BY <2>1, <2>2, <2>3
  <1>4. /\ asking' \in [Browsers -> Seeders \cup {Missing}] /\ tokens' \in [TokenIds -> TokenRow]
        /\ OwnersWereSetUp'
    <2>1. CASE AskTokens(b)
      <3>1. tokens' = tokens /\ asking' = [asking EXCEPT ![b] = ApiSession(b)] /\ ApiSession(b) # Missing
        BY <2>1 DEF AskTokens
      <3> HIDE DEF ApiSession
      <3> QED BY <1>1, <1>2, <1>3, <3>1 DEF AccountsInv, OwnersWereSetUp
    <2>2. ASSUME NEW t \in TokenIds, CreateToken(b, t) \/ RevokeToken(b, t)
          PROVE  /\ asking' \in [Browsers -> Seeders \cup {Missing}] /\ tokens' \in [TokenIds -> TokenRow]
                 /\ OwnersWereSetUp'
      <3>1. asking' = [asking EXCEPT ![b] = Missing] /\ asking[b] # Missing
        BY <2>2 DEF CreateToken, RevokeToken
      <3>2. tokens[t] \in TokenRow /\ asking[b] \in Seeders
        BY <1>2, <3>1
      <3>3. PICK new \in TokenRow : /\ tokens' = [tokens EXCEPT ![t] = new]
                                    /\ new.owner \in {tokens[t].owner, asking[b]}
        <4>1. CASE UNCHANGED tokens
          BY <1>2, <3>2, <4>1
        <4>2. CASE tokens' = [tokens EXCEPT ![t].owner = asking[b]]
          <5> DEFINE n == [tokens[t] EXCEPT !.owner = asking[b]]
          <5>1. n \in TokenRow /\ n.owner = asking[b]
            BY <3>2 DEF TokenRow
          <5>2. tokens' = [tokens EXCEPT ![t] = n]
            BY <4>2
          <5> QED BY <5>1, <5>2
        <4>3. CASE tokens' = [tokens EXCEPT ![t].revoked = @ \/ tokens[t].owner = asking[b]]
          <5> DEFINE n == [tokens[t] EXCEPT !.revoked = tokens[t].revoked \/ tokens[t].owner = asking[b]]
          <5>1. n \in TokenRow /\ n.owner = tokens[t].owner
            BY <3>2 DEF TokenRow
          <5>2. tokens' = [tokens EXCEPT ![t] = n]
            BY <4>3
          <5> QED BY <5>1, <5>2
        <4> QED BY <2>2, <4>1, <4>2, <4>3 DEF CreateToken, RevokeToken
      <3>4. /\ asking' \in [Browsers -> Seeders \cup {Missing}] /\ tokens' \in [TokenIds -> TokenRow]
            /\ \A c \in Browsers : asking'[c] = IF c = b THEN Missing ELSE asking[c]
            /\ \A s \in TokenIds : tokens'[s] = IF s = t THEN new ELSE tokens[s]
        BY <1>2, <3>1, <3>3
      <3> QED BY <1>1, <3>1, <3>3, <3>4 DEF AccountsInv, OwnersWereSetUp
    <2> QED BY <2>1, <2>2
  <1>5. AccountsTypeOK'
    BY <1>0, <1>1, <1>4 DEF AccountsTypeOK, TokenRow
  <1>6. /\ LockedIsPending' /\ SetupsAreValidated' /\ NamedAccountsExist' /\ SeededHasAccount'
        /\ AccountsHaveSeeders'
    BY <1>1, AccountRowsStay DEF AccountsInv, AccountsCore, LockedIsPending, SetupsAreValidated,
      NamedAccountsExist, SeededHasAccount, AccountsHaveSeeders, Renamed
  <1> QED
    BY <1>1, <1>4, <1>5, <1>6, AccountRowsStay, CountsStay DEF AccountsInv, AccountsCore

\* An owner's write leaves the account existing, pending or not as it was, and
\* unique, and is recorded.
LEMMA OwnerWrites ==
  ASSUME AccountsInv, NEW b \in Browsers, NEW u \in Seeders, NEW row \in Accounts, NEW f \in {"password", "username"},
         u = owning[b], Exists(u), users' = [users EXCEPT ![u] = row],
         row.pending = users[u].pending, Unique(u, row.email, row.username),
         f = "username" \/ row.username = users[u].username,
         f = "password" \/ row.password = users[u].password,
         owned' = owned \cup {<<u, f>>}, owning' = [owning EXCEPT ![b] = Missing],
         UNCHANGED <<seeding, sessions, signing, page, setup, reset, tokens, asking, resets, setups>>
  PROVE  AccountsInv'
  <1> USE AccountsAssumption
  <1>0. AccountsTypeOK
    BY DEF AccountsInv, AccountsCore
  <1>1. /\ users' \in [Seeders -> Accounts \cup {Missing}]
        /\ \A v \in Seeders : users'[v] = IF v = u THEN row ELSE users[v]
        /\ \A v \in Seeders : Exists(v)' <=> Exists(v)
        /\ Present' = Present /\ RowsAreUnique' /\ AccountsHaveSeeders' /\ SeededHasAccount'
    BY AccountMoves
  <1>2. \A v \in Seeders : Pending(v)' <=> Pending(v)
    BY <1>1 DEF Pending, Exists
  <1>3. /\ owning' \in [Browsers -> Seeders \cup {Missing}] /\ owned' \subseteq Seeders \X {"password", "username"}
        /\ \A c \in Browsers : owning'[c] = IF c = b THEN Missing ELSE owning[c]
    BY <1>0 DEF AccountsTypeOK
  <1>4. AccountsTypeOK'
    BY <1>0, <1>1, <1>3 DEF AccountsTypeOK
  <1>5. LockedIsPending' /\ SetupsAreValidated' /\ OwnersWereSetUp'
    BY <1>2 DEF AccountsInv, AccountsCore, LockedIsPending, SetupsAreValidated, OwnersWereSetUp
  <1>6. NamedAccountsExist'
    BY <1>0, <1>1, <1>3 DEF AccountsTypeOK, AccountsInv, NamedAccountsExist
  <1>7. SetupsAreCounted'
    BY <1>1, <1>2 DEF AccountsInv, SetupsAreCounted
  <1>8. PublishedIsPending'
    BY <1>1 DEF AccountsInv, PublishedIsPending, Exists
  <1> QED BY <1>1, <1>4, <1>5, <1>6, <1>7, <1>8 DEF AccountsInv, AccountsCore

\* The steps of Better Auth's endpoints.
LEMMA OwnerSteps == ASSUME AccountsInv, NEW b \in Browsers, OwnerStep(b) PROVE AccountsInv'
  <1> USE AccountsAssumption
  <1>0. AccountsTypeOK
    BY DEF AccountsInv, AccountsCore
  <1>1. CASE AskBetterAuth(b) \/ RefusedByBetterAuth(b)
    <2>1. UNCHANGED <<users, seeding, sessions, signing, page, setup, reset, tokens, asking, resets, setups, owned>>
      BY <1>1 DEF AskBetterAuth, RefusedByBetterAuth
    <2>2. PICK u \in {sessions[b], Missing} : owning' = [owning EXCEPT ![b] = u]
      BY <1>1 DEF AskBetterAuth, RefusedByBetterAuth
    <2>3. /\ owning' \in [Browsers -> Seeders \cup {Missing}]
          /\ \A c \in Browsers : owning'[c] = IF c = b THEN u ELSE owning[c]
      BY <1>0, <2>2 DEF AccountsTypeOK
    <2>4. AccountsTypeOK'
      BY <1>0, <2>1, <2>3 DEF AccountsTypeOK
    <2>5. NamedAccountsExist'
      BY <1>0, <2>1, <2>3, AccountRowsStay DEF AccountsTypeOK, AccountsInv, NamedAccountsExist
    <2>6. LockedIsPending' /\ SetupsAreValidated' /\ OwnersWereSetUp' /\ SeededHasAccount' /\ AccountsHaveSeeders'
      BY <2>1, AccountRowsStay DEF AccountsInv, AccountsCore, LockedIsPending, SetupsAreValidated,
        OwnersWereSetUp, SeededHasAccount, AccountsHaveSeeders, Renamed
    <2>7. RowsAreUnique' /\ PublishedIsPending'
      BY <2>1, AccountRowsStay
    <2>8. SetupsAreCounted'
      BY <2>1, CountsStay
    <2> QED BY <2>4, <2>5, <2>6, <2>7, <2>8 DEF AccountsInv, AccountsCore
  <1>2. ASSUME owning[b] # Missing PROVE /\ owning[b] \in Seeders /\ Exists(owning[b]) /\ users[owning[b]] \in Accounts
                                         /\ users \in [Seeders -> Accounts \cup {Missing}]
    BY <1>0, <1>2 DEF AccountsTypeOK, AccountsInv, NamedAccountsExist, Exists
  <1>3. ASSUME NEW p \in {"published", "chosen"}, ChangePassword(b, p) PROVE AccountsInv'
    <2>1. PICK u \in Seeders : u = owning[b] /\ Exists(u) /\ users[u] \in Accounts
      BY <1>2, <1>3 DEF ChangePassword
    <2>2. PICK row : row = [users[u] EXCEPT !.password = p]
      OBVIOUS
    <2>3. /\ row \in Accounts /\ row.pending = users[u].pending /\ row.username = users[u].username
          /\ row.email = users[u].email
      BY <2>1, <2>2 DEF Accounts, Passwords
    <2>4. Unique(u, row.email, row.username)
      BY <2>1, <2>3 DEF AccountsInv, AccountsCore, RowsAreUnique, Unique, Present
    <2>5. users' = [users EXCEPT ![u] = row]
      BY <1>2, <1>3, <2>1, <2>2 DEF ChangePassword
    <2>6. /\ owned' = owned \cup {<<u, "password">>} /\ owning' = [owning EXCEPT ![b] = Missing]
          /\ UNCHANGED <<seeding, sessions, signing, page, setup, reset, tokens, asking, resets, setups>>
      BY <1>3, <2>1 DEF ChangePassword
    <2> QED BY <2>1, <2>3, <2>4, <2>5, <2>6, OwnerWrites
  <1>4. ASSUME NEW n \in Usernames, UpdateUser(b, n) PROVE AccountsInv'
    <2>1. PICK u \in Seeders : u = owning[b] /\ Exists(u) /\ users[u] \in Accounts
      BY <1>2, <1>4 DEF UpdateUser
    <2>2. PICK row : row = [users[u] EXCEPT !.username = n]
      OBVIOUS
    <2>3. /\ row \in Accounts /\ row.pending = users[u].pending /\ row.password = users[u].password
          /\ row.email = users[u].email /\ row.username = n
      BY <2>1, <2>2 DEF Accounts
    <2>4. Unique(u, row.email, row.username)
      BY <1>4, <2>1, <2>3 DEF UpdateUser
    <2>5. users' = [users EXCEPT ![u] = row]
      BY <1>2, <1>4, <2>1, <2>2 DEF UpdateUser
    <2>6. /\ owned' = owned \cup {<<u, "username">>} /\ owning' = [owning EXCEPT ![b] = Missing]
          /\ UNCHANGED <<seeding, sessions, signing, page, setup, reset, tokens, asking, resets, setups>>
      BY <1>4, <2>1 DEF UpdateUser
    <2> QED BY <2>1, <2>3, <2>4, <2>5, <2>6, OwnerWrites
  <1> QED BY <1>1, <1>3, <1>4 DEF OwnerStep

LEMMA AccountsNextInv == AccountsInv /\ [AccountsNext]_accountVars => AccountsInv'
  <1> SUFFICES ASSUME AccountsInv, [AccountsNext]_accountVars PROVE AccountsInv'
    OBVIOUS
  <1>1. CASE UNCHANGED accountVars
    BY <1>1, AccountRowsStay, CountsStay DEF accountVars, AccountsInv, AccountsCore, AccountsTypeOK,
      LockedIsPending, SetupsAreValidated, NamedAccountsExist, SeededHasAccount, AccountsHaveSeeders, Renamed,
      OwnersWereSetUp
  <1>2. ASSUME NEW s \in Seeders, SeedStart(s) \/ SeedRead(s) \/ SeedInsert(s) PROVE AccountsInv'
    BY <1>2, SeedSteps, SeedInsertStep
  <1>3. ASSUME NEW b \in Browsers,
               (\E u \in Seeders : SignIn(b, u)) \/ SignedIn(b) \/ Visit(b) \/ SessionEnds(b)
        PROVE  AccountsInv'
    BY <1>3, SessionSteps
  <1>4. ASSUME NEW b \in Browsers,
               \/ \E e \in Emails \cup {Malformed}, p \in {"published", "weak", "chosen"} : Submit(b, e, p)
               \/ SetupStep(b) \/ DeadlockDetected(b)
        PROVE  AccountsInv'
    BY <1>4, SetupSteps, SetupWriteStep, DeadlockStep DEF SetupStep
  <1>5. ASSUME NEW b \in Browsers,
               AskTokens(b) \/ \E t \in TokenIds : CreateToken(b, t) \/ RevokeToken(b, t)
        PROVE  AccountsInv'
    BY <1>5, TokenSteps
  <1>6. CASE (\E u \in Seeders : ResetFind(u)) \/ ResetStep
    BY <1>6, ResetSteps, ResetCommitStep DEF ResetStep
  <1>7. ASSUME NEW b \in Browsers, OwnerStep(b) PROVE AccountsInv'
    BY <1>7, OwnerSteps
  <1> QED BY <1>1, <1>2, <1>3, <1>4, <1>5, <1>6, <1>7 DEF AccountsNext

\* The inductive invariant of the accounts, over every interleaving of seeders,
\* browsers and the reset script.
THEOREM AccountsInvHolds == AccountsSpec => []AccountsInv
  BY AccountsInitInv, AccountsNextInv, PTL DEF AccountsSpec

\* Seeders that race with one identity create one account, unless an owner has
\* renamed it through Better Auth by then (ensureFirstAdmin).
THEOREM SeedersCreateOneAccount == AccountsSpec => []OneAccountPerIdentity
  <1>1. AccountsInv => OneAccountPerIdentity
    BY DEF AccountsInv, AccountsCore, AccountsHaveSeeders, RowsAreUnique, OneAccountPerIdentity, Present
  <1> QED BY <1>1, AccountsInvHolds, PTL

\* However many browsers submit /welcome at once, one of them sets the account
\* up, and one more after each reset (completeAdminSetup's FOR UPDATE).
THEOREM OneSetupPerReset == AccountsSpec => []SetupOncePerReset
  <1>1. AccountsInv => SetupOncePerReset
    <2> SUFFICES ASSUME AccountsInv, NEW u \in Seeders PROVE setups[u] <= resets[u] + 1
      BY DEF SetupOncePerReset
    <2>1. setups[u] \in Nat /\ resets[u] \in Nat
      BY DEF AccountsInv, AccountsCore, AccountsTypeOK
    <2>2. (~Exists(u) => setups[u] = 0) /\ (Pending(u) => setups[u] <= resets[u])
          /\ (Exists(u) /\ ~Pending(u) => setups[u] \in 1..(resets[u] + 1))
      BY DEF AccountsInv, SetupsAreCounted
    <2> QED BY <2>1, <2>2
  <1> QED BY <1>1, AccountsInvHolds, PTL

\* Seeding, setup and reset never leave an account with the published password
\* past /welcome; only an owner could choose it again, through Better Auth.
THEOREM PublishedPasswordIsPending == AccountsSpec => []PublishedIsPending
  <1>1. AccountsInv => PublishedIsPending
    BY DEF AccountsInv
  <1> QED BY <1>1, AccountsInvHolds, PTL

\* Every live token belongs to an account that has been set up (getApiSession,
\* authenticateApiToken), also across a reset.
THEOREM TokensBelongToSetUpAccounts == AccountsSpec => []TokenOwnersWereSetUp
  <1>1. AccountsInv => TokenOwnersWereSetUp
    BY DEF AccountsInv, AccountsCore, AccountsTypeOK, OwnersWereSetUp, TokenOwnersWereSetUp,
      authenticateApiToken
  <1> QED BY <1>1, AccountsInvHolds, PTL

\* The rows of users satisfy their unique indexes, a transaction past its row
\* lock writes a pending account alone, a seeder leaves an account behind, and
\* all of the above.
THEOREM AccountsStayConsistent == AccountsSpec => []AccountsInvariant
  <1>1. AccountsInv => AccountsCore
    BY DEF AccountsInv
  <1> QED
    BY <1>1, AccountsInvHolds, SeedersCreateOneAccount, OneSetupPerReset, PublishedPasswordIsPending,
      TokensBelongToSetUpAccounts, PTL DEF AccountsCore, AccountsInvariant

\* An established account is changed only by a reset and by its own signed-in
\* owner, who leaves the address and the obligation alone: completeAdminSetup
\* writes a row that it has locked and found pending.
THEOREM OnlyResetOrOwnerChangesEstablished == AccountsSpec => EstablishedChangesByResetOrOwner
  <1> DEFINE ByReset(u) == reset.user = u /\ users'[u] = [users[u] EXCEPT !.password = "temporary", !.pending = TRUE]
             ByOwner(u) == /\ \E b \in Browsers : owning[b] = u
                           /\ \/ \E p \in Passwords : users'[u] = [users[u] EXCEPT !.password = p]
                              \/ \E n \in Usernames : users'[u] = [users[u] EXCEPT !.username = n]
             Kept == \A u \in Seeders : Exists(u) /\ ~users[u].pending =>
                       \/ users'[u] = users[u]
                       \/ reset.user = u /\ users'[u] = [users[u] EXCEPT !.password = "temporary", !.pending = TRUE]
                       \/ /\ \E b \in Browsers : owning[b] = u
                          /\ \/ \E p \in Passwords : users'[u] = [users[u] EXCEPT !.password = p]
                             \/ \E n \in Usernames : users'[u] = [users[u] EXCEPT !.username = n]
  <1>1. AccountsInv /\ [AccountsNext]_accountVars => [Kept]_accountVars
    <2> SUFFICES ASSUME AccountsInv, AccountsNext, NEW u \in Seeders, Exists(u), ~users[u].pending
                 PROVE  users'[u] = users[u] \/ ByReset(u) \/ ByOwner(u)
      OBVIOUS
    <2>0. users \in [Seeders -> Accounts \cup {Missing}]
      BY DEF AccountsInv, AccountsCore, AccountsTypeOK
    <2>1. CASE UNCHANGED users
      BY <2>1
    <2>2. ASSUME NEW s \in Seeders, SeedInsert(s) PROVE users'[u] = users[u]
      <3>1. u # s
        BY <2>2 DEF SeedInsert, AccountsInv, AccountsHaveSeeders
      <3> QED BY <2>0, <2>2, <3>1 DEF SeedInsert
    <2>3. ASSUME NEW b \in Browsers, SetupWrite(b) PROVE users'[u] = users[u]
      <3>1. setup[b].user # u
        BY <2>3 DEF SetupWrite, AccountsInv, AccountsCore, LockedIsPending, Pending
      <3> QED BY <2>0, <2>3, <3>1 DEF SetupWrite
    <2>4. ASSUME ResetCommit PROVE users'[u] = users[u] \/ ByReset(u)
      BY <2>0, <2>4 DEF ResetCommit
    <2>5. ASSUME NEW b \in Browsers, NEW p \in {"published", "chosen"}, ChangePassword(b, p)
          PROVE  users'[u] = users[u] \/ ByOwner(u)
      <3>1. p \in Passwords
        BY DEF Passwords
      <3>2. CASE owning[b] = u
        BY <2>0, <2>5, <3>1, <3>2 DEF ChangePassword
      <3>3. CASE owning[b] # u
        BY <2>0, <2>5, <3>3 DEF ChangePassword
      <3> QED BY <3>2, <3>3
    <2>6. ASSUME NEW b \in Browsers, NEW n \in Usernames, UpdateUser(b, n)
          PROVE  users'[u] = users[u] \/ ByOwner(u)
      <3>1. CASE owning[b] = u
        BY <2>0, <2>6, <3>1 DEF UpdateUser
      <3>2. CASE owning[b] # u
        BY <2>0, <2>6, <3>2 DEF UpdateUser
      <3> QED BY <3>1, <3>2
    <2> HIDE DEF ByReset, ByOwner
    <2> QED
      BY <2>1, <2>2, <2>3, <2>4, <2>5, <2>6 DEF AccountsNext, SeedStart, SeedRead, SignIn, SignedIn, Visit, SessionEnds,
        Submit, SetupStep, SetupCheck, SetupLock, DeadlockDetected, AskTokens, CreateToken, RevokeToken,
        ResetFind, ResetStep, ResetCredential, OwnerStep, AskBetterAuth, RefusedByBetterAuth
  <1>2. AccountsSpec => [][Kept]_accountVars
    BY <1>1, AccountsInvHolds, PTL DEF AccountsSpec
  <1> QED BY <1>2 DEF EstablishedChangesByResetOrOwner

-----------------------------------------------------------------------------
(* SystemPages: what the system page shows was true, and the last saved *)
(* retention period is the one in force. *)

Requests == [at : {"none", "session", "probing", "failed", "answered", "received"}, found : [Probes -> Findings]]

\* Only the last load can be under way, and the page waits for it.
OneLoadAtATime ==
  /\ \A l \in Loads : request[l].at \notin {"none", "received"} => l = loads /\ view.status = "loading"
  /\ view.status = "ready" => view.load \in Loads

\* A component that is ok, or that a probe of a load found so, was ok at an
\* instant of that load.
FoundWasOk ==
  /\ \A l \in Loads : l <= loads => \A c \in Parts : condition[c] = "ok" => c \in wasOk[l]
  /\ \A l \in Loads : \A p \in Probes : request[l].found[p] = "healthy" => Probed(p) \in wasOk[l] /\ l <= loads

\* What the last writer has stored, and is still to be told, is in force; a page
\* with a submission under way shows no outcome of an earlier one.
WriterKnowsRow ==
  /\ \A p, q \in lastWriter : p = q
  /\ \A p \in lastWriter : /\ storedDays \in Nat
                           /\ saving[p].at = "stored" => saving[p].days = storedDays
  /\ \A p \in Pages : saving[p].at # "no" => saveState[p] = "idle"
  /\ \A p \in Pages : saving[p].at = "stored" => saving[p].days \in Nat

PagesInv == PagesInvariant /\ OneLoadAtATime /\ FoundWasOk /\ WriterKnowsRow

\* The parts of the invariant about the two pages.
HealthTypeOK ==
  /\ condition \in [Parts -> {"ok", "bad", "silent"}]
  /\ loads \in Loads \cup {0}
  /\ request \in [Loads -> Requests]
  /\ wasOk \in [Loads -> SUBSET Parts]
  /\ view \in [status : {"closed", "loading", "ready", "error"}, load : Loads \cup {0}, healthy : BOOLEAN]
  /\ changes \in Nat
HealthInv == HealthTypeOK /\ ViewIsCurrent /\ HealthyWasOk /\ OneLoadAtATime /\ FoundWasOk

Savings == Submitted \cup {NotSaving, Refused}
SettingsTypeOK ==
  /\ storedDays \in (Nat \ {0}) \cup {NoDays}
  /\ shown \in [Pages -> Nat \cup {NoDays}] /\ field \in [Pages -> Nat]
  /\ saving \in [Pages -> Savings]
  /\ saveState \in [Pages -> {"idle", "saved", "error"}]
  /\ abandoned \subseteq Abandoned /\ lastWriter \subseteq Pages /\ saves \in Nat
SettingsInv == SettingsTypeOK /\ LastSaveIsInForce /\ WriterKnowsRow

LEMMA PagesInvParts == PagesInv <=> HealthInv /\ SettingsInv
  BY DEF PagesInv, PagesInvariant, PagesTypeOK, HealthInv, HealthTypeOK, SettingsInv, SettingsTypeOK, Requests, Savings

LEMMA PagesInitInv == PagesInit => PagesInv
  <1> SUFFICES ASSUME PagesInit PROVE HealthInv /\ SettingsInv
    BY PagesInvParts
  <1> USE DEF PagesInit
  <1>1. HealthTypeOK
    BY DEF HealthTypeOK, Requests, Unasked, Findings
  <1>2. \A l \in Loads : request[l].at = "none" /\ \A p \in Probes : request[l].found[p] = "pending"
    BY DEF Unasked
  <1>3. \A l \in Loads : ~(l <= loads)
    BY PagesAssumption DEF Loads
  <1>4. HealthInv
    BY <1>1, <1>2, <1>3 DEF HealthInv, ViewIsCurrent, HealthyWasOk, OneLoadAtATime, FoundWasOk
  <1>5. SettingsInv
    BY DEF SettingsInv, SettingsTypeOK, Savings, NotSaving, LastSaveIsInForce, WriterKnowsRow
  <1> QED BY <1>4, <1>5

LEMMA HealthKept == ASSUME HealthInv, UNCHANGED healthVars PROVE HealthInv'
  BY DEF healthVars, HealthInv, HealthTypeOK, ViewIsCurrent, HealthyWasOk, OneLoadAtATime, FoundWasOk

LEMMA SettingsKept == ASSUME SettingsInv, UNCHANGED settingsVars PROVE SettingsInv'
  BY DEF settingsVars, SettingsInv, SettingsTypeOK, LastSaveIsInForce, WriterKnowsRow

\* What is probed changes: loads up to the last one see an instant more.
LEMMA ChangeInv ==
  ASSUME HealthInv, NEW c \in Parts, NEW to \in {"ok", "bad", "silent"}, Change(c, to)
  PROVE  HealthInv'
  <1> USE DEF HealthInv
  <1>1. /\ condition' = [condition EXCEPT ![c] = to]
        /\ wasOk' = [l \in Loads |-> IF to = "ok" /\ l <= loads THEN wasOk[l] \cup {c} ELSE wasOk[l]]
        /\ changes' = changes + 1 /\ UNCHANGED <<loads, request, view>>
    BY DEF Change
  <1>2. HealthTypeOK'
    BY <1>1 DEF HealthTypeOK
  <1>3. \A l \in Loads : wasOk[l] \subseteq wasOk'[l] /\ wasOk'[l] \subseteq Parts
    BY <1>1 DEF HealthTypeOK
  <1>4. HealthyWasOk'
    <2> SUFFICES ASSUME view.status = "ready", view.healthy PROVE wasOk'[view.load] = Parts
      BY <1>1 DEF HealthyWasOk
    <2>1. wasOk[view.load] = Parts
      BY DEF HealthyWasOk
    <2>2. view.load \in Loads
      BY DEF OneLoadAtATime
    <2> QED BY <1>3, <2>1, <2>2
  <1>5. FoundWasOk'
    <2>1. ASSUME NEW l \in Loads, l <= loads, NEW d \in Parts, condition'[d] = "ok" PROVE d \in wasOk'[l]
      <3>1. CASE d = c
        BY <1>1, <2>1, <3>1 DEF HealthTypeOK
      <3>2. CASE d # c
        BY <1>1, <1>3, <2>1, <3>2 DEF HealthTypeOK, FoundWasOk
      <3> QED BY <3>1, <3>2
    <2>2. ASSUME NEW l \in Loads, NEW p \in Probes, request[l].found[p] = "healthy"
          PROVE  Probed(p) \in wasOk'[l] /\ l <= loads
      BY <1>3, <2>2 DEF FoundWasOk
    <2> QED BY <1>1, <2>1, <2>2 DEF FoundWasOk
  <1>6. ViewIsCurrent' /\ OneLoadAtATime'
    BY <1>1 DEF ViewIsCurrent, OneLoadAtATime
  <1> QED BY <1>2, <1>4, <1>5, <1>6

LEMMA LoadHealthInv == ASSUME HealthInv, LoadHealth PROVE HealthInv'
  <1> USE DEF HealthInv
  <1> DEFINE ok == {c \in Parts : condition[c] = "ok"}
  <1>0. loads + 1 \in Loads /\ loads \in Nat /\ \A l \in Loads : l \in Nat /\ (l <= loads + 1 <=> l <= loads \/ l = loads + 1)
    BY PagesAssumption DEF LoadHealth, MayLoad, HealthTypeOK, Loads
  <1>1. /\ view.status # "loading" /\ loads' = loads + 1 /\ request' = [request EXCEPT ![loads + 1] = Asked]
        /\ wasOk' = [wasOk EXCEPT ![loads + 1] = ok] /\ view' = [view EXCEPT !.status = "loading"]
        /\ UNCHANGED <<condition, changes>>
    BY DEF LoadHealth, MayLoad
  <1>2. Asked \in Requests /\ Asked.at = "session" /\ \A p \in Probes : Asked.found[p] = "pending"
    BY DEF Asked, Unasked, Requests, Findings
  <1>3. HealthTypeOK'
    BY <1>0, <1>1, <1>2 DEF HealthTypeOK
  <1>4. view'.status = "loading"
    BY <1>1 DEF HealthTypeOK
  <1>5. \A l \in Loads : request[l].at \in {"none", "received"}
    BY <1>1 DEF OneLoadAtATime
  <1>6. \A l \in Loads : request'[l] = (IF l = loads + 1 THEN Asked ELSE request[l])
                        /\ wasOk'[l] = (IF l = loads + 1 THEN ok ELSE wasOk[l])
    BY <1>1 DEF HealthTypeOK
  <1>7. OneLoadAtATime'
    BY <1>1, <1>4, <1>5, <1>6 DEF OneLoadAtATime
  <1>8. FoundWasOk'
    <2>1. ASSUME NEW l \in Loads, l <= loads', NEW c \in Parts, condition[c] = "ok" PROVE c \in wasOk'[l]
      <3>1. CASE l = loads + 1
        BY <1>6, <2>1, <3>1
      <3>2. CASE l # loads + 1
        BY <1>0, <1>1, <1>6, <2>1, <3>2 DEF FoundWasOk
      <3> QED BY <3>1, <3>2
    <2>2. ASSUME NEW l \in Loads, NEW p \in Probes, request'[l].found[p] = "healthy"
          PROVE  Probed(p) \in wasOk'[l] /\ l <= loads'
      <3>1. l # loads + 1
        BY <1>2, <1>6, <2>2
      <3> QED BY <1>0, <1>1, <1>6, <2>2, <3>1 DEF FoundWasOk
    <2> QED BY <1>1, <2>1, <2>2 DEF FoundWasOk
  <1>9. ViewIsCurrent' /\ HealthyWasOk'
    BY <1>4 DEF ViewIsCurrent, HealthyWasOk
  <1> QED BY <1>3, <1>7, <1>8, <1>9

\* A load under way moves on; what it has found is true of an instant of it.
LEMMA ServedLoad ==
  ASSUME HealthInv, NEW l \in Loads, request[l].at \notin {"none", "received"}, NEW moved \in Requests,
         request' = [request EXCEPT ![l] = moved], UNCHANGED <<condition, loads, wasOk, view, changes>>,
         \A p \in Probes : moved.found[p] = "healthy" => Probed(p) \in wasOk[l]
  PROVE  HealthInv'
  <1> USE DEF HealthInv
  <1>1. l = loads /\ view.status = "loading" /\ l <= loads
    BY DEF OneLoadAtATime, Loads
  <1>2. HealthTypeOK'
    BY DEF HealthTypeOK
  <1>3. \A k \in Loads : request'[k] = IF k = l THEN moved ELSE request[k]
    BY DEF HealthTypeOK
  <1>4. OneLoadAtATime' /\ FoundWasOk'
    BY <1>1, <1>3 DEF OneLoadAtATime, FoundWasOk
  <1> QED BY <1>1, <1>2, <1>4 DEF ViewIsCurrent, HealthyWasOk

LEMMA ServeHealthInv == ASSUME HealthInv, NEW l \in Loads, ServeHealth(l) PROVE HealthInv'
  <1>0. request[l] \in Requests /\ (\A p \in Probes : request[l].found[p] = "healthy" => Probed(p) \in wasOk[l])
    BY DEF HealthInv, HealthTypeOK, FoundWasOk
  <1>1. ASSUME NEW to \in {"probing", "failed", "answered"}, request' = [request EXCEPT ![l].at = to],
               request[l].at \in {"session", "probing"}, UNCHANGED <<condition, loads, wasOk, view, changes>>
        PROVE  HealthInv'
    <2> DEFINE moved == [request[l] EXCEPT !.at = to]
    <2>1. moved \in Requests /\ moved.found = request[l].found
      BY <1>0 DEF Requests
    <2>2. request' = [request EXCEPT ![l] = moved]
      BY <1>1
    <2> HIDE DEF moved
    <2> QED BY <1>0, <1>1, <2>1, <2>2, ServedLoad
  <1>2. ASSUME NEW p \in Probes, NEW f \in {"healthy", "unavailable"}, request' = [request EXCEPT ![l].found[p] = f],
               f = "healthy" => condition[Probed(p)] = "ok",
               request[l].at = "probing", UNCHANGED <<condition, loads, wasOk, view, changes>>
        PROVE  HealthInv'
    <2> DEFINE moved == [request[l] EXCEPT !.found[p] = f]
    <2>1. moved \in Requests /\ \A q \in Probes : moved.found[q] = IF q = p THEN f ELSE request[l].found[q]
      BY <1>0 DEF Requests, Findings
    <2>2. request' = [request EXCEPT ![l] = moved]
      BY <1>2
    <2>3. Probed(p) \in Parts
      BY DEF Probed, Probes, Parts
    <2>4. l <= loads
      BY <1>2 DEF HealthInv, OneLoadAtATime, Loads
    <2>5. f = "healthy" => Probed(p) \in wasOk[l]
      BY <1>2, <2>3, <2>4 DEF HealthInv, FoundWasOk
    <2>6. \A q \in Probes : moved.found[q] = "healthy" => Probed(q) \in wasOk[l]
      BY <1>0, <2>1, <2>5
    <2> HIDE DEF moved
    <2> QED BY <1>2, <2>1, <2>2, <2>6, ServedLoad
  <1>3. CASE CheckSession(l) \/ Respond(l)
    BY <1>1, <1>3 DEF CheckSession, Respond
  <1>4. ASSUME NEW p \in Probes, ProbeAnswers(l, p) PROVE HealthInv'
    <2>1. PICK f \in {"healthy", "unavailable"} :
            f = (IF IsHealthy(Probed(p)) THEN "healthy" ELSE "unavailable")
      OBVIOUS
    <2>2. request' = [request EXCEPT ![l].found[p] = f] /\ (f = "healthy" => condition[Probed(p)] = "ok")
      BY <1>4, <2>1 DEF ProbeAnswers, IsHealthy
    <2> QED BY <1>2, <1>4, <2>2 DEF ProbeAnswers
  <1>5. ASSUME NEW p \in Probes, ProbeTimesOut(l, p) PROVE HealthInv'
    BY <1>2, <1>5 DEF ProbeTimesOut
  <1> QED BY <1>3, <1>4, <1>5 DEF ServeHealth

LEMMA ReceiveInv == ASSUME HealthInv, NEW l \in Loads, Receive(l) PROVE HealthInv'
  <1> USE DEF HealthInv
  <1>1. l = loads /\ loads \in Loads /\ request' = [request EXCEPT ![l] = Received]
        /\ UNCHANGED <<condition, loads, wasOk, changes>>
    BY DEF Receive, OneLoadAtATime
  <1>2. Received \in Requests /\ Received.at = "received" /\ \A p \in Probes : Received.found[p] = "pending"
    BY DEF Received, Unasked, Requests, Findings
  <1>3. /\ view' \in [status : {"closed", "loading", "ready", "error"}, load : Loads \cup {0}, healthy : BOOLEAN]
        /\ view'.status # "loading" /\ view'.load = l
        /\ view'.status = "ready" /\ view'.healthy => \A p \in Probes : request[l].found[p] = "healthy"
    <2>1. CASE view' = [status |-> "ready", load |-> l, healthy |-> \A p \in Probes : request[l].found[p] = "healthy"]
      BY <2>1, Zenon
    <2>2. CASE view' = [status |-> "error", load |-> l, healthy |-> FALSE]
      BY <2>2
    <2> QED BY <2>1, <2>2 DEF Receive
  <1>4. HealthTypeOK'
    BY <1>1, <1>2, <1>3 DEF HealthTypeOK
  <1>5. \A k \in Loads : request'[k] = IF k = l THEN Received ELSE request[k]
    BY <1>1 DEF HealthTypeOK
  <1>6. OneLoadAtATime'
    BY <1>1, <1>2, <1>3, <1>5 DEF OneLoadAtATime
  <1>7. FoundWasOk'
    BY <1>1, <1>2, <1>5 DEF FoundWasOk
  <1>8. ViewIsCurrent'
    BY <1>1, <1>3 DEF ViewIsCurrent
  <1>9. HealthyWasOk'
    <2> SUFFICES ASSUME view'.status = "ready", view'.healthy PROVE wasOk[l] = Parts
      BY <1>1, <1>3 DEF HealthyWasOk
    <2>1. ASSUME NEW c \in Parts PROVE c \in wasOk[l]
      <3>1. c \in Probes /\ Probed(c) = c
        BY PagesAssumption DEF Probes, Probed, Parts
      <3> QED BY <1>3, <3>1 DEF FoundWasOk
    <2> QED BY <2>1 DEF HealthTypeOK
  <1> QED BY <1>4, <1>6, <1>7, <1>8, <1>9

-----------------------------------------------------------------------------
LEMMA SubmittedFacts ==
  /\ NotSaving \in Savings /\ Refused \in Savings /\ NotSaving.at = "no" /\ Refused.at = "refused"
  /\ \A s \in Savings : s.at \in {"sent", "stored"} => s \in Submitted
  /\ \A s \in Submitted : s \in Savings /\ s.days \in Nat /\ s.at \in {"sent", "stored"}
  BY DEF Savings, Submitted, NotSaving, Refused

LEMMA LoadSettingsInv == ASSUME SettingsInv, NEW p \in Pages, LoadSettings(p) PROVE SettingsInv'
  <1> USE DEF SettingsInv
  <1>1. /\ shown[p] = NoDays /\ shown' = [shown EXCEPT ![p] = ResolvedDays(storedDays)]
        /\ field' = [field EXCEPT ![p] = ResolvedDays(storedDays)]
        /\ UNCHANGED <<storedDays, saving, saveState, abandoned, lastWriter, saves>>
    BY DEF LoadSettings
  <1>2. ResolvedDays(storedDays) \in Nat
    BY PagesAssumption DEF ResolvedDays, SettingsTypeOK
  <1>3. SettingsTypeOK'
    BY <1>1, <1>2 DEF SettingsTypeOK
  <1>4. LastSaveIsInForce'
    <2> SUFFICES ASSUME NEW q \in lastWriter, saveState[q] = "saved" PROVE shown'[q] = storedDays
      BY <1>1 DEF LastSaveIsInForce
    <2>1. shown[q] = storedDays /\ storedDays \in Nat
      BY DEF LastSaveIsInForce, WriterKnowsRow
    <2>2. q # p
      BY <1>1, <2>1, PagesAssumption
    <2> QED BY <1>1, <2>1, <2>2 DEF SettingsTypeOK
  <1> QED BY <1>1, <1>3, <1>4 DEF WriterKnowsRow

LEMMA TypeInv == ASSUME SettingsInv, NEW p \in Pages, NEW days \in DayInputs, Type(p, days) PROVE SettingsInv'
  <1>1. field' = [field EXCEPT ![p] = days] /\ UNCHANGED <<storedDays, shown, saving, saveState, abandoned, lastWriter, saves>>
    BY DEF Type
  <1>2. SettingsTypeOK'
    BY <1>1, PagesAssumption DEF SettingsInv, SettingsTypeOK
  <1> QED BY <1>1, <1>2 DEF SettingsInv, LastSaveIsInForce, WriterKnowsRow

LEMMA SaveRetentionInv == ASSUME SettingsInv, NEW p \in Pages, SaveRetention(p) PROVE SettingsInv'
  <1> USE DEF SettingsInv
  <1> DEFINE sent == [at |-> "sent", days |-> field[p]]
  <1>1. /\ saving[p].at = "no" /\ saving' = [saving EXCEPT ![p] = sent]
        /\ saveState' = [saveState EXCEPT ![p] = "idle"] /\ saves' = saves + 1
        /\ UNCHANGED <<storedDays, shown, field, abandoned, lastWriter>>
    BY DEF SaveRetention
  <1>2. sent \in Savings /\ sent.at = "sent"
    BY DEF SettingsTypeOK, Savings, Submitted
  <1> HIDE DEF sent
  <1>3. SettingsTypeOK'
    BY <1>1, <1>2 DEF SettingsTypeOK
  <1>4. \A q \in Pages : /\ saving'[q] = (IF q = p THEN sent ELSE saving[q])
                        /\ saveState'[q] = (IF q = p THEN "idle" ELSE saveState[q])
    BY <1>1 DEF SettingsTypeOK
  <1>5. LastSaveIsInForce'
    BY <1>1, <1>4 DEF LastSaveIsInForce, SettingsTypeOK
  <1>6. WriterKnowsRow'
    BY <1>1, <1>2, <1>4 DEF WriterKnowsRow, SettingsTypeOK
  <1> QED BY <1>3, <1>5, <1>6

LEMMA UpdateRetentionInv == ASSUME SettingsInv, NEW p \in Pages, UpdateRetention(p) PROVE SettingsInv'
  <1> USE DEF SettingsInv
  <1>0. /\ saving[p] \in Submitted /\ saveState[p] = "idle" /\ saving[p].days \in Nat
        /\ UNCHANGED <<shown, field, saveState, abandoned, saves>>
    BY SubmittedFacts DEF UpdateRetention, SettingsTypeOK, WriterKnowsRow
  <1>1. CASE saving' = [saving EXCEPT ![p] = Refused] /\ UNCHANGED <<storedDays, lastWriter>>
    <2>1. SettingsTypeOK'
      BY <1>0, <1>1, SubmittedFacts DEF SettingsTypeOK
    <2>2. \A q \in Pages : saving'[q] = IF q = p THEN Refused ELSE saving[q]
      BY <1>1 DEF SettingsTypeOK
    <2> QED BY <1>0, <1>1, <2>1, <2>2, SubmittedFacts DEF LastSaveIsInForce, WriterKnowsRow, SettingsTypeOK
  <1>2. CASE saving[p].days >= 1 /\ storedDays' = saving[p].days /\ lastWriter' = {p}
             /\ saving' = [saving EXCEPT ![p].at = "stored"]
    <2> DEFINE kept == [saving[p] EXCEPT !.at = "stored"]
    <2>1. kept \in Submitted /\ kept.at = "stored" /\ kept.days = saving[p].days
      BY <1>0 DEF Submitted
    <2>2. saving' = [saving EXCEPT ![p] = kept]
      BY <1>2
    <2> HIDE DEF kept
    <2>3. SettingsTypeOK'
      BY <1>0, <1>2, <2>1, <2>2, SubmittedFacts DEF SettingsTypeOK
    <2>4. \A q \in Pages : saving'[q] = IF q = p THEN kept ELSE saving[q]
      BY <2>2 DEF SettingsTypeOK
    <2>5. LastSaveIsInForce'
      BY <1>0, <1>2 DEF LastSaveIsInForce
    <2>6. WriterKnowsRow'
      BY <1>0, <1>2, <2>1, <2>4 DEF WriterKnowsRow
    <2> QED BY <2>3, <2>5, <2>6
  <1> QED BY <1>1, <1>2 DEF UpdateRetention, Upsert

LEMMA SaveSettlesInv == ASSUME SettingsInv, NEW p \in Pages, SaveSettles(p) PROVE SettingsInv'
  <1> USE DEF SettingsInv
  <1>0. saving' = [saving EXCEPT ![p] = NotSaving] /\ UNCHANGED <<storedDays, abandoned, lastWriter, saves>>
    BY DEF SaveSettles
  <1>1. \A q \in Pages : saving'[q] = IF q = p THEN NotSaving ELSE saving[q]
    BY <1>0 DEF SettingsTypeOK
  <1>2. CASE /\ saving[p].at = "stored" /\ shown' = [shown EXCEPT ![p] = saving[p].days]
             /\ field' = [field EXCEPT ![p] = saving[p].days] /\ saveState' = [saveState EXCEPT ![p] = "saved"]
    <2>1. saving[p].days \in Nat
      BY <1>2 DEF WriterKnowsRow
    <2>2. SettingsTypeOK'
      BY <1>0, <1>2, <2>1, SubmittedFacts DEF SettingsTypeOK
    <2>3. \A q \in Pages : /\ shown'[q] = (IF q = p THEN saving[p].days ELSE shown[q])
                          /\ saveState'[q] = (IF q = p THEN "saved" ELSE saveState[q])
      BY <1>2 DEF SettingsTypeOK
    <2>4. LastSaveIsInForce'
      BY <1>0, <1>2, <2>3 DEF LastSaveIsInForce, WriterKnowsRow, SettingsTypeOK
    <2>5. WriterKnowsRow'
      BY <1>0, <1>1, <2>3, SubmittedFacts DEF WriterKnowsRow, SettingsTypeOK
    <2> QED BY <2>2, <2>4, <2>5
  <1>3. CASE saveState' = [saveState EXCEPT ![p] = "error"] /\ UNCHANGED <<shown, field>>
    <2>1. SettingsTypeOK'
      BY <1>0, <1>3, SubmittedFacts DEF SettingsTypeOK
    <2>2. \A q \in Pages : saveState'[q] = IF q = p THEN "error" ELSE saveState[q]
      BY <1>3 DEF SettingsTypeOK
    <2>3. LastSaveIsInForce' /\ WriterKnowsRow'
      BY <1>0, <1>1, <1>3, <2>2, SubmittedFacts DEF LastSaveIsInForce, WriterKnowsRow, SettingsTypeOK
    <2> QED BY <2>1, <2>3
  <1> QED BY <1>2, <1>3 DEF SaveSettles

LEMMA SaveBreaksOffInv == ASSUME SettingsInv, NEW p \in Pages, SaveBreaksOff(p) PROVE SettingsInv'
  <1> USE DEF SettingsInv
  <1>0. /\ saving[p].at = "sent" /\ saving' = [saving EXCEPT ![p] = NotSaving]
        /\ saveState' = [saveState EXCEPT ![p] = "error"]
        /\ abandoned' = abandoned \cup {[page |-> p, number |-> saves, days |-> saving[p].days]}
        /\ UNCHANGED <<storedDays, shown, field, lastWriter, saves>>
    BY DEF SaveBreaksOff
  <1>1. \A q \in Pages : /\ saving'[q] = (IF q = p THEN NotSaving ELSE saving[q])
                         /\ saveState'[q] = (IF q = p THEN "error" ELSE saveState[q])
    BY <1>0 DEF SettingsTypeOK
  <1>2. saving[p].days \in Nat
    BY <1>0, SubmittedFacts DEF SettingsTypeOK
  <1>3. abandoned' \subseteq Abandoned
    BY <1>0, <1>2 DEF SettingsTypeOK, Abandoned
  <1>4. SettingsTypeOK'
    BY <1>0, <1>3, SubmittedFacts DEF SettingsTypeOK
  <1>5. LastSaveIsInForce'
    BY <1>0, <1>1 DEF LastSaveIsInForce, SettingsTypeOK
  <1>6. WriterKnowsRow'
    BY <1>0, <1>1, SubmittedFacts DEF WriterKnowsRow, SettingsTypeOK
  <1> QED BY <1>4, <1>5, <1>6

LEMMA ServeAbandonedInv == ASSUME SettingsInv, NEW s \in abandoned, ServeAbandoned(s) PROVE SettingsInv'
  <1> USE DEF SettingsInv
  <1>1. abandoned' \subseteq abandoned /\ UNCHANGED <<shown, field, saving, saveState, saves>>
    BY DEF ServeAbandoned
  <1>2. s.days \in Nat
    BY DEF SettingsTypeOK, Abandoned
  <1>3. CASE UNCHANGED <<storedDays, lastWriter>>
    BY <1>1, <1>3 DEF SettingsTypeOK, LastSaveIsInForce, WriterKnowsRow
  <1>4. CASE s.days >= 1 /\ storedDays' = s.days /\ lastWriter' = {}
    <2>1. storedDays' \in Nat \ {0}
      BY <1>2, <1>4
    <2> QED BY <1>1, <1>4, <2>1 DEF SettingsTypeOK, LastSaveIsInForce, WriterKnowsRow
  <1> QED BY <1>3, <1>4 DEF ServeAbandoned, Upsert

LEMMA PagesNextInv == ASSUME PagesInv, [PagesNext]_pageVars PROVE PagesInv'
  <1>0. HealthInv /\ SettingsInv
    BY PagesInvParts
  <1> SUFFICES HealthInv' /\ SettingsInv'
    BY DEF PagesInv, PagesInvariant, PagesTypeOK, HealthInv, HealthTypeOK, SettingsInv, SettingsTypeOK, Requests, Savings
  <1>1. CASE UNCHANGED pageVars
    BY <1>0, <1>1, HealthKept, SettingsKept DEF pageVars
  <1>2. ASSUME NEW c \in Parts, NEW to \in {"ok", "bad", "silent"}, Change(c, to) PROVE HealthInv' /\ SettingsInv'
    BY <1>0, <1>2, ChangeInv, SettingsKept DEF Change
  <1>3. CASE LoadHealth
    <2>1. UNCHANGED settingsVars
      BY <1>3 DEF LoadHealth
    <2> QED BY <1>0, <1>3, <2>1, LoadHealthInv, SettingsKept
  <1>4. ASSUME NEW l \in Loads, ServeHealth(l) \/ Receive(l) PROVE HealthInv' /\ SettingsInv'
    <2>1. UNCHANGED settingsVars
      BY <1>4 DEF ServeHealth, CheckSession, ProbeAnswers, ProbeTimesOut, Respond, Receive
    <2> QED BY <1>0, <1>4, <2>1, ServeHealthInv, ReceiveInv, SettingsKept
  <1>5. ASSUME NEW p \in Pages,
               LoadSettings(p) \/ (\E days \in DayInputs : Type(p, days)) \/ SaveRetention(p) \/ ServeSettings(p)
        PROVE  HealthInv' /\ SettingsInv'
    <2>1. UNCHANGED healthVars
      BY <1>5 DEF LoadSettings, Type, SaveRetention, ServeSettings, UpdateRetention, SaveSettles, SaveBreaksOff
    <2>2. SettingsInv'
      BY <1>0, <1>5, LoadSettingsInv, TypeInv, SaveRetentionInv, UpdateRetentionInv, SaveSettlesInv, SaveBreaksOffInv
        DEF ServeSettings
    <2> QED BY <1>0, <2>1, <2>2, HealthKept
  <1>6. ASSUME NEW s \in abandoned, ServeAbandoned(s) PROVE HealthInv' /\ SettingsInv'
    <2>1. UNCHANGED healthVars
      BY <1>6 DEF ServeAbandoned
    <2> QED BY <1>0, <1>6, <2>1, HealthKept, ServeAbandonedInv
  <1> QED BY <1>1, <1>2, <1>3, <1>4, <1>5, <1>6 DEF PagesNext

\* However probes, timeouts, answers, loads and submissions interleave: the
\* system page shows the last load (loadHealth), what it shows as healthy was
\* (getSystemHealth), and the administrator whose submission was stored last, and
\* who waited for it, is told the truth (setRunLogRetentionDays).
THEOREM PagesShowTheTruth == PagesSpec => []PagesInvariant
  <1>1. PagesInv => PagesInvariant
    BY DEF PagesInv
  <1> QED BY <1>1, PagesInitInv, PagesNextInv, PTL DEF PagesSpec

-----------------------------------------------------------------------------
(* TriggerEditor: the friendly controls and the expressions they stand for, *)
(* what a save of a draft nobody edited writes, and what becomes of the scheduler's columns. *)

Schedules == [cron : Crons, enabled : BOOLEAN, timezone : Timezones]

IsSchedules(f) == DOMAIN f \subseteq Ids /\ \A i \in DOMAIN f : f[i] \in Schedules
IsRows(rows) == rows.manual \in {"none", "on", "off"} /\ IsSchedules(rows.schedules)

\* What is drafted, cached and stored is well-formed, and a draft that nobody
\* edited is the one the cached triggers give.
DraftFollowsCache ==
  /\ DOMAIN draft = {"manual", "schedules"} /\ draft.manual \in BOOLEAN /\ IsSchedules(draft.schedules)
  /\ IsRows(cached) /\ IsRows(stored)
  /\ ~edited => (draft.manual <=> cached.manual = "on") /\ draft.schedules = cached.schedules
  /\ RuntimeFitsDefinition /\ runs \in {"none", "active", "ended"}
  /\ edited \in BOOLEAN /\ triggerEdits \in 0..MaxTriggerEdits

\* A schedule's friendly reading has the fields its frequency needs, and its
\* rendering is the expression that was read.
LEMMA FriendlyReading ==
  ASSUME NEW c \in Crons
  PROVE  LET s == friendlyScheduleFromCron(c) IN
         \/ Hourly(c) /\ s = [frequency |-> "hourly", minute |-> c.minute]
         \/ Weekly(c) /\ s = [frequency |-> "weekly", dayOfWeek |-> c.weekday, hour |-> c.hour, minute |-> c.minute]
         \/ Daily(c) /\ s = [frequency |-> "daily", hour |-> c.hour, minute |-> c.minute]
         \/ s = [frequency |-> "custom", cron |-> c]
  BY DEF friendlyScheduleFromCron

LEMMA RoundTrip ==
  ASSUME NEW c \in Crons
  PROVE  cronFromFriendlySchedule(friendlyScheduleFromCron(c)) = c
  <1> DEFINE s == friendlyScheduleFromCron(c)
  <1>1. CASE Hourly(c) /\ s = [frequency |-> "hourly", minute |-> c.minute]
    BY <1>1 DEF cronFromFriendlySchedule, Cron, Hourly, Crons
  <1>2. CASE Weekly(c) /\ s = [frequency |-> "weekly", dayOfWeek |-> c.weekday, hour |-> c.hour, minute |-> c.minute]
    BY <1>2 DEF cronFromFriendlySchedule, Cron, Weekly, Crons
  <1>3. CASE Daily(c) /\ s = [frequency |-> "daily", hour |-> c.hour, minute |-> c.minute]
    BY <1>3 DEF cronFromFriendlySchedule, Cron, Daily, Crons
  <1>4. CASE s = [frequency |-> "custom", cron |-> c]
    BY <1>4 DEF cronFromFriendlySchedule
  <1> QED BY <1>1, <1>2, <1>3, <1>4, FriendlyReading

LEMMA CronInCrons ==
  ASSUME NEW m \in FieldValues, NEW h \in FieldValues, NEW w \in FieldValues
  PROVE  Cron(m, h, w) \in Crons
  BY DEF Cron, Crons, FieldValues

\* Whatever number a control passes on, the result is an expression.
LEMMA ChangedReading ==
  ASSUME NEW c \in Crons, NEW n \in Int
  PROVE  LET s == friendlyScheduleFromCron(c) IN
         /\ s.frequency # "custom" => cronFromFriendlySchedule([s EXCEPT !.minute = n]) \in Crons
         /\ s.frequency \in {"daily", "weekly"} => cronFromFriendlySchedule([s EXCEPT !.hour = n]) \in Crons
         /\ s.frequency = "weekly" => cronFromFriendlySchedule([s EXCEPT !.dayOfWeek = n]) \in Crons
  <1> DEFINE s == friendlyScheduleFromCron(c)
  <1>0. n \in FieldValues /\ c.minute \in FieldValues /\ c.hour \in FieldValues /\ c.weekday \in FieldValues
        /\ Star \in FieldValues
    BY DEF Crons, FieldValues
  <1>1. CASE s = [frequency |-> "hourly", minute |-> c.minute]
    <2>1. [s EXCEPT !.minute = n] = [frequency |-> "hourly", minute |-> n]
      BY <1>1
    <2>2. cronFromFriendlySchedule([frequency |-> "hourly", minute |-> n]) = Cron(n, Star, Star)
      BY DEF cronFromFriendlySchedule
    <2> QED BY <1>0, <1>1, <2>1, <2>2, CronInCrons
  <1>2. CASE s = [frequency |-> "weekly", dayOfWeek |-> c.weekday, hour |-> c.hour, minute |-> c.minute]
    <2> DEFINE Weeks(w, h, m) == [frequency |-> "weekly", dayOfWeek |-> w, hour |-> h, minute |-> m]
    <2>1. /\ [s EXCEPT !.minute = n] = Weeks(c.weekday, c.hour, n)
          /\ [s EXCEPT !.hour = n] = Weeks(c.weekday, n, c.minute)
          /\ [s EXCEPT !.dayOfWeek = n] = Weeks(n, c.hour, c.minute)
      BY <1>2
    <2>2. \A w, h, m \in FieldValues : cronFromFriendlySchedule(Weeks(w, h, m)) = Cron(m, h, w)
      BY DEF cronFromFriendlySchedule
    <2> HIDE DEF Weeks
    <2> QED BY <1>0, <1>2, <2>1, <2>2, CronInCrons
  <1>3. CASE s = [frequency |-> "daily", hour |-> c.hour, minute |-> c.minute]
    <2> DEFINE Days(h, m) == [frequency |-> "daily", hour |-> h, minute |-> m]
    <2>1. /\ [s EXCEPT !.minute = n] = Days(c.hour, n) /\ [s EXCEPT !.hour = n] = Days(n, c.minute)
          /\ s.frequency = "daily"
      BY <1>3
    <2>2. \A h, m \in FieldValues : cronFromFriendlySchedule(Days(h, m)) = Cron(m, h, Star)
      BY DEF cronFromFriendlySchedule
    <2> HIDE DEF Days
    <2> QED BY <1>0, <2>1, <2>2, CronInCrons
  <1>4. CASE s = [frequency |-> "custom", cron |-> c]
    BY <1>4
  <1> HIDE DEF s
  <1>5. \/ s = [frequency |-> "hourly", minute |-> c.minute]
        \/ s = [frequency |-> "weekly", dayOfWeek |-> c.weekday, hour |-> c.hour, minute |-> c.minute]
        \/ s = [frequency |-> "daily", hour |-> c.hour, minute |-> c.minute]
        \/ s = [frequency |-> "custom", cron |-> c]
    BY FriendlyReading DEF s
  <1> QED BY <1>1, <1>2, <1>3, <1>4, <1>5 DEF s

LEMMA InvariantOfDraft == DraftFollowsCache => TriggersInvariant
  <1> SUFFICES ASSUME DraftFollowsCache PROVE TriggersInvariant
    OBVIOUS
  <1>1. TriggersTypeOK
    BY DEF DraftFollowsCache, TriggersTypeOK, IsSchedules, Schedules, Crons, FieldNames
  <1>2. FriendlyDescribesCron
    <2> SUFFICES ASSUME NEW i \in DOMAIN draft.schedules
                 PROVE  cronFromFriendlySchedule(Friendly(i)) = draft.schedules[i].cron
      BY DEF FriendlyDescribesCron
    <2>1. draft.schedules[i].cron \in Crons
      BY DEF DraftFollowsCache, IsSchedules, Schedules
    <2> QED BY <2>1, RoundTrip DEF Friendly
  <1>3. UneditedSaveKeepsDefinitions
    BY DEF UneditedSaveKeepsDefinitions, writablePipelineTriggersFromDraft, DraftFollowsCache, IsRows
  <1>4. RuntimeFitsDefinition
    BY DEF DraftFollowsCache
  <1> QED BY <1>1, <1>2, <1>3, <1>4 DEF TriggersInvariant

LEMMA EmptySchedules == IsSchedules(<<>>)
  BY DEF IsSchedules

LEMMA TriggersInitInv == TriggersInit => DraftFollowsCache
  <1> SUFFICES ASSUME TriggersInit PROVE DraftFollowsCache
    OBVIOUS
  <1>1. IsSchedules(stored.schedules)
    <2>1. CASE stored.schedules = <<>>
      BY <2>1, EmptySchedules
    <2>2. CASE stored.schedules \in [{CHOOSE i \in Ids : TRUE} ->
                                 [cron : RawCrons \ {EmptyCron}, enabled : BOOLEAN, timezone : Timezones]]
      <3>1. (CHOOSE i \in Ids : TRUE) \in Ids
        BY TriggersAssumption
      <3> QED BY <2>2, <3>1, RawCronsAssumption DEF IsSchedules, Schedules
    <2> QED BY <2>1, <2>2 DEF TriggersInit
  <1>2. IsRows(stored) /\ cached = stored
    BY <1>1 DEF TriggersInit, IsRows
  <1>3. /\ DOMAIN draft = {"manual", "schedules"} /\ draft.manual \in BOOLEAN
        /\ draft.schedules = stored.schedules /\ (draft.manual <=> stored.manual = "on")
    BY DEF TriggersInit, createPipelineTriggerDraft
  <1>4. edited \in BOOLEAN
    BY Zenon DEF TriggersInit
  <1>5. triggerEdits \in 0..MaxTriggerEdits
    BY TriggersAssumption DEF TriggersInit
  <1>6. RuntimeFitsDefinition /\ runs = "none"
    BY DEF TriggersInit, RuntimeFitsDefinition
  <1> QED BY <1>1, <1>2, <1>3, <1>4, <1>5, <1>6 DEF DraftFollowsCache

\* An edit that leaves a well-formed draft.
LEMMA EditInv ==
  ASSUME DraftFollowsCache, NEW d, Edit(d), DOMAIN d = {"manual", "schedules"}, d.manual \in BOOLEAN, IsSchedules(d.schedules)
  PROVE  DraftFollowsCache'
  BY TriggersAssumption DEF Edit, DraftFollowsCache, IsRows, IsSchedules, RuntimeFitsDefinition, runtimeVars

LEMMA UpdateInv ==
  ASSUME DraftFollowsCache, NEW i \in DOMAIN draft.schedules, NEW s \in Schedules, Update(i, s)
  PROVE  DraftFollowsCache'
  <1> DEFINE d == [draft EXCEPT !.schedules[i] = s]
  <1>1. DOMAIN d = {"manual", "schedules"} /\ d.manual = draft.manual
        /\ d.schedules = [draft.schedules EXCEPT ![i] = s]
    BY DEF DraftFollowsCache
  <1>2. IsSchedules([draft.schedules EXCEPT ![i] = s])
    BY DEF DraftFollowsCache, IsSchedules
  <1>3. Edit(d) /\ draft.manual \in BOOLEAN
    BY DEF Update, DraftFollowsCache
  <1> HIDE DEF d
  <1> QED BY <1>1, <1>2, <1>3, EditInv

LEMMA ChangeCronInv ==
  ASSUME DraftFollowsCache, NEW i \in DOMAIN draft.schedules, NEW c \in Crons, ChangeCron(i, c)
  PROVE  DraftFollowsCache'
  <1>1. [draft.schedules[i] EXCEPT !.cron = c] \in Schedules
    BY DEF DraftFollowsCache, IsSchedules, Schedules
  <1> QED BY <1>1, UpdateInv DEF ChangeCron

LEMMA TriggersNextInv == ASSUME DraftFollowsCache, [TriggersNext]_triggerVars PROVE DraftFollowsCache'
  <1>0. \A i \in DOMAIN draft.schedules : draft.schedules[i] \in Schedules /\ draft.schedules[i].cron \in Crons
    BY DEF DraftFollowsCache, IsSchedules, Schedules
  <1>1. CASE UNCHANGED triggerVars
    BY <1>1 DEF triggerVars, runtimeVars, DraftFollowsCache, IsRows, IsSchedules, RuntimeFitsDefinition
  <1>2. ASSUME NEW on \in BOOLEAN, SetManual(on) PROVE DraftFollowsCache'
    <2> DEFINE d == [draft EXCEPT !.manual = on]
    <2>1. DOMAIN d = {"manual", "schedules"} /\ d.manual = on /\ d.schedules = draft.schedules
      BY DEF DraftFollowsCache
    <2>2. Edit(d) /\ IsSchedules(draft.schedules)
      BY <1>2 DEF SetManual, DraftFollowsCache
    <2> HIDE DEF d
    <2> QED BY <2>1, <2>2, EditInv
  <1>3. ASSUME NEW i \in Ids, NEW zone \in Timezones, AddSchedule(i, zone) PROVE DraftFollowsCache'
    <2> DEFINE new == [cron |-> Cron(0, 0, Star), enabled |-> TRUE, timezone |-> zone]
               more == [j \in DOMAIN draft.schedules \cup {i} |-> IF j = i THEN new ELSE draft.schedules[j]]
               d == [draft EXCEPT !.schedules = more]
    <2>1. new \in Schedules
      <3>1. 0 \in FieldValues /\ Star \in FieldValues
        BY DEF FieldValues
      <3>2. Cron(0, 0, Star) \in Crons
        BY <3>1, CronInCrons, Zenon
      <3> QED BY <3>2, Zenon DEF Schedules
    <2>2. IsSchedules(more)
      <3> HIDE DEF new
      <3> QED BY <1>0, <2>1 DEF DraftFollowsCache, IsSchedules
    <2>3. Edit(d)
      BY <1>3 DEF AddSchedule
    <2> HIDE DEF more
    <2>4. DOMAIN d = {"manual", "schedules"} /\ d.manual = draft.manual /\ d.schedules = more /\ draft.manual \in BOOLEAN
      BY DEF DraftFollowsCache
    <2> HIDE DEF d
    <2> QED BY <2>2, <2>3, <2>4, EditInv
  <1>4. ASSUME NEW i \in Ids, RemoveSchedule(i) PROVE DraftFollowsCache'
    <2> DEFINE fewer == [j \in DOMAIN draft.schedules \ {i} |-> draft.schedules[j]]
               d == [draft EXCEPT !.schedules = fewer]
    <2>1. IsSchedules(fewer)
      BY <1>0 DEF DraftFollowsCache, IsSchedules
    <2>2. Edit(d)
      BY <1>4 DEF RemoveSchedule
    <2> HIDE DEF fewer
    <2>3. DOMAIN d = {"manual", "schedules"} /\ d.manual = draft.manual /\ d.schedules = fewer /\ draft.manual \in BOOLEAN
      BY DEF DraftFollowsCache
    <2> HIDE DEF d
    <2> QED BY <2>1, <2>2, <2>3, EditInv
  <1>5. ASSUME NEW i \in Ids, NEW n \in Int, ChangeMinute(i, n) \/ ChangeHour(i, n) \/ ChangeDayOfWeek(i, n)
        PROVE  DraftFollowsCache'
    BY <1>0, <1>5, ChangedReading, ChangeCronInv DEF ChangeMinute, ChangeHour, ChangeDayOfWeek, Friendly
  <1>6. ASSUME NEW i \in Ids, NEW cron \in RawCrons, ChangeRaw(i, cron) PROVE DraftFollowsCache'
    BY <1>6, RawCronsAssumption, ChangeCronInv DEF ChangeRaw
  <1>7. ASSUME NEW i \in Ids, NEW frequency \in Frequencies, ChangeFrequency(i, frequency) PROVE DraftFollowsCache'
    <2>1. i \in DOMAIN draft.schedules /\ draft.schedules[i].cron \in Crons
      BY <1>0, <1>7 DEF ChangeFrequency
    <2>2. cronFromFriendlySchedule(DefaultSchedule(i, frequency)) \in Crons
      <3>1. CASE frequency = "custom"
        BY <2>1, <3>1 DEF DefaultSchedule, cronFromFriendlySchedule
      <3>2. CASE frequency # "custom"
        <4>1. \E m, h, w \in {0, 1, Star} : cronFromFriendlySchedule(DefaultSchedule(i, frequency)) = Cron(m, h, w)
          BY <3>2 DEF DefaultSchedule, cronFromFriendlySchedule, Frequencies
        <4> QED BY <4>1, CronInCrons DEF FieldValues
      <3> QED BY <3>1, <3>2
    <2> QED BY <1>7, <2>1, <2>2, ChangeCronInv DEF ChangeFrequency
  <1>8. ASSUME NEW i \in Ids, NEW enabled \in BOOLEAN, NEW zone \in Timezones, ChangeSettings(i, enabled, zone)
        PROVE  DraftFollowsCache'
    <2>1. i \in DOMAIN draft.schedules
      BY <1>8 DEF ChangeSettings
    <2>2. [draft.schedules[i] EXCEPT !.enabled = enabled, !.timezone = zone] \in Schedules
      BY <1>0, <2>1 DEF Schedules
    <2> QED BY <1>8, <2>1, <2>2, UpdateInv DEF ChangeSettings
  <1>9. ASSUME NEW withGraph \in BOOLEAN, Save(withGraph) PROVE DraftFollowsCache'
    <2>1. /\ stored'.schedules = draft.schedules /\ stored'.manual = (IF draft.manual THEN "on" ELSE "off")
          /\ cached' = stored' /\ edited' = FALSE /\ triggerEdits' = triggerEdits
      BY <1>9 DEF Save, replaceTriggers, writablePipelineTriggersFromDraft
    <2>2. /\ DOMAIN draft' = {"manual", "schedules"} /\ draft'.manual \in BOOLEAN
          /\ (draft'.manual <=> cached'.manual = "on") /\ draft'.schedules = cached'.schedules
      BY <1>9 DEF Save, createPipelineTriggerDraft
    <2>3. RuntimeFitsDefinition' /\ runs' = runs
      BY <1>9 DEF Save, replaceTriggers, RuntimeFitsDefinition
    <2> QED BY <2>1, <2>2, <2>3 DEF DraftFollowsCache, IsRows, IsSchedules
  <1>10. CASE Refetch
    <2>1. cached' = stored /\ stored' = stored /\ edited' = FALSE /\ triggerEdits' = triggerEdits
      BY <1>10 DEF Refetch
    <2>2. /\ DOMAIN draft' = {"manual", "schedules"} /\ draft'.manual \in BOOLEAN
          /\ (draft'.manual <=> stored.manual = "on") /\ draft'.schedules = stored.schedules
      BY <1>10 DEF Refetch, createPipelineTriggerDraft
    <2>3. RuntimeFitsDefinition' /\ runs' = runs
      BY <1>10 DEF Refetch, runtimeVars, RuntimeFitsDefinition, DraftFollowsCache
    <2> QED BY <2>1, <2>2, <2>3 DEF DraftFollowsCache, IsRows, IsSchedules
  <1>11. CASE OtherSave([manual |-> "off", schedules |-> <<>>])
    <2>1. stored'.manual = "off" /\ IsSchedules(stored'.schedules)
      BY <1>11, EmptySchedules DEF OtherSave, replaceTriggers
    <2>2. UNCHANGED <<draft, cached, runs, edited>> /\ triggerEdits' \in 0..MaxTriggerEdits
      BY <1>11, TriggersAssumption DEF OtherSave, DraftFollowsCache
    <2>3. RuntimeFitsDefinition'
      BY <1>11 DEF OtherSave, replaceTriggers, RuntimeFitsDefinition
    <2> QED BY <2>1, <2>2, <2>3 DEF DraftFollowsCache, IsRows, IsSchedules
  <1>13. ASSUME RunsEnd \/ \E i \in DOMAIN stored.schedules : ClaimSchedule(i) PROVE DraftFollowsCache'
    <2>1. UNCHANGED <<draft, cached, stored, edited, triggerEdits>> /\ runs' \in {"active", "ended"}
      BY <1>13 DEF RunsEnd, ClaimSchedule
    <2>2. RuntimeFitsDefinition'
      BY <1>13 DEF RunsEnd, ClaimSchedule, RuntimeFitsDefinition, DraftFollowsCache
    <2> QED BY <2>1, <2>2 DEF DraftFollowsCache, IsRows, IsSchedules
  <1>12. Numbers \subseteq Int /\ 0..6 \subseteq Int
    BY TriggersAssumption
  <1> QED BY <1>1, <1>2, <1>3, <1>4, <1>5, <1>6, <1>7, <1>8, <1>9, <1>10, <1>11, <1>12, <1>13 DEF TriggersNext

\* For every expression that can be stored or typed, what the controls of a
\* schedule show stands for exactly that expression (friendlyScheduleFromCron,
\* cronFromFriendlySchedule); saving a draft nobody edited writes back the
\* expressions, zones and switches it was made from
\* (writablePipelineTriggersFromDraft); and a time or a run's trigger_id never
\* outlives the definition it came from (replaceTriggers).
THEOREM TriggersStayTrue == TriggersSpec => []TriggersInvariant
  BY TriggersInitInv, TriggersNextInv, InvariantOfDraft, PTL DEF TriggersSpec

-----------------------------------------------------------------------------
(* ConfigurationForm: what late answers to uploads cannot disturb. *)

\* As long as the operator has not acted during an upload, the values are those
\* of the selected component, and the one upload under way closed over them.
UndisturbedUpload ==
  ~disturbed =>
    /\ \A k \in Keys \ Fields(selected) : values[k] = Unset
    /\ \A u \in Sending : /\ upload[u].base = values /\ upload[u].component = selected
                          /\ FileKey \in Fields(selected)
    /\ \A u, v \in Sending : u = v

FormInv == FormInvariant /\ UndisturbedUpload

\* updateValue on values of the same component changes one key.
LEMMA WithOwnValue ==
  ASSUME NEW c, NEW base \in Configurations, NEW k \in Keys, NEW v,
         k \in Fields(c), \A m \in Keys \ Fields(c) : base[m] = Unset
  PROVE  WithValue(c, base, k, v) = [base EXCEPT ![k] = v]
  BY DEF WithValue, Sanitized, Configurations

LEMMA WithValueFacts ==
  ASSUME NEW c, NEW base \in Configurations, NEW k \in Keys, NEW v \in Entries
  PROVE  /\ WithValue(c, base, k, v) \in Configurations
         /\ \A m \in Fields(c) \cap Keys : m # k => WithValue(c, base, k, v)[m] = base[m]
         /\ k \in Fields(c) => WithValue(c, base, k, v)[k] = v
  BY DEF WithValue, Sanitized, Configurations, Entries

LEMMA WithValueUnset ==
  ASSUME NEW c, NEW base, NEW k, NEW v, NEW m \in Keys \ Fields(c)
  PROVE  WithValue(c, base, k, v)[m] = Unset
  BY DEF WithValue, Sanitized

LEMMA BlankConfiguration == Blank \in Configurations /\ \A k \in Keys : Blank[k] = Unset
  BY DEF Blank, Configurations, Entries

\* The text of the JSON control follows the value it is given.
LEMMA RawFollows ==
  ASSUME FormTypeOK, JsonShowsItsValue, JsonKey \in Fields(selected), ~jsonError,
         NEW c \in Components, JsonKey \in Fields(c), NEW v \in Configurations
  PROVE  RawAfter(c, v) = v[JsonKey]
  BY FormAssumption DEF FormTypeOK, JsonShowsItsValue, RawAfter, Sanitized, Configurations

LEMMA RawType ==
  ASSUME FormTypeOK, NEW c, NEW v \in Configurations
  PROVE  RawAfter(c, v) \in Entries \cup {Garbage}
  BY FormAssumption DEF FormTypeOK, RawAfter, Sanitized, Configurations, Entries

LEMMA FormInitInv == FormInit => FormInv
  <1> SUFFICES ASSUME FormInit PROVE FormInv
    OBVIOUS
  <1> USE DEF FormInit
  <1>1. FormTypeOK
    BY BlankConfiguration DEF FormTypeOK, NoUpload, Entries
  <1>2. Sending = {}
    BY DEF Sending, NoUpload
  <1>3. JsonShowsItsValue /\ OneUploadPerControl /\ UndisturbedFormKeepsEntries
    BY <1>2 DEF JsonShowsItsValue, OneUploadPerControl, UndisturbedFormKeepsEntries, Fields
  <1>4. UndisturbedUpload
    BY <1>2, BlankConfiguration DEF UndisturbedUpload
  <1> QED BY <1>1, <1>3, <1>4 DEF FormInv, FormInvariant

\* The catalog's answer and a retry concern nothing that is entered.
LEMMA CatalogSteps ==
  ASSUME FormInv, CatalogSettles \/ RetryCatalog \/ UNCHANGED formVars
  PROVE  FormInv'
  <1> USE DEF FormInv, FormInvariant
  <1>1. UNCHANGED <<selected, values, raw, jsonError, mount, upload, intended, disturbed>>
    BY DEF CatalogSettles, RetryCatalog, formVars
  <1>2. FormTypeOK'
    BY <1>1 DEF FormTypeOK, CatalogSettles, RetryCatalog, formVars
  <1>3. Sending' = Sending
    BY <1>1 DEF Sending
  <1> QED
    BY <1>1, <1>2, <1>3 DEF JsonShowsItsValue, OneUploadPerControl, UndisturbedFormKeepsEntries, UndisturbedUpload

\* An operator's action that leaves an undisturbed form happened with no upload
\* under way.
LEMMA ActsWithoutUpload == ASSUME Act, UNCHANGED upload, ~disturbed' PROVE ~disturbed /\ Sending = {} /\ Sending' = {}
  BY DEF Act, Sending

LEMMA SelectInv == ASSUME FormInv, NEW c \in Components, Select(c) PROVE FormInv'
  <1> USE DEF FormInv, FormInvariant
  <1>1. UNCHANGED <<catalog, upload>> /\ Act /\ selected' = c
    BY DEF Select
  <1>2. CASE c = selected
    <2>1. UNCHANGED <<values, intended, raw, jsonError, mount, selected>>
      BY <1>1, <1>2 DEF Select
    <2>2. FormTypeOK'
      BY <1>1, <2>1 DEF FormTypeOK, Act
    <2> QED
      BY <1>1, <2>1, <2>2, ActsWithoutUpload DEF JsonShowsItsValue, OneUploadPerControl,
        UndisturbedFormKeepsEntries, UndisturbedUpload, Sending
  <1>3. CASE c # selected
    <2>1. values' = Blank /\ intended' = Blank /\ mount' \in Nat
      BY <1>3 DEF Select, FormTypeOK
    <2>2. raw' \in Entries \cup {Garbage} /\ jsonError' \in BOOLEAN
      BY <1>3, RawType, BlankConfiguration DEF Select, FormTypeOK, Entries
    <2>3. FormTypeOK'
      BY <1>1, <2>1, <2>2, BlankConfiguration DEF FormTypeOK, Act
    <2>4. JsonShowsItsValue'
      <3> SUFFICES ASSUME JsonKey \in Fields(c), ~jsonError' PROVE raw' = Blank[JsonKey]
        BY <1>1, <2>1 DEF JsonShowsItsValue
      <3>1. CASE JsonKey \in Fields(selected)
        BY <1>3, <3>1, RawFollows, BlankConfiguration DEF Select
      <3>2. CASE JsonKey \notin Fields(selected)
        BY <1>3, <3>2, BlankConfiguration, FormAssumption DEF Select
      <3> QED BY <3>1, <3>2
    <2>5. OneUploadPerControl'
      BY <1>1 DEF OneUploadPerControl, Sending
    <2> QED
      BY <1>1, <2>1, <2>3, <2>4, <2>5, ActsWithoutUpload, BlankConfiguration DEF UndisturbedFormKeepsEntries,
        UndisturbedUpload
  <1> QED BY <1>2, <1>3

LEMMA SetValueInv == ASSUME FormInv, NEW k \in Keys, NEW v \in Entries, SetValue(k, v) PROVE FormInv'
  <1> USE DEF FormInv, FormInvariant
  <1>1. /\ UNCHANGED <<catalog, selected, jsonError, mount, upload>> /\ Act
        /\ k \in Fields(selected) /\ k # JsonKey
        /\ values' = WithValue(selected, values, k, v) /\ intended' = [intended EXCEPT ![k] = v]
        /\ raw' = RawAfter(selected, values')
    BY DEF SetValue
  <1>2. values \in Configurations /\ values' \in Configurations /\ \A m \in Keys \ Fields(selected) : values'[m] = Unset
    <2>1. values \in Configurations
      BY DEF FormTypeOK
    <2>2. values' \in Configurations
      BY <1>1, <2>1, WithValueFacts
    <2> QED BY <1>1, <2>1, <2>2, WithValueUnset
  <1>3. selected \in Components
    BY <1>1 DEF FormTypeOK, Fields
  <1>4. FormTypeOK'
    <2>1. raw' \in Entries \cup {Garbage}
      BY <1>1, <1>2, RawType
    <2>2. intended' \in Configurations
      BY <1>1 DEF FormTypeOK, Configurations
    <2> QED BY <1>1, <1>2, <2>1, <2>2 DEF FormTypeOK, Act
  <1>5. JsonShowsItsValue'
    BY <1>1, <1>2, <1>3, RawFollows DEF JsonShowsItsValue
  <1>6. OneUploadPerControl'
    BY <1>1 DEF OneUploadPerControl, Sending
  <1>7. ASSUME ~disturbed' PROVE values' = intended' /\ Sending' = {}
    <2>1. ~disturbed /\ Sending' = {}
      BY <1>1, <1>7, ActsWithoutUpload
    <2>2. values' = [values EXCEPT ![k] = v]
      BY <1>1, <1>2, <2>1, WithOwnValue DEF UndisturbedUpload
    <2> QED BY <1>1, <2>1, <2>2 DEF UndisturbedFormKeepsEntries
  <1> QED BY <1>1, <1>2, <1>4, <1>5, <1>6, <1>7 DEF UndisturbedFormKeepsEntries, UndisturbedUpload

LEMMA ChangeJsonInv == ASSUME FormInv, NEW text \in Entries \cup {Garbage}, ChangeJson(text) PROVE FormInv'
  <1> USE DEF FormInv, FormInvariant
  <1>0. JsonKey \in Keys /\ Garbage \notin Entries
    BY FormAssumption DEF Entries
  <1>1. /\ UNCHANGED <<catalog, selected, mount, upload>> /\ Act
        /\ JsonKey \in Fields(selected) /\ raw' = text /\ jsonError' = (text = Garbage)
    BY DEF ChangeJson
  <1>2. CASE text = Garbage
    <2>1. UNCHANGED <<values, intended>> /\ jsonError'
      BY <1>1, <1>2 DEF ChangeJson
    <2>2. FormTypeOK'
      BY <1>1, <2>1 DEF FormTypeOK, Act
    <2> QED
      BY <1>1, <2>1, <2>2, ActsWithoutUpload DEF JsonShowsItsValue, OneUploadPerControl,
        UndisturbedFormKeepsEntries, UndisturbedUpload, Sending
  <1>3. CASE text # Garbage
    <2>1. /\ text \in Entries /\ values' = WithValue(selected, values, JsonKey, text)
          /\ intended' = [intended EXCEPT ![JsonKey] = text]
      BY <1>3 DEF ChangeJson
    <2>2. /\ values \in Configurations /\ values' \in Configurations /\ values'[JsonKey] = text
          /\ \A m \in Keys \ Fields(selected) : values'[m] = Unset
      <3>1. values \in Configurations
        BY DEF FormTypeOK
      <3>2. values' \in Configurations /\ values'[JsonKey] = text
        BY <1>0, <1>1, <2>1, <3>1, WithValueFacts
      <3> QED BY <2>1, <3>1, <3>2, WithValueUnset
    <2>3. FormTypeOK'
      <3>1. intended' \in Configurations
        BY <1>0, <2>1 DEF FormTypeOK, Configurations
      <3> QED BY <1>1, <2>1, <2>2, <3>1 DEF FormTypeOK, Act
    <2>4. JsonShowsItsValue' /\ OneUploadPerControl'
      BY <1>1, <2>2 DEF JsonShowsItsValue, OneUploadPerControl, Sending
    <2>5. ASSUME ~disturbed' PROVE values' = intended' /\ Sending' = {}
      <3>1. ~disturbed /\ Sending' = {}
        BY <1>1, <2>5, ActsWithoutUpload
      <3>2. values' = [values EXCEPT ![JsonKey] = text]
        BY <1>0, <1>1, <2>1, <2>2, <3>1, WithOwnValue DEF UndisturbedUpload
      <3> QED BY <2>1, <3>1, <3>2 DEF UndisturbedFormKeepsEntries
    <2> QED BY <1>1, <2>2, <2>3, <2>4, <2>5 DEF UndisturbedFormKeepsEntries, UndisturbedUpload
  <1> QED BY <1>2, <1>3

LEMMA StartUploadInv == ASSUME FormInv, NEW u \in UploadIds, StartUpload(u) PROVE FormInv'
  <1> USE DEF FormInv, FormInvariant
  <1> DEFINE started == [at |-> "sending", mount |-> mount, component |-> selected, base |-> values]
  <1>1. /\ UNCHANGED <<catalog, selected, values, raw, jsonError, mount, intended, edits>>
        /\ FileKey \in Fields(selected) /\ ~Uploading /\ upload[u].at = "none"
        /\ upload' = [upload EXCEPT ![u] = started] /\ disturbed' = (disturbed \/ Sending # {})
    BY DEF StartUpload
  <1>2. FormTypeOK'
    BY <1>1 DEF FormTypeOK
  <1>3. Sending' = Sending \cup {u} /\ upload'[u] = started /\ \A v \in Sending : v # u /\ upload'[v] = upload[v]
    BY <1>1 DEF Sending, FormTypeOK
  <1>4. OneUploadPerControl'
    BY <1>1, <1>3 DEF OneUploadPerControl, Uploading
  <1>5. JsonShowsItsValue' /\ UndisturbedFormKeepsEntries'
    BY <1>1 DEF JsonShowsItsValue, UndisturbedFormKeepsEntries
  <1>6. ASSUME ~disturbed' PROVE ~disturbed /\ Sending' = {u}
    BY <1>1, <1>3, <1>6
  <1>7. UndisturbedUpload'
    BY <1>1, <1>3, <1>6 DEF UndisturbedUpload
  <1> QED
    BY <1>2, <1>4, <1>5, <1>7

\* An upload that has settled is no longer under way.
LEMMA SettledUpload ==
  ASSUME FormInv, NEW u \in UploadIds, upload[u].at = "sending",
         upload' = [upload EXCEPT ![u] = [NoUpload EXCEPT !.at = "settled"]]
  PROVE  /\ Sending' = Sending \ {u} /\ \A v \in Sending' : upload'[v] = upload[v]
         /\ upload' \in [UploadIds -> [at : {"none", "sending", "settled"}, mount : Nat,
                                       component : Components \cup {None}, base : Configurations]]
  <1>1. [NoUpload EXCEPT !.at = "settled"] = [at |-> "settled", mount |-> 0, component |-> None, base |-> Blank]
    BY DEF NoUpload
  <1> QED BY <1>1, BlankConfiguration DEF FormInv, FormInvariant, FormTypeOK, Sending

LEMMA UploadInv == ASSUME FormInv, NEW u \in UploadIds, UploadSettles(u) PROVE FormInv'
  <1> USE DEF FormInv, FormInvariant
  <1>1. upload[u].at = "sending" /\ upload' = [upload EXCEPT ![u] = [NoUpload EXCEPT !.at = "settled"]]
    BY DEF UploadSettles, UploadFails, UploadSucceeds
  <1>2. UNCHANGED <<catalog, selected, jsonError, mount, disturbed, edits>>
    BY DEF UploadSettles, UploadFails, UploadSucceeds
  <1>3. OneUploadPerControl'
    <2>1. Sending' \subseteq Sending /\ \A v \in Sending' : upload'[v] = upload[v]
      BY <1>1, SettledUpload
    <2> QED BY <2>1 DEF OneUploadPerControl
  <1>4. CASE UploadFails(u)
    <2>1. UNCHANGED <<values, raw, intended>>
      BY <1>4 DEF UploadFails
    <2>2. FormTypeOK'
      BY <1>1, <1>2, <2>1, SettledUpload DEF FormTypeOK
    <2> QED
      BY <1>1, <1>2, <1>3, <2>1, <2>2, SettledUpload, ZenonT(30) DEF JsonShowsItsValue, UndisturbedFormKeepsEntries,
        UndisturbedUpload
  <1>5. ASSUME NEW path \in Values, UploadSucceeds(u, path) PROVE FormInv'
    <2>0. FileKey \in Keys /\ path \in Entries
      BY FormAssumption DEF Entries
    <2>1. /\ values' = WithValue(upload[u].component, upload[u].base, FileKey, path)
          /\ intended' = IF FileKey \in Fields(selected) THEN [intended EXCEPT ![FileKey] = path] ELSE intended
          /\ raw' = RawAfter(selected, values')
      BY <1>5 DEF UploadSucceeds
    <2>2. values' \in Configurations
      BY <2>0, <2>1, WithValueFacts DEF FormTypeOK
    <2>3. FormTypeOK'
      <3>1. raw' \in Entries \cup {Garbage}
        BY <2>1, <2>2, RawType
      <3>2. intended' \in Configurations
        BY <2>0, <2>1 DEF FormTypeOK, Configurations
      <3> QED BY <1>1, <1>2, <2>2, <3>1, <3>2, SettledUpload DEF FormTypeOK
    <2>4. JsonShowsItsValue'
      <3> SUFFICES ASSUME JsonKey \in Fields(selected), ~jsonError PROVE raw' = values'[JsonKey]
        BY <1>2 DEF JsonShowsItsValue
      <3>1. selected \in Components
        BY DEF FormTypeOK, Fields
      <3> QED BY <2>1, <2>2, <3>1, RawFollows
    <2>5. ASSUME ~disturbed
          PROVE  values' = intended' /\ Sending' = {} /\ \A m \in Keys \ Fields(selected) : values'[m] = Unset
      <3>1. /\ upload[u].base = values /\ upload[u].component = selected /\ FileKey \in Fields(selected)
            /\ Sending = {u}
        BY <1>1, <2>5 DEF UndisturbedUpload, Sending
      <3>2. values' = [values EXCEPT ![FileKey] = path]
        BY <2>0, <2>1, <2>5, <3>1, WithOwnValue DEF UndisturbedUpload, FormTypeOK
      <3>3. \A m \in Keys \ Fields(selected) : values'[m] = Unset
        BY <2>1, <3>1, WithValueUnset
      <3> QED BY <1>1, <2>1, <2>5, <3>1, <3>2, <3>3, SettledUpload DEF UndisturbedFormKeepsEntries
    <2> QED BY <1>2, <1>3, <2>3, <2>4, <2>5 DEF UndisturbedFormKeepsEntries, UndisturbedUpload
  <1> QED BY <1>4, <1>5 DEF UploadSettles

LEMMA FormNextInv == ASSUME FormInv, [FormNext]_formVars PROVE FormInv'
  BY CatalogSteps, SelectInv, SetValueInv, ChangeJsonInv, StartUploadInv, UploadInv DEF FormNext

\* Whatever is edited, selected and uploaded in whatever order: a JSON control
\* without an error shows what would be saved (JsonConfigurationInput), a file
\* control has one upload under way, and what was entered is lost only to edits
\* during an upload (updateValue of the render that started it).
THEOREM FormStaysTrue == FormSpec => []FormInvariant
  <1>1. FormInv => FormInvariant
    BY DEF FormInv
  <1> QED BY <1>1, FormInitInv, FormNextInv, PTL DEF FormSpec
=============================================================================

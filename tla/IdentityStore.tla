----------------------------- MODULE IdentityStore -----------------------------
(***************************************************************************)
(* The users of the chat (app/identity/service.py, repository.py) in       *)
(* several processes on one SQLite database: provisioning, logins, and the *)
(* first login of the account named by the environment, which persists it. *)
(* A login looks the user up, may insert it, and verifies the password, in *)
(* statements of their own.  Each process has the environment it was       *)
(* started with, in which the password hash may differ from the last one.  *)
(*                                                                         *)
(* Passwords and their hashes are one here.  A record's user_id is fresh,  *)
(* so the request that made the record stands for it.  Roles, the flag     *)
(* that disables a user, and the check of a run's owner are left out.      *)
(***************************************************************************)
EXTENDS SchemaMigrations

CONSTANTS
  Logins,     \* calls of authenticate and provision_user
  Names,      \* usernames, normalized
  Bootstrap,  \* UAR_AUTH_USERNAME
  Secrets     \* passwords

User == [id : Logins, secret : Secrets]

ASSUME BootstrapAssumption == Bootstrap \in Names
ASSUME NoneIsNoUser == None \notin User \cup Secrets \cup Names

VARIABLES
  environment,  \* environment[p]: UAR_AUTH_PASSWORD_HASH of process p
  users,        \* users[n]: the row of username n
  step,         \* step[a]: the next step of call a
  host,         \* host[a]: the process of call a
  asked,        \* asked[a]: its username and password
  user          \* user[a]: the record it holds

loginVars == <<step, host, asked, user>>
vars == <<migrationVars, environment, users, loginVars>>

LoginEnded == {"granted", "denied", "raised", "provisioned", "lost"}

TypeOK ==
  /\ MigrationTypeOK
  /\ environment \in [Processes -> Secrets]
  /\ users \in [Names -> User \cup {None}]
  /\ step \in [Logins -> {"idle", "lookup", "bootstrap", "create", "verify"} \cup LoginEnded]
  /\ host \in [Logins -> Processes \cup {None}]
  /\ asked \in [Logins -> [name : Names, secret : Secrets] \cup {None}]
  /\ user \in [Logins -> User \cup {None}]

Init ==
  /\ MigrationInit
  /\ environment \in [Processes -> Secrets]
  /\ users = [n \in Names |-> None]
  /\ step = [a \in Logins |-> "idle"]
  /\ host = [a \in Logins |-> None]
  /\ asked = [a \in Logins |-> None]
  /\ user = [a \in Logins |-> None]

Goto(a, s) == step' = [step EXCEPT ![a] = s]

-------------------------------------------------------------------------------
\* A user asks process p to log in.
Ask(a, p, n, secret) ==
  /\ step[a] = "idle"
  /\ boot[p] = "ready"
  /\ host' = [host EXCEPT ![a] = p]
  /\ asked' = [asked EXCEPT ![a] = [name |-> n, secret |-> secret]]
  /\ Goto(a, "lookup")
  /\ UNCHANGED <<migrationVars, environment, users, user>>

\* get_by_username.
Lookup(a) ==
  /\ step[a] = "lookup"
  /\ LET row == users[asked[a].name] IN
       IF row = None
       THEN Goto(a, "bootstrap") /\ UNCHANGED user
       ELSE Goto(a, "verify") /\ user' = [user EXCEPT ![a] = row]
  /\ UNCHANGED <<migrationVars, environment, users, host, asked>>

\* An unknown user must be the one of the environment, with its password.
CheckEnvironment(a) ==
  /\ step[a] = "bootstrap"
  /\ Goto(a, IF asked[a] = [name |-> Bootstrap, secret |-> environment[host[a]]]
             THEN "create" ELSE "denied")
  /\ UNCHANGED <<migrationVars, environment, users, host, asked, user>>

\* Faulty: INSERT OR REPLACE.
CreateOver(a) ==
  /\ step[a] = "create"
  /\ LET new == [id |-> a, secret |-> environment[host[a]]] IN
       /\ users' = [users EXCEPT ![Bootstrap] = new]
       /\ user' = [user EXCEPT ![a] = new]
  /\ Goto(a, "verify")
  /\ UNCHANGED <<migrationVars, environment, host, asked>>

\* Faulty: a name that is taken by now is passed over.
CreateAnyhow(a) ==
  /\ step[a] = "create"
  /\ LET new == [id |-> a, secret |-> environment[host[a]]] IN
       /\ users' = [users EXCEPT ![Bootstrap] = IF @ = None THEN new ELSE @]
       /\ user' = [user EXCEPT ![a] = new]
  /\ Goto(a, "verify")
  /\ UNCHANGED <<migrationVars, environment, host, asked>>

\* create: the user of the environment is inserted; a name that is taken by
\* now raises ValueError, out of authenticate.
Create(a) ==
  /\ step[a] = "create"
  /\ LET new == [id |-> a, secret |-> environment[host[a]]] IN
       IF users[Bootstrap] = None
       THEN /\ users' = [users EXCEPT ![Bootstrap] = new]
            /\ user' = [user EXCEPT ![a] = new]
            /\ Goto(a, "verify")
       ELSE Goto(a, "raised") /\ UNCHANGED <<users, user>>
  /\ UNCHANGED <<migrationVars, environment, host, asked>>

Verify(a) ==
  /\ step[a] = "verify"
  /\ Goto(a, IF user[a].secret = asked[a].secret THEN "granted" ELSE "denied")
  /\ UNCHANGED <<migrationVars, environment, users, host, asked, user>>

\* The database is busy or damaged.
LoginRaises(a) ==
  /\ step[a] \in {"lookup", "create"}
  /\ Goto(a, "raised")
  /\ UNCHANGED <<migrationVars, environment, users, host, asked, user>>

\* provision_user: a user is added with a password of its own.  A name that is
\* taken raises ValueError.
Provision(a, p, n, secret) ==
  /\ step[a] = "idle"
  /\ boot[p] = "ready"
  /\ users[n] = None
  /\ users' = [users EXCEPT ![n] = [id |-> a, secret |-> secret]]
  /\ host' = [host EXCEPT ![a] = p]
  /\ Goto(a, "provisioned")
  /\ UNCHANGED <<migrationVars, environment, asked, user>>

\* A process dies with its logins; it may come back with another password in
\* its environment.
Stop(p) ==
  /\ Die(p)
  /\ \E s \in Secrets : environment' = [environment EXCEPT ![p] = s]
  /\ step' = [a \in Logins |-> IF host[a] = p /\ step[a] \notin LoginEnded
                               THEN "lost" ELSE step[a]]
  /\ UNCHANGED <<users, host, asked, user>>

BootStep(p) == MigrationStep(p) /\ UNCHANGED <<environment, users, loginVars>>

LoginStep(a) ==
  \/ Lookup(a) \/ CheckEnvironment(a) \/ Create(a) \/ Verify(a) \/ LoginRaises(a)

Next ==
  \/ \E p \in Processes : BootStep(p) \/ Stop(p)
  \/ \E a \in Logins : LoginStep(a)
  \/ \E a \in Logins, p \in Processes, n \in Names, secret \in Secrets :
        Ask(a, p, n, secret) \/ Provision(a, p, n, secret)

Spec == Init /\ [][Next]_vars

-------------------------------------------------------------------------------
\* "An existing database record is never silently overwritten by the
\* environment configuration" (docs/M26_MULTI_USER_IDENTITY.md:40): not by two
\* first logins in processes whose environments differ, nor by a user that was
\* provisioned in between (identity/service.py:44-102, repository.py:115-153).
RecordsAreKept ==
  [][\A n \in Names : users[n] # None => users'[n] = users[n]]_vars

\* Whoever is logged in was checked against the record there is for the name,
\* and holds the id of that record, under which runs are owned and the identity
\* is looked up again (identity/service.py:56-67, ui/chainlit_app.py:50-64).
GrantIsOnRecord ==
  \A a \in Logins : step[a] = "granted" =>
    /\ users[asked[a].name] = user[a]
    /\ user[a].secret = asked[a].secret

\* Who has been logged in: the name and password given, the id received.
Granted ==
  {[name |-> asked[a].name, secret |-> asked[a].secret, id |-> user[a].id] :
     a \in {b \in Logins : step[b] = "granted"}}

Accounts == INSTANCE AccountBook WITH
  schema   <- versions,
  accounts <- users,
  admitted <- Granted

\* Processes that boot, die, provision and log in implement one book of
\* accounts: migrations take effect in order, an account is opened only in a
\* complete schema and stays as it is, and a login is let in on what it says
\* (migrations.py:49-73, identity/service.py:44-122, repository.py:115-153).
KeepsAccounts == Accounts!Spec
===============================================================================

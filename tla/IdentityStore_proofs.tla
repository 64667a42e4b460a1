------------------------- MODULE IdentityStore_proofs -------------------------
(***************************************************************************)
(* Theorems about SchemaMigrations and IdentityStore, for any number of    *)
(* processes, migrations, logins, names and secrets.                       *)
(***************************************************************************)
EXTENDS IdentityStore, TLAPS

\* What a process in migrate relies on: the write transaction is its own, the
\* version it is about to insert is not there, and all up to the one it has
\* reached are.
BootInv ==
  \A p \in Processes :
    /\ boot[p] \in {"insert", "commit"} => writer = p /\ current[p] < Latest
    /\ boot[p] = "commit" => current[p] + 1 \notin versions
    /\ boot[p] \in {"next", "insert", "commit"} => 1 .. current[p] \subseteq versions

MigrationInv == MigrationTypeOK /\ BootInv /\ MigratedOnce

Question == [name : Names, secret : Secrets]

\* What a login relies on: it has a process and a question, only the user of
\* the environment is inserted, and the record it holds is the one on record.
LoginInv ==
  \A a \in Logins :
    /\ step[a] \in {"lookup", "bootstrap", "create", "verify", "granted"} =>
         host[a] \in Processes /\ asked[a] \in Question
    /\ step[a] = "create" => asked[a].name = Bootstrap
    /\ step[a] \in {"verify", "granted"} =>
         user[a] \in User /\ users[asked[a].name] = user[a]

-------------------------------------------------------------------------------
(* The migrations.                                                         *)

LEMMA MigrationInitially == MigrationInit => MigrationInv
  BY LatestAssumption, NoneIsNoProcess
  DEF MigrationInit, MigrationInv, MigrationTypeOK, BootInv, MigratedOnce, Versions

LEMMA StartStep ==
  ASSUME MigrationInv, NEW p \in Processes, Start(p)
  PROVE  MigrationInv'
  BY LatestAssumption
  DEF Start, To, MigrationInv, MigrationTypeOK, BootInv, MigratedOnce, Versions

\* The largest version on record has all the ones before it.
LEMMA ReadVersionStep ==
  ASSUME MigrationInv, NEW p \in Processes, ReadVersion(p)
  PROVE  MigrationInv'
<1> USE LatestAssumption DEF MigrationInv, MigrationTypeOK, Versions
<1>1. MigrationTypeOK'
  BY DEF ReadVersion, To
<1>2. 1 .. current'[p] \subseteq versions
  BY DEF ReadVersion, MigratedOnce
<1>3. BootInv'
  BY <1>2 DEF ReadVersion, To, BootInv
<1>4. MigratedOnce'
  BY DEF ReadVersion, To, MigratedOnce
<1> QED BY <1>1, <1>3, <1>4

LEMMA ApplyStep ==
  ASSUME MigrationInv, NEW p \in Processes, Apply(p)
  PROVE  MigrationInv'
<1> USE LatestAssumption, NoneIsNoProcess DEF MigrationInv, MigrationTypeOK, Versions
<1>1. MigrationTypeOK'
  BY DEF Apply, To
<1>2. BootInv'
  BY DEF Apply, To, BootInv
<1>3. MigratedOnce'
  BY DEF Apply, To, MigratedOnce
<1> QED BY <1>1, <1>2, <1>3

LEMMA InsertVersionStep ==
  ASSUME MigrationInv, NEW p \in Processes, InsertVersion(p)
  PROVE  MigrationInv'
<1> USE LatestAssumption, NoneIsNoProcess DEF MigrationInv, MigrationTypeOK, Versions
<1>1. MigrationTypeOK'
  BY DEF InsertVersion, To
<1>2. \A q \in Processes \ {p} : boot[q] \notin {"insert", "commit"}
  BY DEF InsertVersion, BootInv
<1>3. BootInv'
  BY <1>2 DEF InsertVersion, To, BootInv
<1>4. MigratedOnce'
  BY DEF InsertVersion, To, MigratedOnce
<1> QED BY <1>1, <1>3, <1>4

LEMMA CommitStep ==
  ASSUME MigrationInv, NEW p \in Processes, Commit(p)
  PROVE  MigrationInv'
<1> USE LatestAssumption, NoneIsNoProcess DEF MigrationInv, MigrationTypeOK, Versions
<1> DEFINE v == current[p] + 1
<1>1. /\ v \in Versions /\ v \notin versions
      /\ 1 .. current[p] \subseteq versions
  BY DEF Commit, BootInv
<1>2. \A q \in Processes \ {p} : boot[q] \notin {"insert", "commit"}
  BY DEF Commit, BootInv
<1>3. /\ versions' = versions \cup {v}
      /\ applied' = [applied EXCEPT ![v] = applied[v] + 1]
      /\ current' = [current EXCEPT ![p] = v]
      /\ boot' = [boot EXCEPT ![p] = "next"]
      /\ writer' = None
  BY DEF Commit, To
<1>4. MigrationTypeOK'
  <2>1. v \in 0 .. Latest
    BY <1>1
  <2>4. current' \in [Processes -> 0 .. Latest]
    <3> HIDE DEF v
    <3> QED BY <2>1, <1>3
  <2>5. versions' \subseteq Versions
    BY <1>1, <1>3
  <2>2. applied' \in [Versions -> Nat]
    BY <1>1, <1>3
  <2>3. /\ boot' \in [Processes -> {"down", "read", "next", "insert", "commit", "ready", "failed"}]
        /\ writer' \in Processes \cup {None}
    BY <1>3
  <2> QED BY <2>2, <2>3, <2>4, <2>5
<1>5. 1 .. v \subseteq versions'
  BY <1>1, <1>3
<1>6. BootInv'
  BY <1>1, <1>2, <1>3, <1>5 DEF BootInv
<1>7. MigratedOnce'
  <2>1. \A w \in Versions : applied'[w] = IF w \in versions' THEN 1 ELSE 0
    BY <1>1, <1>3 DEF MigratedOnce
  <2>2. \A w \in versions' : 1 .. w \subseteq versions'
    BY <1>3, <1>5 DEF MigratedOnce
  <2>3. \A q \in Processes : boot'[q] = "ready" => versions' = Versions
    BY <1>1, <1>3 DEF MigratedOnce
  <2> QED BY <2>1, <2>2, <2>3 DEF MigratedOnce
<1> QED BY <1>4, <1>6, <1>7

\* Failing and dying only give up the write transaction.
LEMMA GivingUp ==
  ASSUME MigrationInv, NEW p \in Processes, NEW s \in {"failed", "down"},
         To(p, s), writer' = IF writer = p THEN None ELSE writer,
         UNCHANGED <<current, versions, applied>>
  PROVE  MigrationInv'
<1> USE LatestAssumption, NoneIsNoProcess DEF MigrationInv, MigrationTypeOK, Versions
<1>1. MigrationTypeOK'
  BY DEF To
<1>2. BootInv'
  BY DEF To, BootInv
<1>3. MigratedOnce'
  BY DEF To, MigratedOnce
<1> QED BY <1>1, <1>2, <1>3

LEMMA ReadyStep ==
  ASSUME MigrationInv, NEW p \in Processes, Ready(p)
  PROVE  MigrationInv'
<1> USE LatestAssumption DEF MigrationInv, MigrationTypeOK, Versions
<1>1. MigrationTypeOK'
  BY DEF Ready, To
<1>2. versions = Versions
  BY DEF Ready, BootInv
<1>3. BootInv'
  BY DEF Ready, To, BootInv
<1>4. MigratedOnce'
  BY <1>2 DEF Ready, To, MigratedOnce
<1> QED BY <1>1, <1>3, <1>4

LEMMA MigrationUnchanged ==
  ASSUME MigrationInv, UNCHANGED migrationVars
  PROVE  MigrationInv'
  BY DEF migrationVars, MigrationInv, MigrationTypeOK, BootInv, MigratedOnce, Versions

LEMMA BootingKeepsMigrationInv ==
  ASSUME MigrationInv, NEW p \in Processes, MigrationStep(p) \/ Die(p)
  PROVE  MigrationInv'
<1>1. CASE Start(p) BY <1>1, StartStep
<1>2. CASE ReadVersion(p) BY <1>2, ReadVersionStep
<1>3. CASE Apply(p) BY <1>3, ApplyStep
<1>4. CASE InsertVersion(p) BY <1>4, InsertVersionStep
<1>5. CASE Commit(p) BY <1>5, CommitStep
<1>6. CASE MigrationRaises(p) BY <1>6, GivingUp DEF MigrationRaises
<1>7. CASE Ready(p) BY <1>7, ReadyStep
<1>8. CASE Die(p) BY <1>8, GivingUp DEF Die
<1> QED BY <1>1, <1>2, <1>3, <1>4, <1>5, <1>6, <1>7, <1>8 DEF MigrationStep

-------------------------------------------------------------------------------
(* The logins.                                                             *)

\* The part of the invariant that the users and the calls are in.
UsersTypeOK ==
  /\ environment \in [Processes -> Secrets]
  /\ users \in [Names -> User \cup {None}]
  /\ step \in [Logins -> {"idle", "lookup", "bootstrap", "create", "verify"} \cup LoginEnded]
  /\ host \in [Logins -> Processes \cup {None}]
  /\ asked \in [Logins -> Question \cup {None}]
  /\ user \in [Logins -> User \cup {None}]

UsersInv == UsersTypeOK /\ LoginInv /\ GrantIsOnRecord

LEMMA LoginsInitially == Init => UsersInv
  BY DEF Init, UsersInv, UsersTypeOK, LoginInv, GrantIsOnRecord

LEMMA AskStep ==
  ASSUME UsersInv, NEW a \in Logins, NEW p \in Processes, NEW n \in Names,
         NEW secret \in Secrets, Ask(a, p, n, secret)
  PROVE  UsersInv'
<1> USE NoneIsNoUser DEF UsersInv, UsersTypeOK
<1>1. UsersTypeOK'
  BY DEF Ask, Goto, Question
<1>2. asked'[a] \in Question
  BY DEF Ask, Question
<1>3. LoginInv'
  BY <1>2 DEF Ask, Goto, LoginInv
<1>4. GrantIsOnRecord'
  BY DEF Ask, Goto, GrantIsOnRecord, LoginEnded
<1> QED BY <1>1, <1>3, <1>4

LEMMA LookupStep ==
  ASSUME UsersInv, NEW a \in Logins, Lookup(a)
  PROVE  UsersInv'
<1> USE NoneIsNoUser DEF UsersInv, UsersTypeOK
<1>1. asked[a] \in Question /\ asked[a].name \in Names
  BY DEF Lookup, LoginInv, Question
<1>2. UsersTypeOK'
  BY <1>1 DEF Lookup, Goto
<1>3. LoginInv'
  BY <1>1 DEF Lookup, Goto, LoginInv
<1>4. GrantIsOnRecord'
  BY DEF Lookup, Goto, GrantIsOnRecord
<1> QED BY <1>2, <1>3, <1>4

LEMMA CheckEnvironmentStep ==
  ASSUME UsersInv, NEW a \in Logins, CheckEnvironment(a)
  PROVE  UsersInv'
<1> USE NoneIsNoUser DEF UsersInv, UsersTypeOK
<1>1. UsersTypeOK'
  BY DEF CheckEnvironment, Goto, LoginEnded
<1>2. step'[a] = "create" => asked[a].name = Bootstrap
  BY DEF CheckEnvironment, Goto
<1>3. LoginInv'
  BY <1>2 DEF CheckEnvironment, Goto, LoginInv
<1>4. GrantIsOnRecord'
  BY DEF CheckEnvironment, Goto, GrantIsOnRecord
<1> QED BY <1>1, <1>3, <1>4

\* Where a row is added there was none, so what others hold is another one.
LEMMA AddingKeepsTheRest ==
  ASSUME UsersInv, NEW n \in Names, NEW new \in User, users[n] = None,
         users' = [users EXCEPT ![n] = new],
         NEW b \in Logins, step[b] \in {"verify", "granted"}
  PROVE  users'[asked[b].name] = user[b]
<1> USE NoneIsNoUser DEF UsersInv, UsersTypeOK, LoginInv
<1>1. /\ asked[b] \in Question
      /\ user[b] \in User
      /\ users[asked[b].name] = user[b]
  OBVIOUS
<1>2. asked[b].name \in Names /\ asked[b].name # n
  BY <1>1 DEF Question
<1> QED BY <1>1, <1>2

LEMMA CreateStep ==
  ASSUME UsersInv, NEW a \in Logins, Create(a)
  PROVE  UsersInv'
<1> USE NoneIsNoUser, BootstrapAssumption DEF UsersInv, UsersTypeOK
<1> DEFINE new == [id |-> a, secret |-> environment[host[a]]]
<1>1. new \in User /\ asked[a].name = Bootstrap
  BY DEF Create, LoginInv, User
<1>2. CASE users[Bootstrap] = None
  <2>1. /\ users' = [users EXCEPT ![Bootstrap] = new]
        /\ user' = [user EXCEPT ![a] = new]
        /\ step' = [step EXCEPT ![a] = "verify"]
        /\ UNCHANGED <<environment, host, asked>>
    BY <1>2 DEF Create, Goto
  <2>2. UsersTypeOK'
    BY <1>1, <2>1
  <2>3. \A b \in Logins \ {a} : step[b] \in {"verify", "granted"} =>
          users'[asked[b].name] = user[b]
    BY <1>1, <1>2, <2>1, AddingKeepsTheRest
  <2>4. users'[asked[a].name] = new /\ user'[a] = new
    BY <1>1, <2>1
  <2>5. LoginInv'
    BY <1>1, <2>1, <2>3, <2>4 DEF Create, LoginInv
  <2>6. GrantIsOnRecord'
    BY <2>1, <2>3 DEF GrantIsOnRecord
  <2> QED BY <2>2, <2>5, <2>6
<1>3. CASE users[Bootstrap] # None
  <2>1. /\ step' = [step EXCEPT ![a] = "raised"]
        /\ UNCHANGED <<environment, users, host, asked, user>>
    BY <1>3 DEF Create, Goto
  <2> QED BY <2>1 DEF LoginInv, GrantIsOnRecord, LoginEnded
<1> QED BY <1>2, <1>3

LEMMA VerifyStep ==
  ASSUME UsersInv, NEW a \in Logins, Verify(a)
  PROVE  UsersInv'
<1> USE NoneIsNoUser DEF UsersInv, UsersTypeOK
<1>1. UsersTypeOK'
  BY DEF Verify, Goto, LoginEnded
<1>2. LoginInv'
  BY DEF Verify, Goto, LoginInv
<1>3. GrantIsOnRecord'
  BY DEF Verify, Goto, GrantIsOnRecord, LoginInv
<1> QED BY <1>1, <1>2, <1>3

LEMMA LoginRaisesStep ==
  ASSUME UsersInv, NEW a \in Logins, LoginRaises(a)
  PROVE  UsersInv'
  BY DEF LoginRaises, Goto, UsersInv, UsersTypeOK, LoginInv, GrantIsOnRecord, LoginEnded

LEMMA ProvisionStep ==
  ASSUME UsersInv, NEW a \in Logins, NEW p \in Processes, NEW n \in Names,
         NEW secret \in Secrets, Provision(a, p, n, secret)
  PROVE  UsersInv'
<1> USE NoneIsNoUser DEF UsersInv, UsersTypeOK
<1> DEFINE new == [id |-> a, secret |-> secret]
<1>1. /\ users[n] = None /\ new \in User
      /\ users' = [users EXCEPT ![n] = new]
      /\ host' = [host EXCEPT ![a] = p]
      /\ step' = [step EXCEPT ![a] = "provisioned"]
      /\ UNCHANGED <<environment, asked, user>>
  BY DEF Provision, Goto, User
<1>2. UsersTypeOK'
  BY <1>1 DEF LoginEnded
<1>3. \A b \in Logins : step[b] \in {"verify", "granted"} => users'[asked[b].name] = user[b]
  BY <1>1, AddingKeepsTheRest
<1>4. LoginInv'
  BY <1>1, <1>3 DEF LoginInv
<1>5. GrantIsOnRecord'
  BY <1>1, <1>3 DEF GrantIsOnRecord
<1> QED BY <1>2, <1>4, <1>5

LEMMA StopStep ==
  ASSUME UsersInv, NEW p \in Processes, Stop(p)
  PROVE  UsersInv'
<1> USE DEF UsersInv, UsersTypeOK
<1>1. UsersTypeOK'
  BY DEF Stop, LoginEnded
<1>2. LoginInv'
  BY DEF Stop, LoginInv
<1>3. GrantIsOnRecord'
  BY DEF Stop, GrantIsOnRecord
<1> QED BY <1>1, <1>2, <1>3

-------------------------------------------------------------------------------
(* The theorems.                                                           *)

LEMMA EveryStep ==
  ASSUME MigrationInv, UsersInv, [Next]_vars
  PROVE  MigrationInv' /\ UsersInv'
<1>1. CASE \E p \in Processes : BootStep(p)
  <2>1. UNCHANGED <<environment, users, loginVars>>
    BY <1>1 DEF BootStep
  <2>2. UsersInv'
    BY <2>1 DEF UsersInv, UsersTypeOK, LoginInv, GrantIsOnRecord, loginVars
  <2> QED BY <1>1, <2>2, BootingKeepsMigrationInv DEF BootStep
<1>2. CASE \E p \in Processes : Stop(p)
  BY <1>2, StopStep, BootingKeepsMigrationInv DEF Stop
<1>3. CASE \E a \in Logins : LoginStep(a)
  <2>1. UNCHANGED migrationVars
    BY <1>3 DEF LoginStep, Lookup, CheckEnvironment, Create, Verify, LoginRaises
  <2>2. UsersInv'
    BY <1>3, LookupStep, CheckEnvironmentStep, CreateStep, VerifyStep, LoginRaisesStep DEF LoginStep
  <2> QED BY <2>1, <2>2, MigrationUnchanged
<1>4. CASE \E a \in Logins, p \in Processes, n \in Names, secret \in Secrets :
             Ask(a, p, n, secret) \/ Provision(a, p, n, secret)
  <2>1. UNCHANGED migrationVars
    BY <1>4 DEF Ask, Provision
  <2> QED BY <1>4, <2>1, AskStep, ProvisionStep, MigrationUnchanged
<1>5. CASE UNCHANGED vars
  <2>1. UNCHANGED migrationVars /\ UsersInv'
    BY <1>5 DEF vars, loginVars, UsersInv, UsersTypeOK, LoginInv, GrantIsOnRecord
  <2> QED BY <2>1, MigrationUnchanged
<1> QED BY <1>1, <1>2, <1>3, <1>4, <1>5 DEF Next

\* What every process in its boot and every call in a login rely on holds in
\* every reachable state (migrations.py:49-73, identity/service.py:44-102).
THEOREM IdentityInvariance == Spec => [](MigrationInv /\ UsersInv)
<1>1. Init => MigrationInv /\ UsersInv
  BY MigrationInitially, LoginsInitially DEF Init
<1> QED BY <1>1, EveryStep, PTL DEF Spec

\* Every variable keeps its type.
THEOREM IdentityIsTyped == Spec => []TypeOK
<1>1. MigrationInv /\ UsersInv => TypeOK
  BY DEF MigrationInv, UsersInv, UsersTypeOK, TypeOK, Question
<1> QED BY <1>1, IdentityInvariance, PTL

\* Each migration takes effect once and in order, and a process is ready only
\* with all of them, however many boot at the same time or die
\* (migrations.py:49-73).
THEOREM MigrationsRunOnce == Spec => []MigratedOnce
<1>1. MigrationInv /\ UsersInv => MigratedOnce
  BY DEF MigrationInv
<1> QED BY <1>1, IdentityInvariance, PTL

\* Nobody is logged in on a record that is not the one on record
\* (identity/service.py:44-67).
THEOREM GrantsAreOnRecord == Spec => []GrantIsOnRecord
<1>1. MigrationInv /\ UsersInv => GrantIsOnRecord
  BY DEF UsersInv
<1> QED BY <1>1, IdentityInvariance, PTL

\* No login, provisioning, boot or death changes or removes a user's record
\* (identity/repository.py:115-153).
THEOREM NoRecordIsOverwritten == Spec => RecordsAreKept
<1>1. ASSUME UsersInv, [Next]_vars, NEW n \in Names, users[n] # None
      PROVE  users'[n] = users[n]
  <2> USE <1>1 DEF UsersInv, UsersTypeOK
  <2>1. CASE UNCHANGED users
    BY <2>1
  <2>2. CASE \E a \in Logins : Create(a)
    BY <2>2 DEF Create
  <2>3. CASE \E a \in Logins, p \in Processes, m \in Names, secret \in Secrets :
               Provision(a, p, m, secret)
    BY <2>3 DEF Provision
  <2>4. UNCHANGED users \/ (\E a \in Logins : Create(a))
        \/ \E a \in Logins, p \in Processes, m \in Names, secret \in Secrets :
             Provision(a, p, m, secret)
    BY DEF Next, BootStep, Stop, LoginStep, Lookup, CheckEnvironment, Verify, LoginRaises, Ask, vars
  <2> QED BY <2>1, <2>2, <2>3, <2>4
<1>2. MigrationInv /\ UsersInv /\ [Next]_vars =>
        [\A n \in Names : users[n] # None => users'[n] = users[n]]_vars
  BY <1>1
<1> QED BY <1>2, IdentityInvariance, PTL DEF Spec, RecordsAreKept

-------------------------------------------------------------------------------
(* The abstract book of accounts.                                          *)

Active == {"lookup", "bootstrap", "create", "verify"}

\* A call that goes on does so in a process that is ready.
HostInv == \A a \in Logins : step[a] \in Active => boot[host[a]] = "ready"

\* So all migrations are in effect where it goes on.
LEMMA ActiveIsComplete ==
  ASSUME MigrationInv, UsersInv, HostInv, NEW a \in Logins, step[a] \in Active
  PROVE  versions = 1 .. Latest
BY DEF MigrationInv, MigratedOnce, Versions, UsersInv, LoginInv, HostInv, Active

LEMMA HostStep ==
  ASSUME MigrationInv, UsersInv, HostInv, [Next]_vars
  PROVE  HostInv'
<1> USE DEF HostInv, Active, LoginEnded
<1>t. boot \in [Processes -> {"down", "read", "next", "insert", "commit", "ready", "failed"}]
      /\ step \in [Logins -> {"idle", "lookup", "bootstrap", "create", "verify"} \cup LoginEnded]
      /\ host \in [Logins -> Processes \cup {None}]
  BY DEF MigrationInv, MigrationTypeOK, UsersInv, UsersTypeOK
<1>1. ASSUME NEW p \in Processes, BootStep(p) PROVE HostInv'
  <2>1. UNCHANGED <<step, host>>
    BY <1>1 DEF BootStep, loginVars
  <2>2. boot[p] # "ready" /\ \E s : boot' = [boot EXCEPT ![p] = s]
    BY <1>1 DEF BootStep, MigrationStep, Start, ReadVersion, Apply, InsertVersion, Commit,
                MigrationRaises, Ready, To
  <2> QED BY <1>t, <2>1, <2>2
<1>2. ASSUME NEW p \in Processes, Stop(p) PROVE HostInv'
  <2>1. /\ \A q \in Processes \ {p} : boot'[q] = boot[q]
        /\ UNCHANGED host
        /\ \A a \in Logins : step'[a] = IF host[a] = p /\ step[a] \notin LoginEnded
                                        THEN "lost" ELSE step[a]
    BY <1>2, <1>t DEF Stop, Die, To
  <2>2. \A a \in Logins : step[a] \in Active => host[a] \in Processes
    BY DEF UsersInv, LoginInv
  <2> QED BY <2>1, <2>2
<1>3. ASSUME NEW a \in Logins, LoginStep(a) PROVE HostInv'
  <2>1. UNCHANGED <<boot, host>> /\ step[a] \in Active
        /\ \A b \in Logins \ {a} : step'[b] = step[b]
    BY <1>3, <1>t DEF LoginStep, Lookup, CheckEnvironment, Create, Verify, LoginRaises, Goto,
                     migrationVars
  <2> QED BY <2>1
<1>4. ASSUME NEW a \in Logins, NEW p \in Processes, NEW n \in Names, NEW secret \in Secrets,
             Ask(a, p, n, secret) \/ Provision(a, p, n, secret)
      PROVE  HostInv'
  BY <1>4, <1>t DEF Ask, Provision, Goto, migrationVars
<1>5. CASE UNCHANGED vars
  BY <1>5 DEF vars, migrationVars, loginVars
<1> QED BY <1>1, <1>2, <1>3, <1>4, <1>5 DEF Next

\* Nobody is let in or out by a step that keeps the granted logins.
LEMMA GrantedStays ==
  ASSUME \A a \in Logins : /\ step'[a] = "granted" <=> step[a] = "granted"
                           /\ step[a] = "granted" => asked'[a] = asked[a] /\ user'[a] = user[a]
  PROVE  Granted' = Granted
BY DEF Granted

\* A commit is the next migration: all before it are on record, none after it.
LEMMA CommitRefines ==
  ASSUME MigrationInv, NEW p \in Processes, Commit(p), UNCHANGED <<users, loginVars>>
  PROVE  Accounts!Migrate
<1> USE LatestAssumption DEF MigrationInv, MigrationTypeOK, Versions
<1>1. /\ current[p] \in 0 .. (Latest - 1) /\ current[p] + 1 \notin versions
      /\ 1 .. current[p] \subseteq versions
      /\ versions' = versions \cup {current[p] + 1}
  BY DEF Commit, BootInv
<1>2. ASSUME NEW w \in versions PROVE w \in 1 .. current[p]
  <2>1. w \in 1 .. Latest /\ 1 .. w \subseteq versions
    BY DEF MigratedOnce
  <2> QED BY <1>1, <2>1
<1>3. versions = 1 .. current[p]
  BY <1>1, <1>2
<1>4. 1 .. (current[p] + 1) = (1 .. current[p]) \cup {current[p] + 1}
  BY <1>1
<1>5. UNCHANGED <<users, Granted>>
  BY GrantedStays DEF loginVars
<1>6. \E v \in 1 .. Latest : versions = 1 .. (v - 1) /\ versions' = 1 .. v
  <2>1. current[p] + 1 \in 1 .. Latest /\ (current[p] + 1) - 1 = current[p]
    BY <1>1
  <2>2. versions' = 1 .. (current[p] + 1)
    BY <1>1, <1>3, <1>4
  <2> QED BY <1>3, <2>1, <2>2
<1> QED BY <1>5, <1>6 DEF Accounts!Migrate

\* Each step of a boot is a migration or none of the book's.
LEMMA BootRefines ==
  ASSUME MigrationInv, NEW p \in Processes, BootStep(p)
  PROVE  [Accounts!Next]_Accounts!vars
<1>1. UNCHANGED <<users, loginVars>>
  BY DEF BootStep
<1>2. CASE Commit(p)
  BY <1>1, <1>2, CommitRefines DEF Accounts!Next
<1>3. CASE ~Commit(p)
  <2>1. UNCHANGED versions
    BY <1>3 DEF BootStep, MigrationStep, Start, ReadVersion, Apply, InsertVersion, MigrationRaises, Ready
  <2>2. UNCHANGED Granted
    BY <1>1, GrantedStays DEF loginVars
  <2> QED BY <1>1, <2>1, <2>2 DEF Accounts!vars
<1> QED BY <1>2, <1>3

\* The first login of the environment's user, and provisioning, open an account.
LEMMA OpenRefines ==
  ASSUME MigrationInv, UsersInv, versions = 1 .. Latest, NEW a \in Logins, step[a] # "granted",
         NEW n \in Names, users[n] = None, NEW new \in User, users' = [users EXCEPT ![n] = new],
         NEW s, s # "granted", Goto(a, s), UNCHANGED <<versions, asked>>,
         \A b \in Logins \ {a} : user'[b] = user[b]
  PROVE  Accounts!Open(n)
<1>1. users'[n] = new /\ new # None /\ users' = [users EXCEPT ![n] = users'[n]]
  BY NoneIsNoUser DEF UsersInv, UsersTypeOK
<1>2. \A b \in Logins : step'[b] = IF b = a THEN s ELSE step[b]
  BY DEF Goto, UsersInv, UsersTypeOK
<1>3. UNCHANGED Granted
  BY <1>2, GrantedStays
<1> QED BY <1>1, <1>3 DEF Accounts!Open, Accounts!Complete

\* A login that is granted is let in on the account on record.
LEMMA VerifyRefines ==
  ASSUME MigrationInv, UsersInv, HostInv, NEW a \in Logins, Verify(a)
  PROVE  [Accounts!Next]_Accounts!vars
<1>1. /\ step[a] = "verify"
      /\ UNCHANGED <<versions, users, asked, user>>
      /\ \A b \in Logins \ {a} : step'[b] = step[b]
      /\ step'[a] = IF user[a].secret = asked[a].secret THEN "granted" ELSE "denied"
  BY DEF Verify, Goto, UsersInv, UsersTypeOK, migrationVars
<1>2. CASE user[a].secret # asked[a].secret
  <2>1. UNCHANGED Granted
    BY <1>1, <1>2, GrantedStays
  <2> QED BY <1>1, <2>1 DEF Accounts!vars
<1>3. CASE user[a].secret = asked[a].secret
  <2> DEFINE entry == [name |-> asked[a].name, secret |-> asked[a].secret, id |-> user[a].id]
  <2>1. /\ asked[a].name \in Names /\ users[asked[a].name] = user[a] /\ user[a] # None
    BY <1>1, NoneIsNoUser DEF UsersInv, LoginInv, Question
  <2>2. versions = 1 .. Latest
    BY <1>1, ActiveIsComplete DEF Active
  <2>3. Granted' = Granted \cup {entry}
    <3>1. {b \in Logins : step'[b] = "granted"} = {b \in Logins : step[b] = "granted"} \cup {a}
      BY <1>1, <1>3
    <3> QED BY <1>1, <3>1 DEF Granted
  <2>4. entry = [name |-> asked[a].name, secret |-> users[asked[a].name].secret,
                 id |-> users[asked[a].name].id]
    BY <1>3, <2>1
  <2>5. Accounts!Admit(asked[a].name)
    BY <1>1, <2>1, <2>2, <2>3, <2>4 DEF Accounts!Admit, Accounts!Complete
  <2> QED BY <2>1, <2>5 DEF Accounts!Next
<1> QED BY <1>2, <1>3

\* Booting, dying, provisioning and logging in, over all processes, are one
\* book of accounts (migrations.py:49-73, identity/service.py:44-122,
\* repository.py:115-153).
THEOREM IdentityImplementsAccounts == Spec => KeepsAccounts
<1> DEFINE Inv == MigrationInv /\ UsersInv /\ HostInv
<1>1. Init => Accounts!Init /\ HostInv
  BY DEF Init, MigrationInit, Accounts!Init, Granted, HostInv, Active
<1>2. ASSUME MigrationInv, UsersInv, HostInv, Next PROVE [Accounts!Next]_Accounts!vars
  <2>1. CASE \E p \in Processes : BootStep(p)
    BY <1>2, <2>1, BootRefines
  <2>2. CASE \E p \in Processes : Stop(p)
    <3>1. UNCHANGED <<versions, users, asked, user>>
          /\ \A a \in Logins : step'[a] = "granted" <=> step[a] = "granted"
      BY <2>2 DEF Stop, Die, LoginEnded
    <3>2. UNCHANGED Granted
      BY <3>1, GrantedStays
    <3> QED BY <3>1, <3>2 DEF Accounts!vars
  <2>3. ASSUME NEW a \in Logins, LoginStep(a) PROVE [Accounts!Next]_Accounts!vars
    <3>1. CASE Verify(a)
      BY <1>2, <3>1, VerifyRefines
    <3>2. CASE Create(a) /\ users[Bootstrap] = None
      <4> DEFINE new == [id |-> a, secret |-> environment[host[a]]]
      <4>1. new \in User /\ versions = 1 .. Latest
        BY <1>2, <3>2, ActiveIsComplete DEF Create, UsersInv, UsersTypeOK, LoginInv, User, Active
      <4>2. /\ users' = [users EXCEPT ![Bootstrap] = new]
            /\ Goto(a, "verify")
            /\ UNCHANGED <<versions, asked>>
            /\ \A b \in Logins \ {a} : user'[b] = user[b]
        BY <1>2, <3>2 DEF Create, UsersInv, UsersTypeOK, migrationVars
      <4>3. Accounts!Open(Bootstrap)
        BY <1>2, <3>2, <4>1, <4>2, OpenRefines, BootstrapAssumption DEF Create
      <4> QED BY <4>3, BootstrapAssumption DEF Accounts!Next
    <3>3. CASE ~Verify(a) /\ ~(Create(a) /\ users[Bootstrap] = None)
      <4>1. /\ UNCHANGED <<versions, users, asked>>
            /\ step[a] # "granted" /\ step'[a] # "granted"
            /\ \A b \in Logins \ {a} : step'[b] = step[b] /\ user'[b] = user[b]
        BY <1>2, <2>3, <3>3 DEF LoginStep, Lookup, CheckEnvironment, Create, LoginRaises, Goto,
                                UsersInv, UsersTypeOK, migrationVars
      <4>2. UNCHANGED Granted
        BY <4>1, GrantedStays
      <4> QED BY <4>1, <4>2 DEF Accounts!vars
    <3> QED BY <3>1, <3>2, <3>3
  <2>4. ASSUME NEW a \in Logins, NEW p \in Processes, NEW n \in Names, NEW secret \in Secrets,
               Provision(a, p, n, secret)
        PROVE  [Accounts!Next]_Accounts!vars
    <3> DEFINE new == [id |-> a, secret |-> secret]
    <3>1. new \in User /\ versions = 1 .. Latest
      BY <1>2, <2>4 DEF Provision, User, MigrationInv, MigratedOnce, Versions
    <3>2. /\ users' = [users EXCEPT ![n] = new] /\ users[n] = None
          /\ Goto(a, "provisioned") /\ step[a] # "granted"
          /\ UNCHANGED <<versions, asked, user>>
      BY <2>4 DEF Provision, migrationVars
    <3>3. Accounts!Open(n)
      BY <1>2, <3>1, <3>2, OpenRefines
    <3> QED BY <3>3 DEF Accounts!Next
  <2>5. ASSUME NEW a \in Logins, NEW p \in Processes, NEW n \in Names, NEW secret \in Secrets,
               Ask(a, p, n, secret)
        PROVE  [Accounts!Next]_Accounts!vars
    <3>1. /\ UNCHANGED <<versions, users, user>>
          /\ step[a] # "granted" /\ step'[a] # "granted"
          /\ \A b \in Logins \ {a} : step'[b] = step[b] /\ asked'[b] = asked[b]
      BY <1>2, <2>5 DEF Ask, Goto, UsersInv, UsersTypeOK, migrationVars
    <3>2. UNCHANGED Granted
      BY <3>1, GrantedStays
    <3> QED BY <3>1, <3>2 DEF Accounts!vars
  <2> QED BY <1>2, <2>1, <2>2, <2>3, <2>4, <2>5 DEF Next
<1>3. ASSUME UNCHANGED vars PROVE UNCHANGED Accounts!vars
  <2>1. UNCHANGED Granted
    BY <1>3, GrantedStays DEF vars, loginVars
  <2> QED BY <1>3, <2>1 DEF vars, migrationVars, Accounts!vars
<1>4. Spec => []Inv
  <2>1. Inv /\ [Next]_vars => HostInv'
    BY HostStep
  <2> QED BY <1>1, <2>1, IdentityInvariance, PTL DEF Spec
<1>5. Inv /\ [Next]_vars => [Accounts!Next]_Accounts!vars
  BY <1>2, <1>3
<1> QED BY <1>1, <1>4, <1>5, PTL DEF Spec, KeepsAccounts, Accounts!Spec
===============================================================================

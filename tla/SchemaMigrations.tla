--------------------------- MODULE SchemaMigrations ---------------------------
(***************************************************************************)
(* MigrationRunner.migrate (app/persistence/migrations.py), run by every   *)
(* process that opens the database when it boots.  Each migration and its  *)
(* row in schema_migrations are one SQLite transaction; SQLite has one     *)
(* writer at a time and undoes the transaction of a process that dies.     *)
(* The version is read once, before the first transaction.                 *)
(***************************************************************************)
EXTENDS Naturals

CONSTANTS
  Processes,  \* processes that may be started on the database
  Latest,     \* the number of migrations the code has, numbered from 1
  None

ASSUME LatestAssumption == Latest \in Nat
ASSUME NoneIsNoProcess == None \notin Processes

VARIABLES
  boot,      \* boot[p]: the next step of process p, or what became of it
  current,   \* current[p]: the variable of the same name in migrate
  writer,    \* the process with a write transaction open, or None
  versions,  \* the rows of schema_migrations
  applied    \* applied[v]: how often the effect of migration v was committed

migrationVars == <<boot, current, writer, versions, applied>>

Versions == 1 .. Latest

MigrationTypeOK ==
  /\ boot \in [Processes -> {"down", "read", "next", "insert", "commit", "ready", "failed"}]
  /\ current \in [Processes -> 0 .. Latest]
  /\ writer \in Processes \cup {None}
  /\ versions \subseteq Versions
  /\ applied \in [Versions -> Nat]

MigrationInit ==
  /\ boot = [p \in Processes |-> "down"]
  /\ current = [p \in Processes |-> 0]
  /\ writer = None
  /\ versions = {}
  /\ applied = [v \in Versions |-> 0]

To(p, step) == boot' = [boot EXCEPT ![p] = step]

Start(p) ==
  /\ boot[p] = "down"
  /\ To(p, "read")
  /\ UNCHANGED <<current, writer, versions, applied>>

\* SELECT COALESCE(MAX(version), 0), in a table made if it is not there.
ReadVersion(p) ==
  /\ boot[p] = "read"
  /\ \E v \in 0 .. Latest :
       /\ v = 0 \/ v \in versions
       /\ \A w \in versions : w <= v
       /\ current' = [current EXCEPT ![p] = v]
  /\ To(p, "next")
  /\ UNCHANGED <<writer, versions, applied>>

\* Faulty: one migration past the last.
ApplyPastLast(p) ==
  /\ boot[p] = "next"
  /\ current[p] <= Latest
  /\ writer = None
  /\ writer' = p
  /\ To(p, "insert")
  /\ UNCHANGED <<current, versions, applied>>

\* BEGIN and the statements of the next migration, once no one else writes.
Apply(p) ==
  /\ boot[p] = "next"
  /\ current[p] < Latest
  /\ writer = None
  /\ writer' = p
  /\ To(p, "insert")
  /\ UNCHANGED <<current, versions, applied>>

\* Faulty: INSERT OR IGNORE.
InsertOrIgnore(p) ==
  /\ boot[p] = "insert"
  /\ To(p, "commit")
  /\ UNCHANGED <<current, writer, versions, applied>>

\* INSERT of the version, which fails and rolls back where another process has
\* applied this migration since the version was read.
InsertVersion(p) ==
  /\ boot[p] = "insert"
  /\ IF current[p] + 1 \in versions
     THEN To(p, "failed") /\ writer' = None
     ELSE To(p, "commit") /\ UNCHANGED writer
  /\ UNCHANGED <<current, versions, applied>>

Commit(p) ==
  /\ boot[p] = "commit"
  /\ versions' = versions \cup {current[p] + 1}
  /\ applied' = [applied EXCEPT ![current[p] + 1] = @ + 1]
  /\ current' = [current EXCEPT ![p] = @ + 1]
  /\ writer' = None
  /\ To(p, "next")

\* An exception, a busy database among them: rollback and MigrationError.
MigrationRaises(p) ==
  /\ boot[p] \in {"read", "next", "insert", "commit"}
  /\ To(p, "failed")
  /\ writer' = IF writer = p THEN None ELSE writer
  /\ UNCHANGED <<current, versions, applied>>

Ready(p) ==
  /\ boot[p] = "next"
  /\ current[p] = Latest
  /\ To(p, "ready")
  /\ UNCHANGED <<current, writer, versions, applied>>

\* The process dies, or is stopped after its boot failed.
Die(p) ==
  /\ boot[p] # "down"
  /\ To(p, "down")
  /\ writer' = IF writer = p THEN None ELSE writer
  /\ UNCHANGED <<current, versions, applied>>

MigrationStep(p) ==
  \/ Start(p) \/ ReadVersion(p) \/ Apply(p) \/ InsertVersion(p) \/ Commit(p)
  \/ MigrationRaises(p) \/ Ready(p)

-------------------------------------------------------------------------------
\* "A migration runs once, in order, and rolls back on failure"
\* (docs/M28_PERSISTENCE_MIGRATIONS.md:10; migrations.py:49-73): whatever boots
\* at the same time or dies, the versions on record are the first ones, each
\* with its effect once, and a process is ready only with all of them.
MigratedOnce ==
  /\ \A v \in Versions : applied[v] = IF v \in versions THEN 1 ELSE 0
  /\ \A v \in versions : 1 .. v \subseteq versions
  /\ \A p \in Processes : boot[p] = "ready" => versions = Versions
===============================================================================

----------------------------- MODULE AccountBook ------------------------------
(***************************************************************************)
(* What the user database promises over all processes                      *)
(* (docs/M26_MULTI_USER_IDENTITY.md, docs/M28_PERSISTENCE_MIGRATIONS.md):  *)
(* the schema is migrated in order, accounts are opened in a complete      *)
(* schema and never changed, and whoever is let in gave the secret of the  *)
(* account and has its id.                                                 *)
(***************************************************************************)
EXTENDS Naturals

CONSTANTS
  Names,   \* usernames
  Latest,  \* the number of migrations
  None     \* no account

VARIABLES
  schema,    \* the migrations that took effect
  accounts,  \* accounts[n]: the id and the secret of name n
  admitted   \* who was let in: a name, a secret and an id

vars == <<schema, accounts, admitted>>

Complete == schema = 1 .. Latest

Init ==
  /\ schema = {}
  /\ accounts = [n \in Names |-> None]
  /\ admitted = {}

Migrate ==
  /\ \E v \in 1 .. Latest : schema = 1 .. (v - 1) /\ schema' = 1 .. v
  /\ UNCHANGED <<accounts, admitted>>

Open(n) ==
  /\ Complete
  /\ accounts[n] = None
  /\ accounts' = [accounts EXCEPT ![n] = accounts'[n]]
  /\ accounts'[n] # None
  /\ UNCHANGED <<schema, admitted>>

Admit(n) ==
  /\ Complete
  /\ accounts[n] # None
  /\ admitted' = admitted \cup {[name |-> n, secret |-> accounts[n].secret, id |-> accounts[n].id]}
  /\ UNCHANGED <<schema, accounts>>

Next == Migrate \/ \E n \in Names : Open(n) \/ Admit(n)

Spec == Init /\ [][Next]_vars
===============================================================================

\* Two processes, two calls, the environment's user and another one.
CONSTANTS
  Processes = {p1, p2}
  Latest = 2
  Logins = {a1, a2}
  Names = {root, other}
  Bootstrap = root
  Secrets = {s1, s2}
  None = None
SPECIFICATION Spec
INVARIANTS TypeOK MigratedOnce GrantIsOnRecord
PROPERTY KeepsAccounts
CHECK_DEADLOCK FALSE

---------------------------- MODULE MCColabService ----------------------------
EXTENDS ColabService

CONSTANTS i1, i2, k1, k2, plain, forking

\* A request, the same identity for other work, its id with another key, and
\* its key with another id.
MCRequests ==
  { [id |-> i1, key |-> k1, work |-> forking], [id |-> i1, key |-> k1, work |-> plain],
    [id |-> i1, key |-> k2, work |-> plain],   [id |-> i2, key |-> k1, work |-> plain] }
===============================================================================

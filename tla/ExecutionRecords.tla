--------------------------- MODULE ExecutionRecords ---------------------------
(***************************************************************************)
(* What the remote side owes the runtime: one record for an execution id   *)
(* and for an idempotency key, kept for good, with one outcome at most and *)
(* only from an execution that was admitted and not lost.  ExecutionLease  *)
(* models the server like this, and ColabService is shown to be like this. *)
(***************************************************************************)
CONSTANTS
  Ids,       \* execution ids
  Keys,      \* idempotency keys
  Outcomes,
  None

VARIABLES
  record,    \* record[i]: None, or the key and the outcome of i so far
  executing  \* ids whose execution may still report an outcome

recordVars == <<record, executing>>

Init ==
  /\ record = [i \in Ids |-> None]
  /\ executing = {}

Admit(i, k) ==
  /\ record[i] = None
  /\ \A j \in Ids : record[j] # None => record[j].key # k
  /\ record' = [record EXCEPT ![i] = [key |-> k, outcome |-> None]]
  /\ executing' = executing \cup {i}

Finish(i, outcome) ==
  /\ i \in executing
  /\ record' = [record EXCEPT ![i].outcome = outcome]
  /\ executing' = executing \ {i}

\* The execution was interrupted: its record has no outcome, for good.
Lose(i) ==
  /\ i \in executing
  /\ executing' = executing \ {i}
  /\ UNCHANGED record

\* A server that dies loses all that it is executing.
LoseAll ==
  /\ executing # {}
  /\ executing' = {}
  /\ UNCHANGED record

Next ==
  \/ \E i \in Ids, k \in Keys : Admit(i, k)
  \/ \E i \in Ids, outcome \in Outcomes : Finish(i, outcome)
  \/ \E i \in Ids : Lose(i)
  \/ LoseAll

Spec == Init /\ [][Next]_recordVars
===============================================================================

---------------------------- MODULE ExecutionLease ----------------------------
(***************************************************************************)
(* WorkerRuntimeAdapter._execute_one and what it calls, for one run and    *)
(* one idempotency key: the lease (app/execution/lease.py), the gateway    *)
(* (app/execution/service.py), the Colab client and server                 *)
(* (app/execution/colab.py, colab_service.py), the result in the session,  *)
(* and the reconciliation (app/execution/reconciliation.py).               *)
(*                                                                         *)
(* A call is one run of _execute_one.  It draws a fresh execution id and a *)
(* fresh lease id, so the call itself stands for both.  Calls may be in    *)
(* different processes, where no lock is shared: with a SQLite repository  *)
(* every statement and every save of the session is a step of its own.     *)
(* With the other repositories leases are messages of the session, found   *)
(* and added under the lock of the one process there is.  An action leaves *)
(* rows alone: Next says so once for all of them.                          *)
(***************************************************************************)
CONSTANTS
  Calls,  \* the calls of _execute_one with this key, retries after a restart included
  None

Outcome == {"success", "failure"}

VARIABLES
  rows,       \* whether leases are rows of SQLite, or only messages; fixed for good
  lease,      \* the lease the service finds for the key, or None
  audited,    \* the lease messages of the session: which call, which status
  results,    \* results[c]: the stored result of c's execution id
  submitted,  \* calls that handed their code to the backend
  requests,   \* calls whose POST /execute has not been read by the server
  remote,     \* remote[c]: the server's record of c's execution id
  serving,    \* calls whose code the server is running
  pc,         \* pc[c]: the next step of call c
  seen,       \* seen[c]: the owner of the completed lease c was given
  answer,     \* answer[c]: the outcome c holds, in the end the one it returns
  fetched     \* the call whose outcome a reconciliation read from the server

durableVars == <<lease, audited, results>>
serverVars  == <<requests, remote, serving>>
callVars    == <<pc, seen, answer>>
vars == <<rows, durableVars, submitted, serverVars, callVars, fetched>>

LeaseStatus == {"RUNNING", "COMPLETED"}
Lease == [call : Calls, status : LeaseStatus]

\* What the server's records come to with one key.
ServerRecord == [key : {"key"}, outcome : Outcome \cup {None}]

ASSUME NoneIsFresh == None \notin Calls \cup Outcome \cup Lease \cup ServerRecord

Ended == {"returned", "stopped"}
CallStep ==
  { "reserve", "conflict", "audit", "undo", "execute", "waiting", "store", "complete",
    "auditCompletion", "reuse" } \cup Ended

TypeOK ==
  /\ rows \in BOOLEAN
  /\ lease \in Lease \cup {None}
  /\ audited \subseteq Calls \X LeaseStatus
  /\ results \in [Calls -> Outcome \cup {None}]
  /\ submitted \subseteq Calls
  /\ requests \subseteq Calls
  /\ remote \in [Calls -> {"absent", "running"} \cup Outcome]
  /\ serving \subseteq Calls
  /\ pc \in [Calls -> CallStep]
  /\ seen \in [Calls -> Calls \cup {None}]
  /\ answer \in [Calls -> Outcome \cup {None}]
  /\ fetched \in Calls \cup {None}

Init ==
  /\ rows \in BOOLEAN
  /\ lease = None
  /\ audited = {}
  /\ results = [c \in Calls |-> None]
  /\ submitted = {}
  /\ requests = {}
  /\ remote = [c \in Calls |-> "absent"]
  /\ serving = {}
  /\ pc = [c \in Calls |-> "reserve"]
  /\ seen = [c \in Calls |-> None]
  /\ answer = [c \in Calls |-> None]
  /\ fetched = None

Goto(c, step) == pc' = [pc EXCEPT ![c] = step]

Holds(c) == lease # None /\ lease.call = c
Completed == lease # None /\ lease.status = "COMPLETED"

-------------------------------------------------------------------------------
(* Reservation.                                                            *)

\* Faulty: INSERT OR REPLACE.
InsertOrReplace(c) ==
  /\ rows
  /\ pc[c] = "reserve"
  /\ lease' = [call |-> c, status |-> "RUNNING"]
  /\ Goto(c, "audit")
  /\ UNCHANGED <<audited, results, submitted, serverVars, seen, answer, fetched>>

\* INSERT: UNIQUE(run_id, idempotency_key) lets one row in.
InsertLease(c) ==
  /\ rows
  /\ pc[c] = "reserve"
  /\ IF lease = None
     THEN lease' = [call |-> c, status |-> "RUNNING"] /\ Goto(c, "audit")
     ELSE UNCHANGED lease /\ Goto(c, "conflict")
  /\ UNCHANGED <<audited, results, submitted, serverVars, seen, answer, fetched>>

\* The row that was in the way is read, unless it is gone by now.
ReadConflict(c) ==
  /\ pc[c] = "conflict"
  /\ IF Completed
     THEN seen' = [seen EXCEPT ![c] = lease.call] /\ Goto(c, "reuse")
     ELSE UNCHANGED seen /\ Goto(c, "stopped")
  /\ UNCHANGED <<durableVars, submitted, serverVars, answer, fetched>>

AuditReservation(c) ==
  /\ pc[c] = "audit"
  /\ audited' = audited \cup {<<c, "RUNNING">>}
  /\ Goto(c, "execute")
  /\ UNCHANGED <<lease, results, submitted, serverVars, seen, answer, fetched>>

\* The audit message could not be saved.
AuditRaises(c) ==
  /\ pc[c] = "audit"
  /\ Goto(c, "undo")
  /\ UNCHANGED <<durableVars, submitted, serverVars, seen, answer, fetched>>

\* Faulty: the DELETE names the key and not the lease, and an error of the
\* execution is undone like one of the audit.
UndoLate(c) ==
  /\ pc[c] \in {"undo", "waiting"}
  /\ lease' = None
  /\ Goto(c, "stopped")
  /\ UNCHANGED <<audited, results, submitted, serverVars, seen, answer, fetched>>

\* DELETE the row again; an error of that is passed over.
UndoLease(c) ==
  /\ pc[c] = "undo"
  /\ lease' \in {lease, IF Holds(c) THEN None ELSE lease}
  /\ Goto(c, "stopped")
  /\ UNCHANGED <<audited, results, submitted, serverVars, seen, answer, fetched>>

\* Leases as messages: the last one of the key is found, and a new one added,
\* under the service's lock.
ReserveByMessage(c) ==
  /\ ~rows
  /\ pc[c] = "reserve"
  /\ \/ /\ lease = None
        /\ lease' = [call |-> c, status |-> "RUNNING"]
        /\ audited' = audited \cup {<<c, "RUNNING">>}
        /\ Goto(c, "execute")
        /\ UNCHANGED seen
     \/ /\ Completed
        /\ seen' = [seen EXCEPT ![c] = lease.call]
        /\ Goto(c, "reuse")
        /\ UNCHANGED <<lease, audited>>
  /\ UNCHANGED <<results, submitted, serverVars, answer, fetched>>

\* A completed lease: the result it names is looked up in the session.
ReuseResult(c) ==
  /\ pc[c] = "reuse"
  /\ answer' = [answer EXCEPT ![c] = results[seen[c]]]
  /\ Goto(c, IF results[seen[c]] = None THEN "stopped" ELSE "returned")
  /\ UNCHANGED <<durableVars, submitted, serverVars, seen, fetched>>

-------------------------------------------------------------------------------
(* Execution.                                                              *)

\* The gateway answers by itself: DENIED or UNAVAILABLE, which are a "failure"
\* here like every other status that is not SUCCESS.
Decline(c) ==
  /\ pc[c] = "execute"
  /\ answer' = [answer EXCEPT ![c] = "failure"]
  /\ Goto(c, "store")
  /\ UNCHANGED <<durableVars, submitted, serverVars, seen, fetched>>

\* The backend is called, which posts the request.
Submit(c) ==
  /\ pc[c] = "execute"
  /\ submitted' = submitted \cup {c}
  /\ requests' = requests \cup {c}
  /\ Goto(c, "waiting")
  /\ UNCHANGED <<durableVars, remote, serving, seen, answer, fetched>>

\* The request never arrives.
LoseRequest(c) ==
  /\ c \in requests
  /\ requests' = requests \ {c}
  /\ UNCHANGED <<durableVars, submitted, remote, serving, callVars, fetched>>

\* ExecutionStore.reserve on the server: the execution id and the key are both
\* unique there.  A request that finds the key taken is refused.
Serve(c) ==
  /\ c \in requests
  /\ requests' = requests \ {c}
  /\ IF \A d \in Calls : remote[d] = "absent"
     THEN /\ remote' = [remote EXCEPT ![c] = "running"]
          /\ serving' = serving \cup {c}
     ELSE UNCHANGED <<remote, serving>>
  /\ UNCHANGED <<durableVars, submitted, callVars, fetched>>

\* The code has ended and ExecutionStore.complete has recorded its outcome.
ServerCompletes(c, outcome) ==
  /\ c \in serving
  /\ serving' = serving \ {c}
  /\ remote' = [remote EXCEPT ![c] = outcome]
  /\ UNCHANGED <<durableVars, submitted, requests, callVars, fetched>>

\* The server raises or dies: its record says "running" from then on.
ServerFails(c) ==
  /\ c \in serving
  /\ serving' = serving \ {c}
  /\ UNCHANGED <<durableVars, submitted, requests, remote, callVars, fetched>>

\* The server's answer arrives.
Reply(c) ==
  /\ pc[c] = "waiting"
  /\ remote[c] \in Outcome
  /\ answer' = [answer EXCEPT ![c] = remote[c]]
  /\ Goto(c, "store")
  /\ UNCHANGED <<durableVars, submitted, serverVars, seen, fetched>>

\* Faulty: a timeout is taken for the outcome of a completed request.
GiveUpHopefully(c) ==
  /\ pc[c] = "waiting"
  /\ answer' = [answer EXCEPT ![c] = "success"]
  /\ Goto(c, "store")
  /\ UNCHANGED <<durableVars, submitted, serverVars, seen, fetched>>

\* The client times out, or gets an error: a TIMEOUT or ERROR result, whatever
\* the server is still doing.
GiveUp(c) ==
  /\ pc[c] = "waiting"
  /\ answer' = [answer EXCEPT ![c] = "failure"]
  /\ Goto(c, "store")
  /\ UNCHANGED <<durableVars, submitted, serverVars, seen, fetched>>

-------------------------------------------------------------------------------
(* Evidence and completion.                                                *)

\* Faulty: the newer result wins.
StoreOver(c) ==
  /\ pc[c] = "store"
  /\ results' = [results EXCEPT ![c] = answer[c]]
  /\ Goto(c, "complete")
  /\ UNCHANGED <<lease, audited, submitted, serverVars, seen, answer, fetched>>

\* Faulty: an error of the save is passed over.
StoreQuietly(c) ==
  /\ pc[c] = "store"
  /\ results' \in {results, [results EXCEPT ![c] = answer[c]]}
  /\ Goto(c, "complete")
  /\ UNCHANGED <<lease, audited, submitted, serverVars, seen, answer, fetched>>

\* add_execution_result: an equal result is already there, a different one is
\* a conflict, which raises.  Failures of different kinds (TIMEOUT, ERROR) are
\* one value here and conflict in the code: that raise is a Stop.
StoreResult(c) ==
  /\ pc[c] = "store"
  /\ IF results[c] \in {None, answer[c]}
     THEN results' = [results EXCEPT ![c] = answer[c]] /\ Goto(c, "complete")
     ELSE UNCHANGED results /\ Goto(c, "stopped")
  /\ UNCHANGED <<lease, audited, submitted, serverVars, seen, answer, fetched>>

\* complete: the UPDATE of the row, with its message still to come; or, where
\* the lease is a message, that message.
CompleteLease(c) ==
  /\ pc[c] = "complete"
  /\ Holds(c)
  /\ lease' = [lease EXCEPT !.status = "COMPLETED"]
  /\ IF rows THEN UNCHANGED audited /\ Goto(c, "auditCompletion")
              ELSE audited' = audited \cup {<<c, "COMPLETED">>} /\ Goto(c, "returned")
  /\ UNCHANGED <<results, submitted, serverVars, seen, answer, fetched>>

AuditCompletion(c) ==
  /\ pc[c] = "auditCompletion"
  /\ audited' = audited \cup {<<c, "COMPLETED">>}
  /\ Goto(c, "returned")
  /\ UNCHANGED <<lease, results, submitted, serverVars, seen, answer, fetched>>

\* The call raises, or its process dies, between any two of its steps; so does
\* one that finds a lease message that is not COMPLETED.
Stop(c) ==
  /\ pc[c] \notin Ended
  /\ Goto(c, "stopped")
  /\ UNCHANGED <<durableVars, submitted, serverVars, seen, answer, fetched>>

-------------------------------------------------------------------------------
(* Reconciliation, in any process.  Two of them would read and store the   *)
(* same record of the server, so one is enough here.                       *)

\* inspect finds a lease without a result; the server has one for it.
AskBackend ==
  /\ fetched = None
  /\ lease # None
  /\ results[lease.call] = None
  /\ remote[lease.call] \in Outcome
  /\ fetched' = lease.call
  /\ UNCHANGED <<durableVars, submitted, serverVars, callVars>>

\* The server's result is stored where there is none yet; an equal one leaves
\* the session as it is and a different one raises.
StoreFetched ==
  /\ fetched # None
  /\ results' = IF results[fetched] = None
                THEN [results EXCEPT ![fetched] = remote[fetched]] ELSE results
  /\ fetched' = None
  /\ UNCHANGED <<lease, audited, submitted, serverVars, callVars>>

\* The reconciliation raises or its process dies.
DropFetched ==
  /\ fetched # None
  /\ fetched' = None
  /\ UNCHANGED <<durableVars, submitted, serverVars, callVars>>

-------------------------------------------------------------------------------
CallNext(c) ==
  \/ InsertLease(c) \/ ReadConflict(c) \/ AuditReservation(c) \/ AuditRaises(c)
  \/ UndoLease(c) \/ ReserveByMessage(c) \/ ReuseResult(c)
  \/ Decline(c) \/ Submit(c) \/ Reply(c) \/ GiveUp(c)
  \/ StoreResult(c) \/ CompleteLease(c) \/ AuditCompletion(c) \/ Stop(c)

ServerNext(c) ==
  \/ LoseRequest(c) \/ Serve(c) \/ ServerFails(c)
  \/ \E outcome \in Outcome : ServerCompletes(c, outcome)

Next ==
  /\ \/ \E c \in Calls : CallNext(c) \/ ServerNext(c)
     \/ AskBackend \/ StoreFetched \/ DropFetched
  /\ UNCHANGED rows

Spec == Init /\ [][Next]_vars

-------------------------------------------------------------------------------
\* "An active lease blocks a second execution attempt"
\* (docs/IMPLEMENTATION_STATUS.md:120): the code of one key is handed to a
\* backend once at most, over all calls, processes, failures and restarts
\* (lease.py:112-160, workers/runtime.py:232-261).
SubmittedOnce == \A c, d \in submitted : c = d

\* A completed lease always leads to its result, so reusing it never fails for
\* want of one (workers/runtime.py:243-249), and every call that returned
\* reports what is stored (workers/runtime.py:251-261).
ReturnedIsEvidence ==
  /\ Completed => results[lease.call] # None
  /\ \A c \in Calls : pc[c] = "returned" => Completed /\ answer[c] = results[lease.call]

\* Code that went out can be found again: its lease is still there under the
\* key and its reservation among the messages that the run-wide reconciliation
\* lists (reconciliation.py:55-86, reconciliation_batch.py:89-105).
SubmittedIsTraceable ==
  \A c \in submitted : Holds(c) /\ <<c, "RUNNING">> \in audited

\* A stored SUCCESS is the server's own word, whichever of the call and the
\* reconciliation came first and whatever timed out
\* (execution/service.py:99-148, reconciliation.py:107-146).
SuccessIsReal == \A c \in Calls : results[c] = "success" => remote[c] = "success"

\* A stored result is never replaced: not by a reconciliation after a timeout,
\* nor by the late answer after a reconciliation (session/manager.py:116-143).
ResultsAreFinal ==
  [][\A c \in Calls : results[c] # None => results'[c] = results[c]]_vars

\* The promise, as a specification of its own.
Promise == INSTANCE ExecuteOnce WITH
  owner   <- IF lease = None THEN None ELSE lease.call,
  runners <- submitted,
  settled <- IF lease = None THEN None ELSE results[lease.call],
  told    <- [c \in Calls |-> IF pc[c] = "returned" THEN answer[c] ELSE None]

\* All of the above steps keep the promise (docs/IMPLEMENTATION_STATUS.md:41-42).
KeepsPromise == Promise!Spec

\* The server's side of it, with one key, as the records that ColabService keeps.
Server == INSTANCE ExecutionRecords WITH
  Ids       <- Calls,
  Keys      <- {"key"},
  Outcomes  <- Outcome,
  record    <- [c \in Calls |-> IF remote[c] = "absent" THEN None
                               ELSE [key     |-> "key",
                                     outcome |-> IF remote[c] = "running" THEN None
                                                 ELSE remote[c]]],
  executing <- serving

\* What the calls rely on of the server is no more than what the server was
\* shown to keep (colab_service.py:89-131).
ServerKeepsRecords == Server!Spec

-------------------------------------------------------------------------------
\* "inspects or explicitly reconciles every latest durable execution lease
\* belonging to a run" (docs/M46_RUN_WIDE_RECONCILIATION.md:5): with every call
\* ended, a lease that exists is among the messages that are listed.
LeaseIsListed ==
  lease # None /\ (\A c \in Calls : pc[c] \in Ended) => <<lease.call, "RUNNING">> \in audited
===============================================================================

----------------------------- MODULE ColabService -----------------------------
(***************************************************************************)
(* The remote execution service (app/execution/colab_service.py): an HTTP  *)
(* server with a thread for every request, the SQLite store that is its    *)
(* authority over execution ids and idempotency keys, and the executor     *)
(* between them, which runs the code with run_bounded_process.             *)
(*                                                                         *)
(* A call is one POST /execute in its thread, sent again or sent with a    *)
(* reused identity by another call.  The server may die and be started     *)
(* again: its threads are gone, the store stays, and so do the processes   *)
(* of the code, which are in sessions of their own.                        *)
(***************************************************************************)
EXTENDS Naturals, BoundedProcess

CONSTANTS
  Requests,  \* the requests there are: records of an id, a key and the work
  Spawning,  \* work that may start processes (RUNTIME_PYTHON_POLICY=unsafe)
  None

Ids   == {r.id : r \in Requests}
Keys  == {r.key : r \in Requests}
Works == {r.work : r \in Requests}

Status == {"success", "error", "timeout", "denied", "unavailable"}
Result == [by : Calls, status : Status]
Row    == [key : Keys, work : Works, by : Calls, result : Result \cup {None}]

ASSUME FreshNone == None \notin Status \cup Result \cup Row \cup Requests

VARIABLES
  up,       \* whether the server process is up
  rows,     \* rows[i]: the row of execution id i; by is the call that put it there
  at,       \* at[c]: the next step of the thread of call c
  request,  \* request[c]: what call c asks for
  result,   \* result[c]: what its thread is about to record or to send
  told      \* every <<id, result>> sent with 200 OK

serverVars  == <<rows, told>>
handlerVars == <<at, request, result>>
vars == <<up, serverVars, handlerVars, processVars>>

Ended == {"answered", "refused", "dropped"}

TypeOK ==
  /\ ProcessTypeOK
  /\ up \in BOOLEAN
  /\ rows \in [Ids -> Row \cup {None}]
  /\ at \in [Calls -> {"idle", "reserve", "execute", "process", "complete", "reply"} \cup Ended]
  /\ request \in [Calls -> Requests \cup {None}]
  /\ result \in [Calls -> Result \cup {None}]
  /\ told \subseteq Ids \X Result

Init ==
  /\ ProcessInit
  /\ up = TRUE
  /\ rows = [i \in Ids |-> None]
  /\ at = [c \in Calls |-> "idle"]
  /\ request = [c \in Calls |-> None]
  /\ result = [c \in Calls |-> None]
  /\ told = {}

Goto(c, step) == at' = [at EXCEPT ![c] = step]

-------------------------------------------------------------------------------
(* POST /execute.                                                          *)

\* do_POST has read and validated request r.
Receive(c, r) ==
  /\ up
  /\ at[c] = "idle"
  /\ request' = [request EXCEPT ![c] = r]
  /\ Goto(c, "reserve")
  /\ UNCHANGED <<up, serverVars, result, processVars>>

\* Faulty: the id alone is looked at.
FreeId(r) == rows[r.id] = None

\* Neither the id nor the key has a row: PRIMARY KEY and UNIQUE let it in.
Free(r) == rows[r.id] = None /\ \A i \in Ids : rows[i] # None => rows[i].key # r.key

\* The row found is of the very same request.
Same(r) == rows[r.id] # None /\ rows[r.id].key = r.key /\ rows[r.id].work = r.work

Stored(r) == Same(r) /\ rows[r.id].result # None

\* ExecutionStore.reserve: a new row, a stored result, or 409 for a row that is
\* still "running" or belongs to other work.
Reserve(c) ==
  /\ at[c] = "reserve"
  /\ LET r == request[c] IN
       \/ /\ Free(r)
          /\ rows' = [rows EXCEPT ![r.id] =
                        [key |-> r.key, work |-> r.work, by |-> c, result |-> None]]
          /\ Goto(c, "execute")
          /\ UNCHANGED result
       \/ /\ Stored(r)
          /\ result' = [result EXCEPT ![c] = rows[r.id].result]
          /\ Goto(c, "reply")
          /\ UNCHANGED rows
       \/ /\ ~Free(r) /\ ~Stored(r)
          /\ Goto(c, "refused")
          /\ UNCHANGED <<rows, result>>
  /\ UNCHANGED <<up, told, request, processVars>>

\* Network, language or policy: a result without any code having run.
AnswerWithoutCode(c, status) ==
  /\ at[c] = "execute"
  /\ result' = [result EXCEPT ![c] = [by |-> c, status |-> status]]
  /\ Goto(c, "complete")
  /\ UNCHANGED <<up, serverVars, request, processVars>>

LaunchCode(c) ==
  /\ at[c] = "execute"
  /\ Launch(c)
  /\ Goto(c, "process")
  /\ UNCHANGED <<up, serverVars, request, result>>

\* Faulty: a status that is not one of the contract's.
StatusRaw(c) == IF stage[c] = "raised" THEN "raised" ELSE child[c]

\* BoundedProcessError, timed_out, or the exit code.
StatusOf(c) ==
  IF stage[c] = "raised" THEN "error"
  ELSE IF timedOut[c] THEN "timeout"
  ELSE IF child[c] = "ok" THEN "success" ELSE "error"

\* Faulty: the result is sent before it is recorded.
SendResult(c) ==
  /\ at[c] = "process"
  /\ stage[c] \in Over
  /\ result' = [result EXCEPT ![c] = [by |-> c, status |-> StatusOf(c)]]
  /\ Goto(c, "reply")
  /\ UNCHANGED <<up, serverVars, request, processVars>>

TakeResult(c) ==
  /\ at[c] = "process"
  /\ stage[c] \in Over
  /\ result' = [result EXCEPT ![c] = [by |-> c, status |-> StatusOf(c)]]
  /\ Goto(c, "complete")
  /\ UNCHANGED <<up, serverVars, request, processVars>>

\* ExecutionStore.complete, which insists on a row that is still "running".
Complete(c) ==
  /\ at[c] = "complete"
  /\ LET i == request[c].id IN
       IF rows[i].result = None
       THEN rows' = [rows EXCEPT ![i].result = result[c]] /\ Goto(c, "reply")
       ELSE UNCHANGED rows /\ Goto(c, "refused")
  /\ UNCHANGED <<up, told, request, result, processVars>>

\* 200 OK.
Reply(c) ==
  /\ at[c] = "reply"
  /\ told' = told \cup {<<request[c].id, result[c]>>}
  /\ Goto(c, "answered")
  /\ UNCHANGED <<up, rows, request, result, processVars>>

\* In run_bounded_process nothing else raises.
MayRaise(c) ==
  \/ at[c] \in {"reserve", "execute", "complete", "reply"}
  \/ at[c] = "process" /\ stage[c] \in Over

\* An exception outside run_bounded_process: the database is locked, the disk
\* full, the process not startable, an artifact gone, the client gone.  The row
\* stays as it is.
HandlerRaises(c) ==
  /\ MayRaise(c)
  /\ Goto(c, "refused")
  /\ UNCHANGED <<up, serverVars, request, result, processVars>>

HandlerStep(c) ==
  \/ Reserve(c) \/ LaunchCode(c) \/ TakeResult(c) \/ Complete(c) \/ Reply(c)
  \/ \E status \in {"denied", "unavailable"} : AnswerWithoutCode(c, status)
  \/ HandlerRaises(c)

-------------------------------------------------------------------------------
\* ExecutionStore.get: the key must be the row's own.
Found(i, k) == rows[i] # None /\ rows[i].key = k /\ rows[i].result # None

\* GET /executions/<i> with key k: the stored result, and otherwise 404 or 409.
Fetch(i, k) ==
  /\ up
  /\ Found(i, k)
  /\ told' = told \cup {<<i, rows[i].result>>}
  /\ UNCHANGED <<up, rows, handlerVars, processVars>>

\* The server dies: its threads with it, not the processes of the code.
Crash ==
  /\ up
  /\ up' = FALSE
  /\ at' = [c \in Calls |-> IF at[c] \in Ended \cup {"idle"} THEN at[c] ELSE "dropped"]
  /\ stage' = [c \in Calls |-> IF stage[c] \in Waiting THEN "dead" ELSE stage[c]]
  /\ UNCHANGED <<serverVars, request, result, child, family, readers, timedOut>>

\* Faulty: rows that were left "running" are cleaned up.
RestartAfresh ==
  /\ ~up
  /\ up' = TRUE
  /\ rows' = [i \in Ids |-> IF rows[i] # None /\ rows[i].result = None THEN None ELSE rows[i]]
  /\ UNCHANGED <<told, handlerVars, processVars>>

\* ExecutionStore.__init__ only creates a table that is not there.
Restart ==
  /\ ~up
  /\ up' = TRUE
  /\ UNCHANGED <<serverVars, handlerVars, processVars>>

\* Restricted code cannot start processes (execution/policy.py).
CodeGoesOn(c) ==
  \/ \E k \in Kinds : StartDescendant(c, k) /\ request[c].work \in Spawning
  \/ \E k \in Kinds : EndDescendants(c, k)
  \/ CloseOutput(c)
  \/ \E code \in Exited : ChildExits(c, code)

ProcessGoesOn(c) ==
  /\ CodeGoesOn(c) \/ DrainOutput(c) \/ DrainRaises(c) \/ WaiterStep(c)
  /\ UNCHANGED <<up, serverVars, handlerVars>>

Next ==
  \/ \E c \in Calls : (\E r \in Requests : Receive(c, r)) \/ HandlerStep(c) \/ ProcessGoesOn(c)
  \/ \E i \in Ids, k \in Keys : Fetch(i, k)
  \/ Crash \/ Restart

Spec == Init /\ [][Next]_vars

\* The threads of a live server go on, and process.wait has a deadline.  The
\* code need never end, and the server need not be started again.
ThreadStep(c) ==
  \/ HandlerStep(c)
  \/ (WaiterStep(c) \/ DrainOutput(c)) /\ UNCHANGED <<up, serverVars, handlerVars>>

FairSpec == Spec /\ \A c \in Calls : WF_vars(ThreadStep(c))

-------------------------------------------------------------------------------
\* The code of an execution id, and of an idempotency key, is started once at
\* most, whatever is sent again, raises, or dies with the server
\* (colab_service.py:89-122, 305-318).
RunsOnce ==
  \A c, d \in Calls :
    /\ child[c] # "none" /\ child[d] # "none"
    /\ request[c].id = request[d].id \/ request[c].key = request[d].key
    => c = d

\* What was sent with 200 OK, by POST or GET, is what is on record, and so the
\* same for every retry and after every restart (colab_service.py:124-147, 309-318).
AnswerIsRecorded ==
  \A answer \in told : rows[answer[1]] # None /\ rows[answer[1]].result = answer[2]

\* A recorded result tells what became of the code: it has stopped, and a
\* "success" ended by itself, in time, with all of its output read
\* (colab_service.py:320-378, bounded_process.py:76-128).
ResultIsHonest ==
  \A i \in Ids : rows[i] # None /\ rows[i].result # None =>
    LET c == rows[i].result.by
        s == rows[i].result.status
    IN  /\ child[c] \in {"none"} \cup Exited
        /\ child[c] = "none" <=> s \in {"denied", "unavailable"}
        /\ s = "success" => /\ child[c] = "ok" /\ ~timedOut[c]
                            /\ readers[c] = "done" /\ ~HeldByFamily(c)

\* Every request that was read is answered, refused, or dropped by a server
\* that dies, if no process the code has started holds the output for ever:
\* the deadline does not bound that (bounded_process.py:76-90).
CallsEnd ==
  (\A c \in Calls : []<>~HeldByFamily(c)) =>
    \A c \in Calls : at[c] # "idle" ~> at[c] \in Ended

\* Why calls end.  The steps a call has left at most: those of its thread, those
\* of the wait for its process, and the one of the readers.
AtLeft ==
  [idle |-> 0, reserve |-> 10, execute |-> 9, process |-> 3, complete |-> 2, reply |-> 1,
   answered |-> 0, refused |-> 0, dropped |-> 0]
StageLeft ==
  [idle |-> 0, waiting |-> 4, expired |-> 3, reaping |-> 2, joining |-> 1,
   returned |-> 0, raised |-> 0, dead |-> 0]
ReadersLeft == [none |-> 0, reading |-> 1, done |-> 0, failed |-> 0]

StepsLeft(c) == AtLeft[at[c]] + StageLeft[stage[c]] + ReadersLeft[readers[c]]

Progress(c) ==
  /\ ThreadStep(c) => StepsLeft(c)' < StepsLeft(c)
  /\ at[c] # "idle" => StepsLeft(c)' <= StepsLeft(c)

\* Each step of its thread or its readers brings a call nearer to its end, and no
\* other call, no death of the server and nothing the code does takes it back
\* (colab_service.py:176-197, 305-378, bounded_process.py:76-126).
CallsProgress == [][\A c \in Calls : Progress(c)]_vars

\* While its code runs or is waited for, the thread of a live call can go on
\* unless what the code has left behind holds the output: the child has exited
\* where it is waited for without a deadline (bounded_process.py:76-103).
OnlyPipesBlock ==
  \A c \in Calls : at[c] = "process" =>
    \/ stage[c] \in Over
    \/ stage[c] \in {"waiting", "expired"}
    \/ stage[c] = "reaping" /\ child[c] \in Exited
    \/ stage[c] = "joining" /\ (readers[c] # "reading" \/ ~OutputIsHeld(c) \/ HeldByFamily(c))

\* The rows, and who may still complete them, as the abstract records.
Records == INSTANCE ExecutionRecords WITH
  Outcomes  <- Status,
  record    <- [i \in Ids |-> IF rows[i] = None THEN None
                              ELSE [key     |-> rows[i].key,
                                    outcome |-> IF rows[i].result = None THEN None
                                                ELSE rows[i].result.status]],
  executing <- {request[c].id : c \in {d \in Calls : at[d] \in {"execute", "process", "complete"}}}

\* The store never gives an id or a key to other work, never replaces a result
\* and completes only what is being executed (colab_service.py:89-131).
KeepsRecords == Records!Spec
===============================================================================

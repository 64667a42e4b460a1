------------------------- MODULE ColabService_proofs -------------------------
(***************************************************************************)
(* Theorems about ColabService, for any number of calls, requests and      *)
(* deaths of the server, whatever the executed code does.                  *)
(***************************************************************************)
EXTENDS ColabService, TLAPS

\* What became of the code of call c is as a result with status s says.
Honest(c, s) ==
  /\ child[c] \in {"none"} \cup Exited
  /\ child[c] = "none" <=> s \in {"denied", "unavailable"}
  /\ s = "success" => /\ child[c] = "ok" /\ ~timedOut[c]
                      /\ readers[c] = "done" /\ ~HeldByFamily(c)

\* A call is over only when its child has exited, and the readers are done
\* only when nobody holds the output, which then nobody can get hold of again.
ProcessInv ==
  \A c \in Calls :
    /\ child[c] = "none" <=> stage[c] = "idle"
    /\ stage[c] \in {"joining"} \cup Over => child[c] \in Exited
    /\ stage[c] # "idle" => readers[c] # "none"
    /\ stage[c] = "returned" => readers[c] = "done"
    /\ readers[c] = "done" => child[c] # "running" /\ ~HeldByFamily(c)

\* A key has one row, and a result is by the call that put the row there,
\* whose thread is past its work.
RowInv ==
  /\ \A i, j \in Ids : rows[i] # None /\ rows[j] # None /\ rows[i].key = rows[j].key => i = j
  /\ \A i \in Ids : rows[i] # None /\ rows[i].result # None =>
       LET c == rows[i].by IN
         /\ rows[i].result.by = c
         /\ at[c] \in {"reply"} \cup Ended
         /\ Honest(c, rows[i].result.status)

Working == {"execute", "process", "complete"}

Owns(c) ==
  LET i == request[c].id IN rows[i] # None /\ rows[i].by = c /\ rows[i].key = request[c].key

\* A call that executes, or ever has, owns the row of its request.
CallInv ==
  \A c \in Calls :
    /\ at[c] # "idle" => request[c] \in Requests
    /\ at[c] \in {"idle", "reserve", "execute"} => stage[c] = "idle"
    /\ at[c] \in Working \/ child[c] # "none" => Owns(c)
    /\ at[c] \in Working => rows[request[c].id].result = None
    /\ at[c] = "complete" =>
         result[c] \in Result /\ result[c].by = c /\ Honest(c, result[c].status)
    /\ at[c] = "reply" =>
         /\ result[c] \in Result
         /\ rows[request[c].id] # None
         /\ rows[request[c].id].result = result[c]

ServiceInv == TypeOK /\ ProcessInv /\ RowInv /\ CallInv /\ AnswerIsRecorded

-------------------------------------------------------------------------------
(* The processes.                                                          *)

\* What a step of the code or of run_bounded_process leaves as it is.
ProcessesKept ==
  \A c \in Calls :
    /\ child'[c] = "none" <=> child[c] = "none"
    /\ stage'[c] = "idle" <=> stage[c] = "idle"
    /\ \A s \in Status : Honest(c, s) => Honest(c, s)'

Kept == ProcessTypeOK' /\ ProcessInv' /\ ProcessesKept

LEMMA StartDescendantStep ==
  ASSUME ProcessTypeOK, ProcessInv, NEW c \in Calls, NEW k \in Kinds, StartDescendant(c, k)
  PROVE  Kept
<1>1. family' = [family EXCEPT ![c] = @ \cup {k}] /\ UNCHANGED <<stage, child, readers, timedOut>>
  BY DEF StartDescendant
<1>2. k.holds => child[c] = "running" \/ HeldByFamily(c)
  BY DEF StartDescendant, HeldByFamily
<1>3. ProcessTypeOK'
  BY <1>1 DEF ProcessTypeOK
<1>4. \A d \in Calls : HeldByFamily(d)' => HeldByFamily(d) \/ (d = c /\ k.holds)
  BY <1>1 DEF HeldByFamily, ProcessTypeOK
<1>5. \A d \in Calls : HeldByFamily(d)' => HeldByFamily(d) \/ child[d] = "running"
  BY <1>2, <1>4
<1>6. ProcessInv'
  BY <1>1, <1>5 DEF ProcessInv
<1>7. ProcessesKept
  BY <1>1, <1>5 DEF ProcessesKept, Honest, Exited
<1> QED BY <1>3, <1>6, <1>7 DEF Kept

LEMMA EndDescendantsStep ==
  ASSUME ProcessTypeOK, ProcessInv, NEW c \in Calls, NEW k \in Kinds, EndDescendants(c, k)
  PROVE  Kept
<1>1. family' = [family EXCEPT ![c] = @ \ {k}] /\ UNCHANGED <<stage, child, readers, timedOut>>
  BY DEF EndDescendants
<1>2. ProcessTypeOK'
  BY <1>1 DEF ProcessTypeOK
<1>3. \A d \in Calls : HeldByFamily(d)' => HeldByFamily(d)
  BY <1>1 DEF HeldByFamily, ProcessTypeOK
<1>4. ProcessInv' /\ ProcessesKept
  BY <1>1, <1>3 DEF ProcessInv, ProcessesKept, Honest
<1> QED BY <1>2, <1>4 DEF Kept

\* Steps of the child and of the threads, none of which adds a process.
LEMMA OtherProcessStep ==
  ASSUME ProcessTypeOK, ProcessInv, NEW c \in Calls,
         \/ CloseOutput(c)
         \/ \E code \in Exited : ChildExits(c, code)
         \/ DrainOutput(c)
         \/ DrainRaises(c)
         \/ WaiterStep(c)
  PROVE  Kept
<1> USE DEF Exited, Over, Running, Waiting
<1>1. /\ DOMAIN family' = Calls
      /\ \A d \in Calls : family'[d] \subseteq family[d]
  BY DEF CloseOutput, ChildExits, DrainOutput, DrainRaises, WaiterStep, WaitReturns, TimeOut,
         TerminateNothing, KillGroup, KillChild, Reap, Join, ProcessTypeOK
<1>2. \A d \in Calls : HeldByFamily(d)' => HeldByFamily(d)
  BY <1>1 DEF HeldByFamily
<1>3. CASE CloseOutput(c)
  BY <1>2, <1>3 DEF CloseOutput, Kept, ProcessTypeOK, ProcessInv, ProcessesKept, Honest
<1>4. CASE \E code \in Exited : ChildExits(c, code)
  BY <1>2, <1>4 DEF ChildExits, Kept, ProcessTypeOK, ProcessInv, ProcessesKept, Honest
<1>5. CASE DrainOutput(c)
  BY <1>2, <1>5 DEF DrainOutput, OutputIsHeld, Kept, ProcessTypeOK, ProcessInv, ProcessesKept, Honest
<1>6. CASE DrainRaises(c)
  BY <1>2, <1>6 DEF DrainRaises, Kept, ProcessTypeOK, ProcessInv, ProcessesKept, Honest
<1>7. CASE WaitReturns(c)
  BY <1>2, <1>7 DEF WaitReturns, MoveTo, Kept, ProcessTypeOK, ProcessInv, ProcessesKept, Honest
<1>8. CASE TimeOut(c)
  BY <1>2, <1>8 DEF TimeOut, MoveTo, Kept, ProcessTypeOK, ProcessInv, ProcessesKept, Honest
<1>9. CASE TerminateNothing(c)
  BY <1>2, <1>9 DEF TerminateNothing, MoveTo, Kept, ProcessTypeOK, ProcessInv, ProcessesKept, Honest
<1>10. CASE KillGroup(c)
  <2>1. family' \in [Calls -> SUBSET Kinds]
    BY <1>10 DEF KillGroup, ProcessTypeOK
  <2> QED BY <1>2, <1>10, <2>1 DEF KillGroup, MoveTo, Kept, ProcessTypeOK, ProcessInv, ProcessesKept, Honest
<1>11. CASE KillChild(c)
  BY <1>2, <1>11 DEF KillChild, MoveTo, Kept, ProcessTypeOK, ProcessInv, ProcessesKept, Honest
<1>12. CASE Reap(c)
  BY <1>2, <1>12 DEF Reap, MoveTo, Kept, ProcessTypeOK, ProcessInv, ProcessesKept, Honest
<1>13. CASE Join(c)
  BY <1>2, <1>13 DEF Join, MoveTo, Kept, ProcessTypeOK, ProcessInv, ProcessesKept, Honest
<1> QED BY <1>3, <1>4, <1>5, <1>6, <1>7, <1>8, <1>9, <1>10, <1>11, <1>12, <1>13 DEF WaiterStep

LEMMA ProcessStep ==
  ASSUME ServiceInv, NEW c \in Calls, ProcessGoesOn(c)
  PROVE  ServiceInv'
<1>1. UNCHANGED <<up, serverVars, handlerVars>>
  BY DEF ProcessGoesOn
<1>2. Kept
  BY StartDescendantStep, EndDescendantsStep, OtherProcessStep
  DEF ProcessGoesOn, CodeGoesOn, ServiceInv, TypeOK
<1>3. TypeOK'
  BY <1>1, <1>2 DEF Kept, TypeOK, ServiceInv, serverVars, handlerVars
<1>4. RowInv'
  <2>1. \A i \in Ids : rows[i] # None /\ rows[i].result # None =>
          rows[i].by \in Calls /\ rows[i].result.status \in Status
    BY DEF ServiceInv, TypeOK, Row, Result
  <2> QED BY <1>1, <1>2, <2>1 DEF Kept, ProcessesKept, ServiceInv, RowInv, serverVars, handlerVars
<1>5. CallInv'
  <2>1. \A d \in Calls : at[d] = "complete" => result[d].status \in Status
    BY DEF ServiceInv, CallInv, Result
  <2> QED BY <1>1, <1>2, <2>1
      DEF Kept, ProcessesKept, ServiceInv, CallInv, Owns, serverVars, handlerVars
<1>6. AnswerIsRecorded'
  BY <1>1 DEF ServiceInv, AnswerIsRecorded, serverVars
<1> QED BY <1>2, <1>3, <1>4, <1>5, <1>6 DEF Kept, ServiceInv

-------------------------------------------------------------------------------
(* The threads of the server.                                              *)

LEMMA ServiceInitially == Init => ServiceInv
<1> SUFFICES ASSUME Init PROVE ServiceInv
  OBVIOUS
<1>1. TypeOK
  BY DEF Init, ProcessInit, TypeOK, ProcessTypeOK
<1>2. ProcessInv
  BY DEF Init, ProcessInit, ProcessInv, Over
<1>3. RowInv /\ CallInv /\ AnswerIsRecorded
  BY DEF Init, ProcessInit, RowInv, CallInv, AnswerIsRecorded, Working
<1> QED BY <1>1, <1>2, <1>3 DEF ServiceInv

LEMMA ReceiveStep ==
  ASSUME ServiceInv, NEW c \in Calls, NEW r \in Requests, Receive(c, r)
  PROVE  ServiceInv'
<1> USE DEF ServiceInv
<1>1. /\ at[c] = "idle" /\ child[c] = "none"
      /\ request' = [request EXCEPT ![c] = r]
      /\ at' = [at EXCEPT ![c] = "reserve"]
      /\ UNCHANGED <<up, rows, told, result>>
      /\ UNCHANGED processVars
  BY DEF Receive, Goto, serverVars, CallInv, ProcessInv
<1>2. TypeOK'
  BY <1>1 DEF TypeOK, ProcessTypeOK, processVars
<1>3. ProcessInv' /\ AnswerIsRecorded'
  BY <1>1 DEF ProcessInv, AnswerIsRecorded, processVars, HeldByFamily
<1>4. RowInv'
  BY <1>1 DEF RowInv, Honest, HeldByFamily, processVars, TypeOK, Row, Ended
<1>5. CallInv'
  BY <1>1 DEF CallInv, Owns, Honest, HeldByFamily, processVars, TypeOK, Working
<1> QED BY <1>2, <1>3, <1>4, <1>5

\* A new row is the call's own, and no other row has its id or its key.
LEMMA AdmitStep ==
  ASSUME ServiceInv, NEW c \in Calls, at[c] = "reserve", Free(request[c]),
         rows' = [rows EXCEPT ![request[c].id] =
                    [key |-> request[c].key, work |-> request[c].work, by |-> c, result |-> None]],
         at' = [at EXCEPT ![c] = "execute"],
         UNCHANGED <<up, told, request, result>>, UNCHANGED processVars
  PROVE  ServiceInv'
<1> USE FreshNone DEF ServiceInv
<1> DEFINE r == request[c]
           new == [key |-> r.key, work |-> r.work, by |-> c, result |-> None]
<1>1. /\ r \in Requests /\ r.id \in Ids /\ new \in Row /\ new # None
      /\ stage[c] = "idle" /\ child[c] = "none"
  BY DEF CallInv, ProcessInv, Ids, Keys, Works, Row
<1>2. /\ \A i \in Ids \ {r.id} : rows'[i] = rows[i]
      /\ rows'[r.id] = new /\ rows[r.id] = None
  BY <1>1 DEF TypeOK, Free
<1>3. TypeOK'
  BY <1>1 DEF TypeOK, ProcessTypeOK, processVars
<1>4. ProcessInv'
  BY DEF ProcessInv, processVars, HeldByFamily
<1>5. RowInv'
  <2>1. \A i \in Ids : rows[i] # None => rows[i].key # r.key
    BY DEF Free
  <2>2. ASSUME NEW i \in Ids, NEW j \in Ids, rows'[i] # None, rows'[j] # None,
               rows'[i].key = rows'[j].key
        PROVE  i = j
    BY <1>2, <2>1, <2>2 DEF RowInv
  <2>3. ASSUME NEW i \in Ids, rows'[i] # None, rows'[i].result # None
        PROVE  /\ rows'[i].result.by = rows'[i].by
               /\ at'[rows'[i].by] \in {"reply"} \cup Ended
               /\ Honest(rows[i].by, rows[i].result.status)'
    <3>1. i # r.id /\ rows'[i] = rows[i]
      BY <1>2, <2>3
    <3>2. /\ rows[i].result.by = rows[i].by
          /\ at[rows[i].by] \in {"reply"} \cup Ended
          /\ Honest(rows[i].by, rows[i].result.status)
      BY <2>3, <3>1 DEF RowInv
    <3>3. rows[i].by # c
      BY <3>2 DEF Ended
    <3>4. at'[rows[i].by] = at[rows[i].by]
      BY <3>3 DEF TypeOK
    <3> QED BY <3>1, <3>2, <3>4 DEF Honest, HeldByFamily, processVars
  <2> QED BY <2>2, <2>3 DEF RowInv
<1>6. CallInv'
  <2>1. ASSUME NEW d \in Calls, d # c, at[d] \in Working \/ child[d] # "none" \/ at[d] = "reply"
        PROVE  /\ request[d] \in Requests /\ request[d].id # r.id
               /\ rows'[request[d].id] = rows[request[d].id]
    <3>1. request[d] \in Requests /\ rows[request[d].id] # None
      BY <2>1 DEF CallInv, Owns, Working, ProcessInv
    <3> QED BY <1>2, <3>1 DEF Ids
  <2>2. ASSUME NEW d \in Calls, d # c
        PROVE  /\ at'[d] = at[d]
               /\ Owns(d) /\ request[d].id # r.id /\ request[d] \in Requests => Owns(d)'
    BY <1>2, <2>2 DEF TypeOK, Owns, Ids
  <2>3. Owns(c)' /\ at'[c] = "execute" /\ rows'[request'[c].id].result = None
    BY <1>1, <1>2 DEF Owns, TypeOK
  <2> QED BY <1>1, <2>1, <2>2, <2>3 DEF CallInv, Honest, HeldByFamily, processVars, Working
<1>7. AnswerIsRecorded'
  <2>1. \A answer \in told : answer[1] \in Ids /\ answer[1] # r.id
    BY <1>2 DEF AnswerIsRecorded, TypeOK
  <2> QED BY <1>2, <2>1 DEF AnswerIsRecorded
<1> QED BY <1>3, <1>4, <1>5, <1>6, <1>7

\* A step that only moves call c, to where nothing depends on its work.
LEMMA MoveStep ==
  ASSUME ServiceInv, NEW c \in Calls, at[c] # "idle",
         NEW s \in {"refused", "answered"}, at' = [at EXCEPT ![c] = s],
         UNCHANGED <<up, rows, told, request, result>>, UNCHANGED processVars
  PROVE  ServiceInv'
<1> USE DEF ServiceInv
<1>1. TypeOK'
  BY DEF TypeOK, ProcessTypeOK, processVars, Ended
<1>2. ProcessInv' /\ AnswerIsRecorded'
  BY DEF ProcessInv, processVars, HeldByFamily, AnswerIsRecorded
<1>3. RowInv'
  BY DEF RowInv, Honest, HeldByFamily, processVars, TypeOK, Row, Ended
<1>4. CallInv'
  BY DEF CallInv, Owns, Honest, HeldByFamily, processVars, TypeOK, Working
<1> QED BY <1>1, <1>2, <1>3, <1>4

LEMMA ReserveStep ==
  ASSUME ServiceInv, NEW c \in Calls, Reserve(c)
  PROVE  ServiceInv'
<1> DEFINE r == request[c]
<1>1. /\ at[c] = "reserve"
      /\ UNCHANGED <<up, told, request>> /\ UNCHANGED processVars
  BY DEF Reserve
<1>2. CASE /\ Free(r)
           /\ rows' = [rows EXCEPT ![r.id] =
                         [key |-> r.key, work |-> r.work, by |-> c, result |-> None]]
           /\ Goto(c, "execute")
           /\ UNCHANGED result
  BY <1>1, <1>2, AdmitStep DEF Goto
<1>3. CASE /\ Stored(r)
           /\ result' = [result EXCEPT ![c] = rows[r.id].result]
           /\ Goto(c, "reply")
           /\ UNCHANGED rows
  <2> USE FreshNone DEF ServiceInv
  <2>1. /\ rows[r.id] # None /\ rows[r.id].result \in Result /\ r.id \in Ids
    BY <1>1, <1>3 DEF Stored, Same, CallInv, TypeOK, Ids, Row
  <2>2. TypeOK'
    BY <1>1, <1>3, <2>1 DEF TypeOK, ProcessTypeOK, processVars, Goto
  <2>3. ProcessInv' /\ AnswerIsRecorded'
    BY <1>1, <1>3 DEF ProcessInv, processVars, HeldByFamily, AnswerIsRecorded
  <2>4. RowInv'
    BY <1>1, <1>3 DEF RowInv, Honest, HeldByFamily, processVars, TypeOK, Row, Goto
  <2>5. CallInv'
    BY <1>1, <1>3, <2>1 DEF CallInv, Owns, Honest, HeldByFamily, processVars, TypeOK, Working, Goto
  <2> QED BY <2>2, <2>3, <2>4, <2>5
<1>4. CASE /\ ~Free(r) /\ ~Stored(r)
           /\ Goto(c, "refused")
           /\ UNCHANGED <<rows, result>>
  BY <1>1, <1>4, MoveStep DEF Goto
<1> QED BY <1>2, <1>3, <1>4 DEF Reserve
\* Where the child is started there was none, and no result of the call yet.
LEMMA LaunchCodeStep ==
  ASSUME ServiceInv, NEW c \in Calls, LaunchCode(c)
  PROVE  ServiceInv'
<1> USE DEF ServiceInv
<1>1. /\ at[c] = "execute" /\ at' = [at EXCEPT ![c] = "process"]
      /\ stage' = [stage EXCEPT ![c] = "waiting"]
      /\ child' = [child EXCEPT ![c] = "running"]
      /\ readers' = [readers EXCEPT ![c] = "reading"]
      /\ UNCHANGED <<up, rows, told, request, result, family, timedOut>>
  BY DEF LaunchCode, Launch, MoveTo, Goto, serverVars
<1>2. TypeOK'
  BY <1>1 DEF TypeOK, ProcessTypeOK, Running, Waiting
<1>3. ProcessInv'
  BY <1>1 DEF ProcessInv, TypeOK, ProcessTypeOK, HeldByFamily, Over
<1>4. \A d \in Calls \ {c}, s \in Status : Honest(d, s) => Honest(d, s)'
  BY <1>1 DEF Honest, HeldByFamily, TypeOK, ProcessTypeOK
<1>5. RowInv'
  BY <1>1, <1>4 DEF RowInv, TypeOK, Row, Result, Ended
<1>6. CallInv'
  BY <1>1, <1>4 DEF CallInv, Owns, TypeOK, ProcessTypeOK, Working, Result
<1>7. AnswerIsRecorded'
  BY <1>1 DEF AnswerIsRecorded
<1> QED BY <1>2, <1>3, <1>5, <1>6, <1>7

\* A call that executes has its result, and has not touched its row.
LEMMA ResultStep ==
  ASSUME ServiceInv, NEW c \in Calls, at[c] \in Working, NEW res \in Result,
         res.by = c, Honest(c, res.status),
         at' = [at EXCEPT ![c] = "complete"],
         result' = [result EXCEPT ![c] = res],
         UNCHANGED <<up, rows, told, request>>, UNCHANGED processVars
  PROVE  ServiceInv'
<1> USE DEF ServiceInv
<1>1. TypeOK'
  BY DEF TypeOK, ProcessTypeOK, processVars
<1>2. ProcessInv' /\ AnswerIsRecorded'
  BY DEF ProcessInv, processVars, HeldByFamily, AnswerIsRecorded
<1>3. RowInv'
  BY DEF RowInv, Honest, HeldByFamily, processVars, TypeOK, Row, Working, Ended
<1>4. CallInv'
  BY DEF CallInv, Owns, Honest, HeldByFamily, processVars, TypeOK, Working
<1> QED BY <1>1, <1>2, <1>3, <1>4

LEMMA AnswerWithoutCodeStep ==
  ASSUME ServiceInv, NEW c \in Calls, NEW status \in {"denied", "unavailable"},
         AnswerWithoutCode(c, status)
  PROVE  ServiceInv'
<1> DEFINE res == [by |-> c, status |-> status]
<1>1. res \in Result
  BY DEF Result, Status
<1>2. at[c] = "execute" /\ child[c] = "none"
  BY DEF AnswerWithoutCode, ServiceInv, CallInv, ProcessInv
<1>3. Honest(c, res.status)
  BY <1>2 DEF Honest
<1>4. UNCHANGED <<up, rows, told, request>> /\ UNCHANGED processVars
  BY DEF AnswerWithoutCode, serverVars
<1> QED BY <1>1, <1>2, <1>3, <1>4, ResultStep DEF AnswerWithoutCode, Goto, Working

LEMMA TakeResultStep ==
  ASSUME ServiceInv, NEW c \in Calls, TakeResult(c)
  PROVE  ServiceInv'
<1> DEFINE res == [by |-> c, status |-> StatusOf(c)]
<1>1. res \in Result /\ StatusOf(c) \notin {"denied", "unavailable"}
  BY DEF Result, Status, StatusOf
<1>2. at[c] = "process" /\ stage[c] \in Over /\ child[c] \in Exited
  BY DEF TakeResult, ServiceInv, ProcessInv
<1>3. StatusOf(c) = "success" =>
        child[c] = "ok" /\ ~timedOut[c] /\ readers[c] = "done" /\ ~HeldByFamily(c)
  BY <1>2 DEF StatusOf, ServiceInv, ProcessInv, Over
<1>4. Honest(c, res.status)
  BY <1>1, <1>2, <1>3 DEF Honest, Exited
<1>5. UNCHANGED <<up, rows, told, request>> /\ UNCHANGED processVars
  BY DEF TakeResult, serverVars
<1> QED BY <1>1, <1>2, <1>4, <1>5, ResultStep DEF TakeResult, Goto, Working

\* A call that executes finds its own row without a result.
LEMMA CompleteStep ==
  ASSUME ServiceInv, NEW c \in Calls, Complete(c)
  PROVE  ServiceInv'
<1> USE FreshNone DEF ServiceInv
<1> DEFINE i == request[c].id
<1>1. /\ at[c] = "complete" /\ request[c] \in Requests /\ i \in Ids
      /\ rows[i] # None /\ rows[i].by = c /\ rows[i].result = None
      /\ result[c] \in Result /\ result[c].by = c /\ Honest(c, result[c].status)
  BY DEF Complete, CallInv, Owns, Working, Ids
<1>2. /\ rows' = [rows EXCEPT ![i].result = result[c]]
      /\ at' = [at EXCEPT ![c] = "reply"]
      /\ UNCHANGED <<up, told, request, result>> /\ UNCHANGED processVars
  BY <1>1 DEF Complete, Goto
<1>3. rows[i] \in Row /\ rows'[i] \in Row /\ rows'[i] # None
  BY <1>1, <1>2 DEF TypeOK, Row
<1>4. /\ rows'[i].key = rows[i].key /\ rows'[i].by = c /\ rows'[i].result = result[c]
      /\ \A j \in Ids \ {i} : rows'[j] = rows[j]
  BY <1>1, <1>2, <1>3 DEF TypeOK, Row
<1>5. TypeOK'
  BY <1>1, <1>2, <1>3 DEF TypeOK, ProcessTypeOK, processVars
<1>6. ProcessInv'
  BY <1>2 DEF ProcessInv, processVars, HeldByFamily
<1>7. RowInv'
  <2>1. \A j \in Ids : rows[j] # None /\ rows[j].result # None => rows[j].by # c
    BY <1>1 DEF RowInv, Ended
  <2>2. \A d \in Calls, s \in Status : Honest(d, s) => Honest(d, s)'
    BY <1>2 DEF Honest, HeldByFamily, processVars
  <2>3. ASSUME NEW j \in Ids, rows'[j] # None, rows'[j].result # None
        PROVE  /\ rows'[j].result.by = rows'[j].by
               /\ at'[rows'[j].by] \in {"reply"} \cup Ended
    BY <1>1, <1>2, <1>3, <1>4, <2>1, <2>3 DEF RowInv, TypeOK, Row
  <2>4. ASSUME NEW j \in Ids, rows'[j] # None, rows'[j].result # None
        PROVE  Honest(rows[j].by, result[c].status)' \/ j # i
    BY <1>1, <1>2, <1>4, <2>2 DEF Result
  <2>5. ASSUME NEW j \in Ids, j # i, rows[j] # None, rows[j].result # None
        PROVE  Honest(rows[j].by, rows[j].result.status)'
    BY <1>4, <2>2, <2>5 DEF RowInv, TypeOK, Row, Result
  <2>6. \A j, k \in Ids : rows'[j] # None /\ rows'[k] # None /\ rows'[j].key = rows'[k].key => j = k
    BY <1>1, <1>3, <1>4 DEF RowInv
  <2> QED BY <1>2, <1>4, <2>3, <2>4, <2>5, <2>6 DEF RowInv
<1>8. CallInv'
  <2>1. ASSUME NEW d \in Calls, d # c, at[d] \in Working \/ child[d] # "none"
        PROVE  request[d] \in Requests /\ request[d].id # i
    BY <1>1, <2>1 DEF CallInv, Owns, Working, ProcessInv
  <2>2. ASSUME NEW d \in Calls, d # c, at[d] = "reply"
        PROVE  request[d] \in Requests /\ request[d].id # i
    BY <1>1, <2>2 DEF CallInv, Result
  <2>3. ASSUME NEW d \in Calls, request[d] \in Requests, request[d].id # i, Owns(d)
        PROVE  Owns(d)'
    BY <1>2, <1>4, <2>3 DEF Owns, Ids
  <2>4. Owns(c)'
    BY <1>1, <1>2, <1>3, <1>4 DEF CallInv, Owns, Working
  <2> QED BY <1>1, <1>2, <1>3, <1>4, <2>1, <2>2, <2>3, <2>4
      DEF CallInv, Honest, HeldByFamily, processVars, Working, TypeOK, Ids
<1>9. AnswerIsRecorded'
  <2>1. \A answer \in told : answer[1] \in Ids /\ answer[2] \in Result
    BY DEF TypeOK
  <2>2. \A answer \in told : answer[1] # i
    BY <1>1, <2>1 DEF AnswerIsRecorded
  <2> QED BY <1>2, <1>4, <2>1, <2>2 DEF AnswerIsRecorded
<1> QED BY <1>5, <1>6, <1>7, <1>8, <1>9

\* What is sent is on record.
LEMMA TellStep ==
  ASSUME ServiceInv, NEW i \in Ids, rows[i] # None, rows[i].result # None,
         told' = told \cup {<<i, rows[i].result>>}, UNCHANGED rows
  PROVE  AnswerIsRecorded' /\ told' \subseteq Ids \X Result
<1>1. rows[i].result \in Result
  BY DEF ServiceInv, TypeOK, Row
<1> QED BY <1>1 DEF ServiceInv, AnswerIsRecorded, TypeOK

LEMMA ReplyStep ==
  ASSUME ServiceInv, NEW c \in Calls, Reply(c)
  PROVE  ServiceInv'
<1> USE FreshNone DEF ServiceInv
<1> DEFINE i == request[c].id
<1>1. /\ at[c] = "reply" /\ i \in Ids
      /\ rows[i] # None /\ rows[i].result # None /\ rows[i].result = result[c]
  BY DEF Reply, CallInv, Ids
<1>2. /\ told' = told \cup {<<i, rows[i].result>>}
      /\ at' = [at EXCEPT ![c] = "answered"]
      /\ UNCHANGED <<up, rows, request, result>> /\ UNCHANGED processVars
  BY <1>1 DEF Reply, Goto
<1>3. AnswerIsRecorded' /\ told' \subseteq Ids \X Result
  BY <1>1, <1>2, TellStep
<1>4. TypeOK'
  BY <1>2, <1>3 DEF TypeOK, ProcessTypeOK, processVars, Ended
<1>5. ProcessInv'
  BY <1>2 DEF ProcessInv, processVars, HeldByFamily
<1>6. RowInv'
  BY <1>2 DEF RowInv, Honest, HeldByFamily, processVars, TypeOK, Row, Ended
<1>7. CallInv'
  BY <1>1, <1>2 DEF CallInv, Owns, Honest, HeldByFamily, processVars, TypeOK, Working
<1> QED BY <1>3, <1>4, <1>5, <1>6, <1>7

LEMMA FetchStep ==
  ASSUME ServiceInv, NEW i \in Ids, NEW k \in Keys, Fetch(i, k)
  PROVE  ServiceInv'
<1> USE DEF ServiceInv
<1>1. /\ rows[i] # None /\ rows[i].result # None
      /\ told' = told \cup {<<i, rows[i].result>>}
      /\ UNCHANGED <<up, rows, at, request, result>> /\ UNCHANGED processVars
  BY DEF Fetch, Found, handlerVars
<1>2. AnswerIsRecorded' /\ told' \subseteq Ids \X Result
  BY <1>1, TellStep
<1>3. TypeOK'
  BY <1>1, <1>2 DEF TypeOK, ProcessTypeOK, processVars
<1>4. ProcessInv' /\ RowInv' /\ CallInv'
  BY <1>1 DEF ProcessInv, RowInv, CallInv, Owns, Honest, HeldByFamily, processVars
<1> QED BY <1>2, <1>3, <1>4

\* A server that dies takes its threads with it, and nothing else.
LEMMA CrashStep ==
  ASSUME ServiceInv, Crash
  PROVE  ServiceInv'
<1> USE DEF ServiceInv
<1>1. /\ UNCHANGED <<rows, told, request, result, child, family, readers, timedOut>>
      /\ \A c \in Calls : at'[c] = IF at[c] \in Ended \cup {"idle"} THEN at[c] ELSE "dropped"
      /\ \A c \in Calls : stage'[c] = IF stage[c] \in Waiting THEN "dead" ELSE stage[c]
  BY DEF Crash, serverVars
<1>2. TypeOK'
  BY DEF Crash, serverVars, TypeOK, ProcessTypeOK, Ended
<1>3. ProcessInv'
  BY <1>1 DEF ProcessInv, HeldByFamily, Waiting, Over
<1>4. RowInv'
  BY <1>1 DEF RowInv, Honest, HeldByFamily, TypeOK, Row, Ended
<1>5. CallInv'
  BY <1>1 DEF CallInv, Owns, Honest, HeldByFamily, Working, Ended, Waiting
<1>6. AnswerIsRecorded'
  BY <1>1 DEF AnswerIsRecorded
<1> QED BY <1>2, <1>3, <1>4, <1>5, <1>6

LEMMA NothingStep ==
  ASSUME ServiceInv, UNCHANGED <<serverVars, handlerVars, processVars>>, up' \in BOOLEAN
  PROVE  ServiceInv'
  BY DEF ServiceInv, TypeOK, ProcessTypeOK, ProcessInv, RowInv, CallInv, Owns, Honest, HeldByFamily,
         AnswerIsRecorded, serverVars, handlerVars, processVars

LEMMA HandlerRaisesStep ==
  ASSUME ServiceInv, NEW c \in Calls, HandlerRaises(c)
  PROVE  ServiceInv'
<1>1. at[c] # "idle"
  BY DEF HandlerRaises, MayRaise
<1> QED BY <1>1, MoveStep DEF HandlerRaises, Goto, serverVars

LEMMA EveryStep ==
  ASSUME ServiceInv, [Next]_vars
  PROVE  ServiceInv'
<1>1. CASE \E c \in Calls, r \in Requests : Receive(c, r)
  BY <1>1, ReceiveStep
<1>2. CASE \E c \in Calls : HandlerStep(c)
  BY <1>2, ReserveStep, LaunchCodeStep, TakeResultStep, CompleteStep, ReplyStep,
     AnswerWithoutCodeStep, HandlerRaisesStep DEF HandlerStep
<1>3. CASE \E c \in Calls : ProcessGoesOn(c)
  BY <1>3, ProcessStep
<1>4. CASE \E i \in Ids, k \in Keys : Fetch(i, k)
  BY <1>4, FetchStep
<1>5. CASE Crash
  BY <1>5, CrashStep
<1>6. CASE Restart
  BY <1>6, NothingStep DEF Restart
<1>7. CASE UNCHANGED vars
  BY <1>7, NothingStep DEF vars, ServiceInv, TypeOK
<1> QED BY <1>1, <1>2, <1>3, <1>4, <1>5, <1>6, <1>7 DEF Next
-------------------------------------------------------------------------------
(* The theorems.                                                           *)

\* The inductive invariant: who owns a row, what a thread has in hand, and
\* what became of the code behind it (colab_service.py:89-147, 305-378).
THEOREM ServiceInvariance == Spec => []ServiceInv
  BY ServiceInitially, EveryStep, PTL DEF Spec

\* Every variable keeps its type.
THEOREM ServiceIsTyped == Spec => []TypeOK
<1>1. ServiceInv => TypeOK
  BY DEF ServiceInv
<1> QED BY <1>1, ServiceInvariance, PTL

\* The code of an id, and of a key, is started once at most, for any number of
\* requests, failures and restarts (colab_service.py:89-122, 305-318).
THEOREM CodeRunsOnce == Spec => []RunsOnce
<1>1. ASSUME ServiceInv, NEW c \in Calls, NEW d \in Calls,
             child[c] # "none", child[d] # "none",
             request[c].id = request[d].id \/ request[c].key = request[d].key
      PROVE  c = d
  <2>1. /\ Owns(c) /\ Owns(d)
        /\ request[c].id \in Ids /\ request[d].id \in Ids
    BY <1>1 DEF ServiceInv, CallInv, ProcessInv, Ids
  <2>2. request[c].id = request[d].id
    BY <1>1, <2>1 DEF Owns, ServiceInv, RowInv
  <2> QED BY <2>1, <2>2 DEF Owns
<1>2. ServiceInv => RunsOnce
  BY <1>1 DEF RunsOnce
<1> QED BY <1>2, ServiceInvariance, PTL

\* What was sent with 200 OK is and stays what is on record
\* (colab_service.py:124-147, 309-318).
THEOREM AnswersAreOnRecord == Spec => []AnswerIsRecorded
<1>1. ServiceInv => AnswerIsRecorded
  BY DEF ServiceInv
<1> QED BY <1>1, ServiceInvariance, PTL

\* A recorded result tells what became of the code, whatever the code starts,
\* holds or leaves behind (colab_service.py:320-378, bounded_process.py:76-128).
THEOREM ResultsAreHonest == Spec => []ResultIsHonest
<1>1. ServiceInv => ResultIsHonest
  BY DEF ServiceInv, RowInv, Honest, ResultIsHonest
<1> QED BY <1>1, ServiceInvariance, PTL

-------------------------------------------------------------------------------
(* Why calls end.                                                          *)

\* StepsLeft adds up natural numbers.
LEMMA Counts ==
  ASSUME TypeOK, NEW c \in Calls
  PROVE  /\ AtLeft[at[c]] \in Nat
         /\ StageLeft[stage[c]] \in Nat
         /\ ReadersLeft[readers[c]] \in Nat
<1>1. AtLeft[at[c]] \in Nat
  BY DEF AtLeft, TypeOK, Ended
<1>2. StageLeft[stage[c]] \in Nat
  BY DEF StageLeft, TypeOK, ProcessTypeOK, Waiting, Over
<1>3. ReadersLeft[readers[c]] \in Nat
  BY DEF ReadersLeft, TypeOK, ProcessTypeOK
<1> QED BY <1>1, <1>2, <1>3

LEMMA CountsNext ==
  ASSUME TypeOK', NEW c \in Calls
  PROVE  /\ AtLeft[at'[c]] \in Nat
         /\ StageLeft[stage'[c]] \in Nat
         /\ ReadersLeft[readers'[c]] \in Nat
<1>1. AtLeft[at'[c]] \in Nat
  BY DEF AtLeft, TypeOK, Ended
<1>2. StageLeft[stage'[c]] \in Nat
  BY DEF StageLeft, TypeOK, ProcessTypeOK, Waiting, Over
<1>3. ReadersLeft[readers'[c]] \in Nat
  BY DEF ReadersLeft, TypeOK, ProcessTypeOK
<1> QED BY <1>1, <1>2, <1>3

\* A step of the thread of call c: the other calls have as much left as before.
LEMMA ThreadDescends ==
  ASSUME TypeOK, TypeOK', NEW c \in Calls, NEW next, Goto(c, next),
         \A d \in Calls \ {c} : stage'[d] = stage[d] /\ readers'[d] = readers[d],
         AtLeft[next] + StageLeft[stage'[c]] + ReadersLeft[readers'[c]]
           < AtLeft[at[c]] + StageLeft[stage[c]] + ReadersLeft[readers[c]]
  PROVE  StepsLeft(c)' < StepsLeft(c) /\ \A d \in Calls : StepsLeft(d)' <= StepsLeft(d)
<1>1. at'[c] = next /\ \A d \in Calls \ {c} : at'[d] = at[d]
  BY DEF Goto, TypeOK
<1>2. StepsLeft(c)' < StepsLeft(c)
  BY <1>1 DEF StepsLeft
<1>3. ASSUME NEW d \in Calls PROVE StepsLeft(d) \in Nat /\ StepsLeft(d)' \in Nat
  BY Counts, CountsNext DEF StepsLeft
<1>4. \A d \in Calls \ {c} : StepsLeft(d)' = StepsLeft(d)
  BY <1>1 DEF StepsLeft
<1> QED BY <1>2, <1>3, <1>4

\* A step of the wait for the process of call c, or of its readers.
LEMMA WaitDescends ==
  ASSUME TypeOK, TypeOK', NEW c \in Calls, UNCHANGED at,
         \A d \in Calls \ {c} : stage'[d] = stage[d] /\ readers'[d] = readers[d],
         StageLeft[stage'[c]] + ReadersLeft[readers'[c]]
           < StageLeft[stage[c]] + ReadersLeft[readers[c]]
  PROVE  StepsLeft(c)' < StepsLeft(c) /\ \A d \in Calls : StepsLeft(d)' <= StepsLeft(d)
<1>1. ASSUME NEW d \in Calls PROVE StepsLeft(d) \in Nat /\ StepsLeft(d)' \in Nat
  BY Counts, CountsNext DEF StepsLeft
<1>2. StepsLeft(c)' < StepsLeft(c)
  BY Counts, CountsNext DEF StepsLeft
<1>3. \A d \in Calls \ {c} : StepsLeft(d)' = StepsLeft(d)
  BY DEF StepsLeft
<1> QED BY <1>1, <1>2, <1>3

\* A step that leaves threads, stages and readers as they are.
LEMMA NobodyMoves ==
  ASSUME TypeOK, UNCHANGED <<at, stage, readers>>
  PROVE  \A d \in Calls : StepsLeft(d)' <= StepsLeft(d)
<1>1. ASSUME NEW d \in Calls PROVE StepsLeft(d) \in Nat /\ StepsLeft(d)' = StepsLeft(d)
  BY Counts DEF StepsLeft
<1> QED BY <1>1

Nearer(c) == StepsLeft(c)' < StepsLeft(c) /\ \A d \in Calls : StepsLeft(d)' <= StepsLeft(d)

LEMMA HandlerDescends ==
  ASSUME ServiceInv, TypeOK', NEW c \in Calls, HandlerStep(c)
  PROVE  Nearer(c)
<1> USE DEF AtLeft
<1>1. TypeOK /\ StageLeft[stage[c]] \in Nat /\ ReadersLeft[readers[c]] \in Nat
  BY Counts DEF ServiceInv
<1>2. ASSUME NEW next, Goto(c, next), AtLeft[next] \in Nat, AtLeft[at[c]] \in Nat,
             AtLeft[next] < AtLeft[at[c]], UNCHANGED processVars
      PROVE  Nearer(c)
  BY <1>1, <1>2, ThreadDescends DEF Nearer, processVars
<1>3. CASE Reserve(c)
  BY <1>2, <1>3 DEF Reserve
<1>4. CASE LaunchCode(c)
  <2>1. /\ at[c] = "execute" /\ stage[c] = "idle" /\ Goto(c, "process")
        /\ stage' = [stage EXCEPT ![c] = "waiting"] /\ readers' = [readers EXCEPT ![c] = "reading"]
    BY <1>4 DEF LaunchCode, Launch, MoveTo
  <2>2. /\ stage'[c] = "waiting" /\ readers'[c] = "reading"
        /\ \A d \in Calls \ {c} : stage'[d] = stage[d] /\ readers'[d] = readers[d]
    BY <1>1, <2>1 DEF TypeOK, ProcessTypeOK
  <2>3. AtLeft["process"] + StageLeft[stage'[c]] + ReadersLeft[readers'[c]]
          < AtLeft[at[c]] + StageLeft[stage[c]] + ReadersLeft[readers[c]]
    BY <1>1, <2>1, <2>2 DEF StageLeft, ReadersLeft
  <2> QED BY <1>1, <2>1, <2>2, <2>3, ThreadDescends DEF Nearer
<1>5. CASE TakeResult(c)
  BY <1>2, <1>5 DEF TakeResult
<1>6. CASE Complete(c)
  BY <1>2, <1>6 DEF Complete
<1>7. CASE Reply(c)
  BY <1>2, <1>7 DEF Reply
<1>8. CASE \E status \in {"denied", "unavailable"} : AnswerWithoutCode(c, status)
  BY <1>2, <1>8 DEF AnswerWithoutCode
<1>9. CASE HandlerRaises(c)
  BY <1>2, <1>9 DEF HandlerRaises, MayRaise
<1> QED BY <1>3, <1>4, <1>5, <1>6, <1>7, <1>8, <1>9 DEF HandlerStep

LEMMA WaiterDescends ==
  ASSUME ServiceInv, TypeOK', NEW c \in Calls, UNCHANGED at,
         WaiterStep(c) \/ DrainOutput(c) \/ DrainRaises(c)
  PROVE  Nearer(c)
<1>1. TypeOK /\ StageLeft[stage[c]] \in Nat /\ ReadersLeft[readers[c]] \in Nat
  BY Counts DEF ServiceInv
<1>2. ASSUME NEW s, MoveTo(c, s), StageLeft[s] \in Nat, StageLeft[s] < StageLeft[stage[c]],
             UNCHANGED readers
      PROVE  Nearer(c)
  <2>1. stage'[c] = s /\ \A d \in Calls \ {c} : stage'[d] = stage[d]
    BY <1>1, <1>2 DEF MoveTo, TypeOK, ProcessTypeOK
  <2> QED BY <1>1, <1>2, <2>1, WaitDescends DEF Nearer
<1>3. CASE WaiterStep(c)
  BY <1>2, <1>3 DEF WaiterStep, WaitReturns, TimeOut, TerminateNothing, KillGroup, KillChild,
                    Reap, Join, StageLeft
<1>4. CASE DrainOutput(c) \/ DrainRaises(c)
  <2>1. PICK r \in {"done", "failed"} :
          readers' = [readers EXCEPT ![c] = r] /\ readers[c] = "reading" /\ UNCHANGED stage
    BY <1>4 DEF DrainOutput, DrainRaises
  <2>2. readers'[c] = r /\ \A d \in Calls \ {c} : readers'[d] = readers[d]
    BY <1>1, <2>1 DEF TypeOK, ProcessTypeOK
  <2> QED BY <1>1, <2>1, <2>2, WaitDescends DEF Nearer, ReadersLeft
<1> QED BY <1>3, <1>4

\* Each step of its thread or readers brings a call nearer to its end, whatever
\* other calls, the code and the death of the server do in between
\* (colab_service.py:176-197, 305-378, bounded_process.py:76-126).
THEOREM CallsCannotLoop == Spec => CallsProgress
<1>1. ASSUME ServiceInv, TypeOK', Next, NEW c \in Calls
      PROVE  /\ ThreadStep(c) => StepsLeft(c)' < StepsLeft(c)
             /\ at[c] # "idle" => StepsLeft(c)' <= StepsLeft(c)
  <2>1. TypeOK /\ StepsLeft(c) \in Nat
    BY <1>1, Counts DEF ServiceInv, StepsLeft
  <2>2. ThreadStep(c) => StepsLeft(c)' < StepsLeft(c)
    BY <1>1, HandlerDescends, WaiterDescends DEF ThreadStep, handlerVars, Nearer
  <2>3. ASSUME at[c] # "idle" PROVE StepsLeft(c)' <= StepsLeft(c)
    <3>1. CASE \E d \in Calls, r \in Requests : Receive(d, r)
      <4>1. at'[c] = at[c] /\ UNCHANGED <<stage, readers>>
        BY <2>1, <2>3, <3>1 DEF Receive, Goto, TypeOK, processVars
      <4> QED BY <2>1, <4>1 DEF StepsLeft
    <3>2. CASE \E d \in Calls : HandlerStep(d)
      BY <1>1, <3>2, HandlerDescends DEF Nearer
    <3>3. CASE \E d \in Calls : ProcessGoesOn(d)
      <4>1. PICK d \in Calls : ProcessGoesOn(d)
        BY <3>3
      <4>2. UNCHANGED at
        BY <4>1 DEF ProcessGoesOn, handlerVars
      <4>3. CASE CodeGoesOn(d)
        <5>1. UNCHANGED <<stage, readers>>
          BY <4>3 DEF CodeGoesOn, StartDescendant, EndDescendants, CloseOutput, ChildExits
        <5> QED BY <2>1, <4>2, <5>1, NobodyMoves
      <4> QED BY <1>1, <4>1, <4>2, <4>3, WaiterDescends DEF ProcessGoesOn, Nearer
    <3>4. CASE (\E i \in Ids, k \in Keys : Fetch(i, k)) \/ Restart
      <4>1. UNCHANGED <<at, stage, readers>>
        BY <3>4 DEF Fetch, Restart, handlerVars, processVars
      <4> QED BY <2>1, <4>1, NobodyMoves
    <3>5. CASE Crash
      <4>1. /\ at'[c] = IF at[c] \in Ended \cup {"idle"} THEN at[c] ELSE "dropped"
            /\ stage'[c] = IF stage[c] \in Waiting THEN "dead" ELSE stage[c]
            /\ UNCHANGED readers
        BY <3>5 DEF Crash
      <4>2. AtLeft[at'[c]] = 0 \/ at'[c] = at[c]
        BY <4>1 DEF AtLeft
      <4>3. StageLeft[stage'[c]] = 0 \/ stage'[c] = stage[c]
        BY <4>1 DEF StageLeft
      <4>4. /\ AtLeft[at[c]] \in Nat /\ AtLeft[at'[c]] \in Nat
            /\ StageLeft[stage[c]] \in Nat /\ StageLeft[stage'[c]] \in Nat
            /\ ReadersLeft[readers[c]] \in Nat
        BY <1>1, <2>1, Counts, CountsNext
      <4>5. AtLeft[at'[c]] <= AtLeft[at[c]] /\ StageLeft[stage'[c]] <= StageLeft[stage[c]]
        BY <4>2, <4>3, <4>4
      <4>6. AtLeft[at'[c]] + StageLeft[stage'[c]] + ReadersLeft[readers[c]]
              <= AtLeft[at[c]] + StageLeft[stage[c]] + ReadersLeft[readers[c]]
        BY <4>4, <4>5
      <4> QED BY <4>1, <4>6 DEF StepsLeft
    <3> QED BY <1>1, <3>1, <3>2, <3>3, <3>4, <3>5 DEF Next
  <2> QED BY <2>2, <2>3
<1>2. ServiceInv /\ TypeOK' /\ [Next]_vars =>
        [\A c \in Calls : Progress(c)]_vars
  BY <1>1 DEF Progress
<1> QED BY <1>2, ServiceInvariance, ServiceIsTyped, PTL DEF Spec, CallsProgress

\* A live call in run_bounded_process is at one of its stages, and waits without
\* a deadline only for a child that has exited.
WaitInv ==
  \A c \in Calls : /\ at[c] = "process" => stage[c] \in Waiting \cup Over
                   /\ stage[c] = "reaping" => child[c] \in Exited

LEMMA WaitInvStep ==
  ASSUME ServiceInv, WaitInv, [Next]_vars
  PROVE  WaitInv'
<1> USE DEF Exited, Running, Waiting, Over
<1>t. TypeOK
  BY DEF ServiceInv
<1>1. CASE \E d \in Calls, r \in Requests : Receive(d, r)
  BY <1>t, <1>1 DEF WaitInv, Receive, Goto, TypeOK, processVars
<1>2. ASSUME NEW d \in Calls, HandlerStep(d) PROVE WaitInv'
  <2>1. CASE LaunchCode(d)
    BY <1>t, <2>1 DEF WaitInv, LaunchCode, Launch, Goto, MoveTo, TypeOK, ProcessTypeOK
  <2>2. CASE ~LaunchCode(d)
    <3>1. UNCHANGED <<stage, child>>
      BY <1>2, <2>2 DEF HandlerStep, Reserve, TakeResult, Complete, Reply, AnswerWithoutCode,
                        HandlerRaises, processVars
    <3>2. PICK next : Goto(d, next) /\ next # "process"
      BY <1>2, <2>2 DEF HandlerStep, Reserve, TakeResult, Complete, Reply, AnswerWithoutCode,
                        HandlerRaises
    <3> QED BY <1>t, <3>1, <3>2 DEF WaitInv, Goto, TypeOK
  <2> QED BY <2>1, <2>2
<1>3. ASSUME NEW d \in Calls, ProcessGoesOn(d) PROVE WaitInv'
  <2>1. UNCHANGED at
    BY <1>3 DEF ProcessGoesOn, handlerVars
  <2>2. CASE CodeGoesOn(d)
    BY <1>t, <2>1, <2>2 DEF CodeGoesOn, StartDescendant, EndDescendants, CloseOutput, ChildExits,
                            WaitInv, TypeOK, ProcessTypeOK
  <2>3. CASE DrainOutput(d) \/ DrainRaises(d)
    BY <2>1, <2>3 DEF DrainOutput, DrainRaises, WaitInv
  <2>4. CASE WaiterStep(d)
    BY <1>t, <2>1, <2>4 DEF WaiterStep, WaitReturns, TimeOut, TerminateNothing, KillGroup,
                            KillChild, Reap, Join, MoveTo, WaitInv, TypeOK, ProcessTypeOK
  <2> QED BY <1>3, <2>2, <2>3, <2>4 DEF ProcessGoesOn
<1>4. CASE (\E i \in Ids, k \in Keys : Fetch(i, k)) \/ Restart \/ UNCHANGED vars
  BY <1>4 DEF Fetch, Restart, WaitInv, vars, handlerVars, processVars
<1>5. CASE Crash
  BY <1>5 DEF Crash, WaitInv, Ended
<1> QED BY <1>1, <1>2, <1>3, <1>4, <1>5 DEF Next

\* The thread of a live call never waits for anything but the pipes that what
\* the code has left behind holds (bounded_process.py:76-103).
THEOREM CallsWaitForPipesOnly == Spec => []OnlyPipesBlock
<1>1. ServiceInv /\ WaitInv => OnlyPipesBlock
  BY DEF ServiceInv, ProcessInv, WaitInv, OnlyPipesBlock, OutputIsHeld, Waiting, Over, Exited
<1>2. Init => WaitInv
  BY DEF Init, ProcessInit, WaitInv
<1>3. ServiceInv /\ WaitInv /\ [Next]_vars => WaitInv'
  BY WaitInvStep
<1> QED BY <1>1, <1>2, <1>3, ServiceInvariance, PTL DEF Spec

-------------------------------------------------------------------------------
(* The abstract records.                                                   *)

\* The ids of the calls that execute: the "executing" of Records.
Executing == {request[c].id : c \in {d \in Calls : at[d] \in {"execute", "process", "complete"}}}

\* What the records say of id i.
Record(i) ==
  IF rows[i] = None THEN None
  ELSE [key |-> rows[i].key,
        outcome |-> IF rows[i].result = None THEN None ELSE rows[i].result.status]

LEMMA RecordsInitially == Init => Records!Init
  BY DEF Init, Records!Init

\* Two calls that execute have different ids.
LEMMA ExecutingApart ==
  ASSUME ServiceInv, NEW c \in Calls, NEW d \in Calls,
         at[c] \in Working, at[d] \in Working, request[c].id = request[d].id
  PROVE  c = d
  BY DEF ServiceInv, CallInv, Owns

LEMMA SameCallsExecute ==
  ASSUME \A d \in Calls : at'[d] \in Working <=> at[d] \in Working,
         \A d \in Calls : at[d] \in Working => request'[d] = request[d]
  PROVE  Executing' = Executing
  BY DEF Executing, Working

LEMMA RecordsStutter ==
  ASSUME UNCHANGED rows, Executing' = Executing
  PROVE  UNCHANGED Records!recordVars
  BY DEF Records!recordVars, Executing

\* One call stops executing.
LEMMA CallStops ==
  ASSUME ServiceInv, NEW c \in Calls, at[c] \in Working, at'[c] \notin Working,
         \A d \in Calls \ {c} : at'[d] = at[d], UNCHANGED request
  PROVE  request[c].id \in Executing /\ Executing' = Executing \ {request[c].id}
  BY ExecutingApart DEF Executing, Working

LEMMA ReserveRefines ==
  ASSUME ServiceInv, NEW c \in Calls, Reserve(c)
  PROVE  [Records!Next]_(Records!recordVars)
<1> USE DEF ServiceInv
<1> DEFINE r == request[c]
<1>1. /\ at[c] = "reserve" /\ UNCHANGED request
      /\ r \in Requests /\ r.id \in Ids /\ r.key \in Keys
  BY DEF Reserve, CallInv, Ids, Keys
<1>2. CASE /\ Free(r)
           /\ rows' = [rows EXCEPT ![r.id] =
                         [key |-> r.key, work |-> r.work, by |-> c, result |-> None]]
           /\ at' = [at EXCEPT ![c] = "execute"]
  <2>1. rows'[r.id] # None
    <3>1. rows'[r.id] = [key |-> r.key, work |-> r.work, by |-> c, result |-> None]
      BY <1>1, <1>2 DEF TypeOK
    <3>2. rows'[r.id] \in Row
      BY <1>1, <3>1 DEF Row, Keys, Works
    <3> QED BY <3>2, FreshNone
  <2>2. /\ Record(r.id) = None
        /\ Record(r.id)' = [key |-> r.key, outcome |-> None]
        /\ \A i \in Ids \ {r.id} : Record(i)' = Record(i)
    BY <1>1, <1>2, <2>1 DEF Record, Free, TypeOK
  <2>3. \A i \in Ids : Record(i) # None => Record(i).key # r.key
    BY <1>2 DEF Record, Free
  <2>4. [i \in Ids |-> Record(i)]' =
          [[i \in Ids |-> Record(i)] EXCEPT ![r.id] = [key |-> r.key, outcome |-> None]]
    BY <1>1, <2>2
  <2>5. Executing' = Executing \cup {r.id}
    BY <1>1, <1>2 DEF Executing, TypeOK
  <2>6. PICK i \in Ids, k \in Keys : i = r.id /\ k = r.key
    BY <1>1
  <2>7. Records!Admit(i, k)
    BY <2>2, <2>3, <2>4, <2>5, <2>6 DEF Records!Admit, Record, Executing
  <2> QED BY <2>7 DEF Records!Next
<1>3. CASE UNCHANGED rows /\ (Goto(c, "reply") \/ Goto(c, "refused"))
  <2>1. \A d \in Calls : at'[d] \in Working <=> at[d] \in Working
    BY <1>1, <1>3 DEF Goto, TypeOK, Working
  <2> QED BY <1>1, <1>3, <2>1, SameCallsExecute, RecordsStutter
<1> QED BY <1>2, <1>3 DEF Reserve, Goto

LEMMA CompleteRefines ==
  ASSUME ServiceInv, NEW c \in Calls, Complete(c)
  PROVE  [Records!Next]_(Records!recordVars)
<1> USE FreshNone DEF ServiceInv
<1>0. PICK i \in Ids : i = request[c].id
  BY DEF Complete, CallInv, Ids
<1>1. /\ at[c] = "complete"
      /\ rows[i] # None /\ rows[i].result = None /\ result[c] \in Result
  BY <1>0 DEF Complete, CallInv, Owns, Working
<1>2. /\ rows' = [rows EXCEPT ![i].result = result[c]]
      /\ at' = [at EXCEPT ![c] = "reply"]
      /\ UNCHANGED request
  BY <1>0, <1>1 DEF Complete, Goto
<1>3. /\ rows[i] \in Row /\ rows'[i] \in Row /\ rows'[i] # None
      /\ rows'[i].key = rows[i].key /\ rows'[i].result = result[c]
      /\ \A j \in Ids \ {i} : rows'[j] = rows[j]
  BY <1>1, <1>2 DEF TypeOK, Row
<1>4. result[c] # None /\ result[c].status \in Status
  BY <1>1 DEF Result
<1>5. /\ Record(i) = [key |-> rows[i].key, outcome |-> None]
      /\ Record(i)' = [key |-> rows[i].key, outcome |-> result[c].status]
      /\ \A j \in Ids \ {i} : Record(j)' = Record(j)
  BY <1>1, <1>3, <1>4 DEF Record
<1>6. [j \in Ids |-> Record(j)]' =
        [[j \in Ids |-> Record(j)] EXCEPT ![i].outcome = result[c].status]
  <2>1. Record(i)' = [Record(i) EXCEPT !.outcome = result[c].status]
    BY <1>5
  <2> QED BY <1>5, <2>1
<1>7. i \in Executing /\ Executing' = Executing \ {i}
  BY <1>0, <1>1, <1>2, CallStops DEF Working, TypeOK
<1>8. PICK outcome \in Status : outcome = result[c].status
  BY <1>4
<1>9. Records!Finish(i, outcome)
  BY <1>6, <1>7, <1>8 DEF Records!Finish, Record, Executing
<1> QED BY <1>9 DEF Records!Next

LEMMA HandlerRaisesRefines ==
  ASSUME ServiceInv, NEW c \in Calls, HandlerRaises(c)
  PROVE  [Records!Next]_(Records!recordVars)
<1>1. /\ at' = [at EXCEPT ![c] = "refused"] /\ UNCHANGED <<rows, request>>
      /\ at[c] # "idle"
  BY DEF HandlerRaises, Goto, serverVars, MayRaise
<1>2. CASE at[c] \in Working
  <2>1. request[c].id \in Executing /\ Executing' = Executing \ {request[c].id}
    BY <1>1, <1>2, CallStops DEF Working, ServiceInv, TypeOK
  <2>2. PICK i \in Ids : i = request[c].id
    BY <1>1 DEF ServiceInv, CallInv, Ids
  <2>3. Records!Lose(i)
    BY <1>1, <2>1, <2>2 DEF Records!Lose, Executing
  <2> QED BY <2>3 DEF Records!Next
<1>3. CASE at[c] \notin Working
  <2>1. \A d \in Calls : at'[d] \in Working <=> at[d] \in Working
    BY <1>1, <1>3 DEF Working, ServiceInv, TypeOK
  <2> QED BY <1>1, <2>1, SameCallsExecute, RecordsStutter
<1> QED BY <1>2, <1>3

LEMMA CrashRefines ==
  ASSUME ServiceInv, Crash
  PROVE  [Records!Next]_(Records!recordVars)
<1>1. /\ UNCHANGED <<rows, request>>
      /\ \A c \in Calls : at'[c] \notin Working
  BY DEF Crash, serverVars, Working, Ended
<1>2. Executing' = {}
  BY <1>1 DEF Executing, Working
<1>3. CASE Executing = {}
  BY <1>1, <1>2, <1>3, RecordsStutter
<1>4. CASE Executing # {}
  <2>1. Records!LoseAll
    BY <1>1, <1>2, <1>4 DEF Records!LoseAll, Executing
  <2> QED BY <2>1 DEF Records!Next
<1> QED BY <1>3, <1>4

\* The other steps write no row and let no call start or stop executing.
LEMMA OtherStepsStutter ==
  ASSUME ServiceInv,
         \/ \E c \in Calls : \/ \E r \in Requests : Receive(c, r)
                             \/ LaunchCode(c)
                             \/ TakeResult(c)
                             \/ Reply(c)
                             \/ \E status \in {"denied", "unavailable"} : AnswerWithoutCode(c, status)
                             \/ ProcessGoesOn(c)
         \/ \E i \in Ids, k \in Keys : Fetch(i, k)
         \/ Restart
         \/ UNCHANGED vars
  PROVE  UNCHANGED Records!recordVars
<1> USE DEF ServiceInv, TypeOK, Working, Goto, serverVars, handlerVars
<1>1. UNCHANGED rows
  BY DEF Receive, LaunchCode, TakeResult, Reply, AnswerWithoutCode, ProcessGoesOn, Fetch, Restart, vars
<1>2. \A d \in Calls : at'[d] \in Working <=> at[d] \in Working
  BY DEF Receive, LaunchCode, TakeResult, Reply, AnswerWithoutCode, ProcessGoesOn, Fetch, Restart, vars
<1>3. \A d \in Calls : at[d] \in Working => request'[d] = request[d]
  BY DEF Receive, LaunchCode, TakeResult, Reply, AnswerWithoutCode, ProcessGoesOn, Fetch, Restart, vars
<1> QED BY <1>1, <1>2, <1>3, SameCallsExecute, RecordsStutter

\* The service keeps the abstract records: no id or key goes to other work, no
\* outcome is replaced, and only what is being executed gets one
\* (colab_service.py:89-131).
THEOREM ServiceImplementsRecords == Spec => KeepsRecords
<1>1. ASSUME ServiceInv, [Next]_vars
      PROVE  [Records!Next]_(Records!recordVars)
  <2>1. CASE \E c \in Calls : Reserve(c)
    BY <1>1, <2>1, ReserveRefines
  <2>2. CASE \E c \in Calls : Complete(c)
    BY <1>1, <2>2, CompleteRefines
  <2>3. CASE \E c \in Calls : HandlerRaises(c)
    BY <1>1, <2>3, HandlerRaisesRefines
  <2>4. CASE Crash
    BY <1>1, <2>4, CrashRefines
  <2> QED BY <1>1, <2>1, <2>2, <2>3, <2>4, OtherStepsStutter DEF Next, HandlerStep
<1> QED BY <1>1, RecordsInitially, ServiceInvariance, PTL DEF Spec, KeepsRecords, Records!Spec
===============================================================================

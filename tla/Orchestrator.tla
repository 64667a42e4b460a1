----------------------------- MODULE Orchestrator -----------------------------
(***************************************************************************)
(* IntegratedOrchestrator (app/orchestration/service.py): execute_run and  *)
(* resume_after_tool_gate, with the tool authorization (Gate C) and the    *)
(* worker threads they use.  One call of either is a handler of            *)
(* RunCoordinator.                                                         *)
(***************************************************************************)
EXTENDS RunCoordinator

CONSTANT
  PlanWorkers  \* PlanWorkers[p]: the workers plan p asks for

ASSUME PlanWorkersAssumption ==
  PlanWorkers \in [Plans -> SUBSET Workers] /\ \A p \in Plans : PlanWorkers[p] # {}

OrchestratorSteps ==
  { "execute", "dispatch", "authorize", "requestToolGate", "markWaiting",
    "running", "writeOutputs", "resolveToolGate", "toolOutput" }

\* After a batch: its gates pause the run, else the next batch, else QA.
AfterBatch(j) ==
  CASE j.pending # {}                -> "pause"
    [] j.pending = {} /\ j.todo # {} -> "dispatch"
    [] OTHER                         -> "supervise"

\* After a worker of the batch has been looked at.
AfterAuthorization(j) ==
  CASE j.batch # {}                    -> "authorize"
    [] j.batch = {} /\ j.running # {}  -> "running"
    [] OTHER                           -> AfterBatch(j)

-------------------------------------------------------------------------------
(* Gate C.  _find_matching_gate matches on the worker and on what it asks  *)
(* for, whichever plan asked, and takes the newest match.                  *)

ToolGates(w) == {g \in Gates : gates[g].kind = "TOOL_RISK" /\ gates[g].subject = w}

Matches(g, w) == g \in ToolGates(w) /\ \A k \in ToolGates(w) : k <= g

\* Gate C, when the worker needs it, has been answered.
Answered(w) == w \in Risky => \E g \in Gates : Matches(g, w) /\ gates[g].status = "RESOLVED"

\* Faulty: any answer grants.
GrantedAnyway(w) == w \in Workers

\* The grant the worker gets then: Gate A's, or one that follows the answer.
Granted(w) == w \in Risky => \E g \in Gates : Matches(g, w) /\ gates[g].decision = "APPROVE"

-------------------------------------------------------------------------------
\* execute_run: the plan is read once, and this handler works on that copy.
ExecuteRun(h) ==
  /\ pc[h] = "execute"
  /\ IF state = "EXECUTING" /\ plan # None
     THEN Goto(h, "dispatch", [NoJob EXCEPT !.plan = plan, !.todo = PlanWorkers[plan]])
     ELSE Goto(h, "idle", NoJob)
  /\ UNCHANGED <<sessionVars, hostVars>>

\* execute_run raised before it ran a batch: the dependencies have a cycle, a
\* tool is not registered.  The run stays in EXECUTING.
PreparationRaises(h) ==
  /\ pc[h] \in {"dispatch", "authorize"}
  /\ Goto(h, "idle", NoJob)
  /\ UNCHANGED <<sessionVars, hostVars>>

\* Faulty: the batch stays among the ones to do.
NextBatchAgain(h) ==
  /\ pc[h] = "dispatch"
  /\ \E batch \in (SUBSET job[h].todo) \ {{}} :
       Goto(h, "authorize", [job[h] EXCEPT !.batch = batch])
  /\ UNCHANGED <<sessionVars, hostVars>>

\* The next batch.  Which workers are ready together is the dispatcher's doing:
\* here any of the remaining ones may be.
NextBatch(h) ==
  /\ pc[h] = "dispatch"
  /\ \E batch \in (SUBSET job[h].todo) \ {{}} :
       Goto(h, "authorize", [job[h] EXCEPT !.batch = batch, !.todo = @ \ batch])
  /\ UNCHANGED <<sessionVars, hostVars>>

\* A worker with a successful output is not run again.
SkipWorker(h, w) ==
  /\ pc[h] = "authorize"
  /\ w \in job[h].batch
  /\ outputs[w] = "success"
  /\ LET j == [job[h] EXCEPT !.batch = @ \ {w}] IN Goto(h, AfterAuthorization(j), j)
  /\ UNCHANGED <<sessionVars, hostVars>>

\* A worker that needs no Gate C, or whose matching gate has been answered, is
\* to run, with a refused grant when the answer was a REJECT.
AuthorizeWorker(h, w) ==
  /\ pc[h] = "authorize"
  /\ w \in job[h].batch
  /\ outputs[w] # "success"
  /\ Answered(w)
  /\ LET j == [job[h] EXCEPT !.batch = @ \ {w}, !.running = @ \cup {w},
                              !.granted = IF Granted(w) THEN @ \cup {w} ELSE @ \ {w}] IN
       Goto(h, AfterAuthorization(j), j)
  /\ UNCHANGED <<sessionVars, hostVars>>

\* Building the execution plan raised: an error output, and no execution.  The
\* plan of a worker that only asks for the network is built before its Gate C.
PlanningError(h, w) ==
  /\ pc[h] = "authorize"
  /\ w \in job[h].batch
  /\ outputs[w] # "success"
  /\ SetWorkerOutput(w, "error")
  /\ LET j == [job[h] EXCEPT !.batch = @ \ {w}] IN Goto(h, AfterAuthorization(j), j)
  /\ UNCHANGED hostVars

\* A gate still open for the worker is waited for, and only when there is none
\* at all is one requested.
NeedToolGate(h, w) ==
  /\ pc[h] = "authorize"
  /\ w \in job[h].batch
  /\ outputs[w] # "success"
  /\ ~Answered(w)
  /\ Goto(h, IF ToolGates(w) = {} THEN "requestToolGate" ELSE "markWaiting",
          [job[h] EXCEPT !.batch = @ \ {w}, !.worker = w])
  /\ UNCHANGED <<sessionVars, hostVars>>

RequestToolGate(h) ==
  /\ pc[h] = "requestToolGate"
  /\ AddApprovalGate("TOOL_RISK", job[h].worker)
  /\ Goto(h, "markWaiting", job[h])
  /\ UNCHANGED hostVars

MarkWaitingForGate(h) ==
  /\ pc[h] = "markWaiting"
  /\ SetWorkerOutput(job[h].worker, "waiting_human")
  /\ LET j == [job[h] EXCEPT !.pending = @ \cup {job[h].worker}, !.worker = None] IN
       Goto(h, AfterAuthorization(j), j)
  /\ UNCHANGED hostVars

\* Faulty: what the other workers returned passes for the whole batch.
AfterThreadQuietly(j) ==
  CASE j.running # {}                  -> "running"
    [] j.running = {} /\ j.done # {}   -> "writeOutputs"
    [] OTHER                           -> AfterBatch(j)

\* After a worker thread has ended: the pool waits for all of them, and an
\* exception of any of them then leaves execute_run.
AfterThread(j) ==
  CASE j.running # {}              -> "running"
    [] j.running = {} /\ j.raised  -> "idle"
    [] OTHER                       -> "writeOutputs"

\* _execute_one: the gateway's result is stored and the lease completed, which
\* may raise although the result stays.  A refused grant never reaches a
\* backend: the gateway's answer is DENIED.
FinishExecution(h, w, success) ==
  /\ pc[h] = "running"
  /\ w \in job[h].running
  /\ success => w \in job[h].granted
  /\ AddExecutionResult(w, success)
  /\ \E completed \in BOOLEAN :
       LET rest == [job[h] EXCEPT !.running = @ \ {w}]
           j    == IF completed THEN [rest EXCEPT !.done = @ \cup {<<w, success>>}]
                                ELSE [rest EXCEPT !.raised = TRUE] IN
         Goto(h, AfterThread(j), j)
  /\ UNCHANGED hostVars

\* _execute_one raised, for example in the gateway or while storing: the
\* lease stays RUNNING and there is no result.
ExecutionRaises(h, w) ==
  /\ pc[h] = "running"
  /\ w \in job[h].running
  /\ LET j == [job[h] EXCEPT !.running = @ \ {w}, !.raised = TRUE] IN
       Goto(h, AfterThread(j), j)
  /\ orphans' = orphans \cup ({w} \cap job[h].granted)
  /\ UNCHANGED <<sessionVars, crashes>>

\* One worker output per result of the batch.
WriteOutput(h) ==
  /\ pc[h] = "writeOutputs"
  /\ \E result \in job[h].done :
       /\ SetWorkerOutput(result[1], IF result[2] THEN "success" ELSE "error")
       /\ LET j == [job[h] EXCEPT !.done = @ \ {result}] IN
            Goto(h, IF j.done # {} THEN "writeOutputs" ELSE AfterBatch(j), j)
  /\ UNCHANGED hostVars

-------------------------------------------------------------------------------
(* resume_after_tool_gate: the human's answer to Gate C, in a thread.      *)

ResumeAfterToolGate(h, g) ==
  /\ Callback(h)
  /\ gates[g].kind = "TOOL_RISK"
  /\ gates[g].status = "OPEN"
  /\ state = "WORKER_WAITING_HUMAN"
  /\ Goto(h, "resolveToolGate", [NoJob EXCEPT !.gate = g, !.worker = gates[g].subject])
  /\ UNCHANGED <<sessionVars, hostVars>>

\* The gate is resolved, unless another answer was quicker.
ResolveToolGate(h, decision) ==
  /\ pc[h] = "resolveToolGate"
  /\ IF gates[job[h].gate].status = "OPEN"
     THEN ResolveApprovalGate(job[h].gate, decision) /\ Goto(h, "toolOutput", job[h])
     ELSE UNCHANGED sessionVars /\ Goto(h, "idle", NoJob)
  /\ UNCHANGED hostVars

WriteToolDecision(h) ==
  /\ pc[h] = "toolOutput"
  /\ LET approved == gates[job[h].gate].decision = "APPROVE" IN
       /\ SetWorkerOutput(job[h].worker, IF approved THEN "approved" ELSE "denied")
       /\ Goto(h, IF approved THEN "beginExecution" ELSE "revise", job[h])
  /\ UNCHANGED hostVars

-------------------------------------------------------------------------------
OrchestratorStep(h) ==
  \/ ExecuteRun(h) \/ PreparationRaises(h) \/ NextBatch(h)
  \/ \E w \in Workers :
       \/ SkipWorker(h, w) \/ AuthorizeWorker(h, w) \/ PlanningError(h, w)
       \/ NeedToolGate(h, w)
       \/ \E success \in BOOLEAN : FinishExecution(h, w, success)
       \/ ExecutionRaises(h, w)
  \/ RequestToolGate(h) \/ MarkWaitingForGate(h) \/ WriteOutput(h)
  \/ \E g \in Gates : ResumeAfterToolGate(h, g)
  \/ \E decision \in HumanDecisions \cap {"APPROVE", "REJECT"} : ResolveToolGate(h, decision)
  \/ WriteToolDecision(h)
===============================================================================

------------------------- MODULE AgentRuntime_proofs -------------------------
(***************************************************************************)
(* What holds of AgentRuntime for every set of handlers, workers and plans *)
(* and every bound: type correctness, the approval invariants that the     *)
(* coordinator's documentation puts first, that a completed run is final,  *)
(* the limit on revisions, that no answer of a human is lost while nothing *)
(* crashes, that no handler goes round in circles, and that a plan which   *)
(* was executed gets to QA with an output of each of its workers.          *)
(***************************************************************************)
EXTENDS AgentRuntime, TLAPS

HandlersTypeOK ==
  /\ pc \in [Handlers -> Steps]
  /\ job \in [Handlers -> Job]
  /\ loop \in Handlers \cup {None}

HostTypeOK == orphans \subseteq Workers /\ crashes \in 0..MaxCrashes

-------------------------------------------------------------------------------
(* The inductive invariant.                                                *)

\* A gate has a decision only once it is resolved.
DecisionsAreAnswers == \A g \in Gates : gates[g].status # "RESOLVED" => gates[g].decision = None

\* A Gate C is about a worker.
ToolSubjects == \A g \in Gates : gates[g].kind = "TOOL_RISK" => gates[g].subject \in Workers

\* The locals a step relies on are there.
LocalsOK ==
  \A h \in Handlers :
    /\ pc[h] \in {"requestToolGate", "markWaiting", "resolveToolGate", "toolOutput"} =>
         job[h].worker \in Workers
    /\ pc[h] \in {"applyDecision", "resolveToolGate", "toolOutput"} => job[h].gate \in Gates
    /\ pc[h] \in {"record", "recompute", "recordQA", "finalize"} => job[h].evidence # None

\* The steps that only a run past Gate A takes.  "revise" is not one of them:
\* a Gate A answered MODIFY gets there, and no further.
WorkSteps ==
  OrchestratorSteps \cup
  { "beginExecution", "pause", "supervise", "superviseFailure", "awaitFinal", "complete",
    "enterRevision", "rearchitect", "finalize", "revision", "evaluate", "record", "recompute",
    "recordQA", "requestFinalGate", "reconcile" }

GateAInv ==
  /\ state \in PastGateA \cup {"REVISION"} => ApprovedGate("ARCHITECTURE")
  /\ executions > 0 \/ Reported # {} => ApprovedGate("ARCHITECTURE")
  /\ \A h \in Handlers : pc[h] \in WorkSteps => ApprovedGate("ARCHITECTURE")

GateDInv ==
  /\ state = "COMPLETED" \/ final # None => ApprovedGate("FINAL") /\ qa # None
  /\ state = "COMPLETED" => final # None
  /\ \A h \in Handlers :
       /\ pc[h] \in {"finalize", "complete"} => ApprovedGate("FINAL") /\ qa # None
       /\ pc[h] = "complete" => final # None

ApprovedTool(w) == \E g \in ToolGates(w) : gates[g].decision = "APPROVE"

GateCInv ==
  /\ \A w \in (passed \cup orphans) \cap Risky : ApprovedTool(w)
  /\ \A h \in Handlers : \A w \in job[h].granted \cap Risky : ApprovedTool(w)

\* The part of it that is about the shape of the state.
WellFormed == TypeOK /\ DecisionsAreAnswers /\ ToolSubjects /\ LocalsOK

IInv == WellFormed /\ GateAInv /\ GateDInv /\ GateCInv

-------------------------------------------------------------------------------
(* The operations of the session keep its type.                            *)

\* Every pending transition asks for a state and goes on to a step.
LEMMA TransitionsType ==
  ASSUME NEW call \in DOMAIN Transitions
  PROVE  Transitions[call].target \in WorkflowState /\ Transitions[call].next \in Steps
BY DEF Transitions, WorkflowState, Steps, CoordinatorSteps, OrchestratorSteps

\* SessionManager.transition keeps the record well typed.
LEMMA SetStateType ==
  ASSUME SessionTypeOK, NEW s \in WorkflowState, SetState(s)
  PROVE  SessionTypeOK'
BY DEF SessionTypeOK, SetState, evidenceVars

\* So does set_architecture_plan,
LEMMA SetPlanType ==
  ASSUME SessionTypeOK, NEW p \in Plans, SetArchitecturePlan(p)
  PROVE  SessionTypeOK'
BY DEF SessionTypeOK, SetArchitecturePlan, evidenceVars

\* add_approval_gate,
LEMMA AddGateType ==
  ASSUME SessionTypeOK, NEW kind \in GateKind, NEW subject \in GateSubject,
         AddApprovalGate(kind, subject)
  PROVE  SessionTypeOK'
<1>1. PICK g \in Gates : gates' = [gates EXCEPT ![g] = [ kind |-> kind, status |-> "OPEN",
                                         decision |-> None, subject |-> subject ]]
  BY DEF AddApprovalGate
<1>2. [ kind |-> kind, status |-> "OPEN", decision |-> None, subject |-> subject ]
        \in ApprovalGate
  BY DEF ApprovalGate
<1>3. gates' \in [Gates -> ApprovalGate]
  BY <1>1, <1>2 DEF SessionTypeOK
<1>4. QED
  BY <1>3 DEF SessionTypeOK, AddApprovalGate, evidenceVars

\* resolve_approval_gate,
LEMMA ResolveGateType ==
  ASSUME SessionTypeOK, NEW g \in Gates, NEW d \in HumanDecisionType, ResolveApprovalGate(g, d)
  PROVE  SessionTypeOK'
<1>1. [gates[g] EXCEPT !.status = "RESOLVED", !.decision = d] \in ApprovalGate
  BY DEF SessionTypeOK, ApprovalGate
<1>2. gates' = [gates EXCEPT ![g] = [gates[g] EXCEPT !.status = "RESOLVED", !.decision = d]]
  BY DEF ResolveApprovalGate, SessionTypeOK
<1>3. gates' \in [Gates -> ApprovalGate]
  BY <1>1, <1>2 DEF SessionTypeOK
<1>4. QED
  BY <1>3 DEF SessionTypeOK, ResolveApprovalGate, evidenceVars

\* set_worker_output,
LEMMA SetOutputType ==
  ASSUME SessionTypeOK, NEW w \in Workers, NEW s \in OutputStatus, SetWorkerOutput(w, s)
  PROVE  SessionTypeOK'
BY DEF SessionTypeOK, SetWorkerOutput

\* add_execution_result,
LEMMA AddResultType ==
  ASSUME SessionTypeOK, NEW w \in Workers, NEW success \in BOOLEAN,
         AddExecutionResult(w, success)
  PROVE  SessionTypeOK'
BY DEF SessionTypeOK, AddExecutionResult

\* add_message, for QA
LEMMA AddQAType ==
  ASSUME SessionTypeOK, NEW e \in EvidenceSummary \cup {None}, AddQAMessage(e)
  PROVE  SessionTypeOK'
BY DEF SessionTypeOK, AddQAMessage, evidenceVars

\* and for a revision,
LEMMA AddRevisionType ==
  ASSUME SessionTypeOK, AddRevisionMessage
  PROVE  SessionTypeOK'
BY DEF SessionTypeOK, AddRevisionMessage, evidenceVars

\* set_final_result,
LEMMA SetFinalType ==
  ASSUME SessionTypeOK, NEW e \in EvidenceSummary \cup {None}, SetFinalResult(e)
  PROVE  SessionTypeOK'
BY DEF SessionTypeOK, SetFinalResult, evidenceVars

\* and of course a step that writes nothing.
LEMMA SessionUnchangedType ==
  ASSUME SessionTypeOK, UNCHANGED sessionVars
  PROVE  SessionTypeOK'
BY DEF SessionTypeOK, sessionVars, evidenceVars

\* A handler that goes on to a step with well-typed locals stays well typed.
LEMMA GotoType ==
  ASSUME HandlersTypeOK, NEW h \in Handlers, NEW step \in Steps, NEW j \in Job,
         Goto(h, step, j)
  PROVE  HandlersTypeOK'
<1>1. NoJob \in Job
  BY DEF NoJob, Job, Reviser
<1>2. QED
  BY <1>1 DEF HandlersTypeOK, Goto

\* A handler without locals is well typed.
LEMMA NoJobType == NoJob \in Job
BY DEF NoJob, Job, Reviser

\* The type invariant, by who owns the variables.
LEMMA TypeParts == TypeOK <=> SessionTypeOK /\ HandlersTypeOK /\ HostTypeOK
BY DEF TypeOK, HandlersTypeOK, HostTypeOK

\* What most actions change: a handler, and the session by one operation.
LEMMA StepType ==
  ASSUME TypeOK, SessionTypeOK', NEW h \in Handlers, NEW step \in Steps, NEW j \in Job,
         Goto(h, step, j), UNCHANGED hostVars
  PROVE  TypeOK'
BY TypeParts, GotoType DEF TypeOK, HandlersTypeOK, HostTypeOK, hostVars

\* Updates of the locals of a handler keep their type.
LEMMA JobBatch ==
  ASSUME NEW j \in Job, NEW batch \in SUBSET Workers, NEW todo \in SUBSET Workers
  PROVE  [j EXCEPT !.batch = batch, !.todo = todo] \in Job
BY DEF Job

LEMMA JobRunning ==
  ASSUME NEW j \in Job, NEW running \in SUBSET Workers
  PROVE  /\ [j EXCEPT !.running = running] \in Job
         /\ [j EXCEPT !.running = running, !.raised = TRUE] \in Job
BY DEF Job

LEMMA JobDone ==
  ASSUME NEW j \in Job, NEW done \in SUBSET (Workers \X BOOLEAN)
  PROVE  [j EXCEPT !.done = done] \in Job
BY DEF Job

LEMMA JobRaised == ASSUME NEW j \in Job PROVE [j EXCEPT !.raised = TRUE] \in Job
BY DEF Job

LEMMA JobRebuilds == ASSUME NEW j \in Job PROVE [j EXCEPT !.rebuilds = TRUE] \in Job
BY DEF Job

\* What QA counts is an evidence summary.
LEMMA EvidenceType == ASSUME SessionTypeOK PROVE Evidence \in EvidenceSummary
BY DEF SessionTypeOK, Evidence, EvidenceSummary, Reported

-------------------------------------------------------------------------------
(* Every action of the coordinator keeps TypeOK.                           *)

\* One step per action of CoordinatorStep.
LEMMA CoordinatorStepType ==
  ASSUME TypeOK, NEW h \in Handlers, CoordinatorStep(h)
  PROVE  TypeOK'
<1> USE TypeParts, NoJobType
<1>j. job[h] \in Job /\ pc[h] \in Steps
  BY DEF HandlersTypeOK
<1>0. /\ {"idle", "build", "planning", "requestPlanGate", "applyDecision", "finalize",
           "revise", "revision", "recordRevision", "evaluate", "record", "recompute", "recordQA",
           "requestFinalGate", "reconcile"} \subseteq Steps
      /\ {"awaitPlanDecision", "beginExecution", "reject", "complete", "pause", "supervise",
           "superviseFailure", "awaitFinal", "fail", "enterRevision", "rearchitect"} \subseteq Steps
  BY DEF Steps, CoordinatorSteps, Transitions
<1>1. CASE StartRun(h)
  BY <1>1, <1>0, SetStateType, StepType DEF StartRun, WorkflowState
<1>2. CASE BuildArchitecture(h)
  <2>1. SessionTypeOK'
    BY <1>2, SetStateType, SessionUnchangedType DEF BuildArchitecture, WorkflowState
  <2>2. PICK step \in Steps, j \in Job : Goto(h, step, j)
    BY <1>2, <1>0, <1>j DEF BuildArchitecture
  <2>3. QED
    BY <1>2, <2>1, <2>2, StepType DEF BuildArchitecture
<1>3. CASE StorePlan(h)
  <2>1. PICK p \in Plans : /\ SetArchitecturePlan(p)
                           /\ Goto(h, "awaitPlanDecision", [job[h] EXCEPT !.plan = p])
    BY <1>3 DEF StorePlan
  <2>2. [job[h] EXCEPT !.plan = p] \in Job
    BY <1>j DEF Job
  <2>3. QED
    BY <1>3, <1>0, <2>1, <2>2, SetPlanType, StepType DEF StorePlan
<1>4. CASE PlanFails(h)
  BY <1>4, <1>0, SessionUnchangedType, StepType DEF PlanFails
<1>6. CASE \E g \in Gates, decision \in HumanDecisions : ResolveGate(h, g, decision)
  <2>1. PICK g \in Gates, decision \in HumanDecisions : ResolveGate(h, g, decision)
    BY <1>6
  <2>2. SessionTypeOK'
    BY <2>1, ResolveGateType, DecisionsAssumption DEF ResolveGate
  <2>3. [NoJob EXCEPT !.gate = g] \in Job
    BY DEF Job
  <2>4. HandlersTypeOK'
    BY <2>1, <2>3, <1>0 DEF ResolveGate, HandlersTypeOK
  <2>5. QED
    BY <2>1, <2>2, <2>4 DEF ResolveGate, TypeOK, HandlersTypeOK, HostTypeOK, hostVars
<1>7. CASE ApplyArchitectureDecision(h)
  <2>1. [job[h] EXCEPT !.rebuilds = TRUE] \in Job
    BY <1>j, JobRebuilds
  <2> DEFINE next == IF state # "WAITING_ARCHITECT_APPROVAL" THEN "idle"
                     ELSE CASE gates[job[h].gate].decision = "APPROVE" -> "beginExecution"
                            [] gates[job[h].gate].decision = "REJECT"  -> "reject"
                            [] OTHER                                   -> "revise"
  <2>3. Goto(h, next, [job[h] EXCEPT !.rebuilds = TRUE])
    BY <1>7 DEF ApplyArchitectureDecision
  <2>4. next \in {"idle", "beginExecution", "reject", "revise"}
    OBVIOUS
  <2>2. PICK step \in Steps : Goto(h, step, [job[h] EXCEPT !.rebuilds = TRUE])
    BY <2>3, <2>4, <1>0
  <2>5. QED
    BY <1>7, <2>1, <2>2, SessionUnchangedType, StepType DEF ApplyArchitectureDecision
<1>8. CASE ApplyFinalDecision(h)
  <2>1. [job[h] EXCEPT !.evidence = qa] \in Job
    BY <1>j DEF Job, SessionTypeOK
  <2>2. PICK step \in Steps : Goto(h, step, [job[h] EXCEPT !.evidence = qa])
    BY <1>8, <1>0 DEF ApplyFinalDecision
  <2>3. QED
    BY <1>8, <2>1, <2>2, SessionUnchangedType, StepType DEF ApplyFinalDecision
<1>9. CASE Finalize(h)
  <2>1. job[h].evidence \in EvidenceSummary \cup {None}
    BY <1>j DEF Job
  <2>2. QED
    BY <1>9, <1>0, <1>j, <2>1, SetFinalType, StepType DEF Finalize
<1>10. CASE RequestRevision(h)
  <2>1. PICK step \in Steps : Goto(h, step, job[h])
    BY <1>10, <1>0 DEF RequestRevision
  <2>2. QED
    BY <1>10, <1>j, <2>1, SessionUnchangedType, StepType DEF RequestRevision
<1>11. CASE EnterRevision(h)
  <2>1. PICK step \in Steps : Goto(h, step, job[h])
    BY <1>11, <1>0 DEF EnterRevision
  <2>2. QED
    BY <1>11, <1>j, <2>1, SessionUnchangedType, StepType DEF EnterRevision
<1>12. CASE RecordRevision(h)
  <2>1. PICK step \in Steps : Goto(h, step, job[h])
    BY <1>12, <1>0 DEF RecordRevision
  <2>2. QED
    BY <1>12, <1>j, <2>1, AddRevisionType, StepType DEF RecordRevision
<1>13. CASE Evaluate(h)
  <2>1. [job[h] EXCEPT !.evidence = Evidence, !.reviser = "coordinator"] \in Job
    BY <1>j, EvidenceType DEF Job, Reviser
  <2>2. PICK step \in Steps :
          Goto(h, step, [job[h] EXCEPT !.evidence = Evidence, !.reviser = "coordinator"])
    BY <1>13, <1>0 DEF Evaluate, QAStatus
  <2>3. QED
    BY <1>13, <2>1, <2>2, SessionUnchangedType, StepType DEF Evaluate
<1>14. CASE RecordSupervisorResult(h) \/ RecomputeEvidence(h)
  <2>1. PICK step \in Steps : Goto(h, step, job[h])
    BY <1>14, <1>0 DEF RecordSupervisorResult, RecomputeEvidence
  <2>2. QED
    BY <1>14, <1>j, <2>1, SessionUnchangedType, StepType
    DEF RecordSupervisorResult, RecomputeEvidence
<1>15. CASE RecordQA(h)
  <2>1. job[h].evidence \in EvidenceSummary \cup {None}
    BY <1>j DEF Job
  <2>2. QED
    BY <1>15, <1>0, <1>j, <2>1, AddQAType, StepType DEF RecordQA
<1>5. CASE RequestPlanGate(h)
  <2>1. job[h].plan \in GateSubject
    BY <1>j DEF Job, GateSubject
  <2>2. QED
    BY <1>5, <1>0, <2>1, AddGateType, StepType DEF RequestPlanGate, GateKind
<1>16. CASE RequestFinalGate(h)
  <2>1. job[h].evidence \in GateSubject
    BY <1>j DEF Job, GateSubject
  <2>2. QED
    BY <1>16, <1>0, <2>1, AddGateType, StepType DEF RequestFinalGate, GateKind
<1>17. CASE MoveState(h)
  <2>1. SessionTypeOK'
    BY <1>17, TransitionsType, SetStateType, SessionUnchangedType DEF MoveState
  <2>2. PICK step \in Steps, j \in Job : Goto(h, step, j)
    BY <1>17, <1>0, <1>j, TransitionsType DEF MoveState
  <2>3. QED
    BY <1>17, <2>1, <2>2, StepType DEF MoveState
<1>18. CASE RecoverArchitecture(h)
  BY <1>18, <1>0, SetStateType, StepType DEF RecoverArchitecture, WorkflowState
<1>19. CASE RecoverSupervision(h)
  <2>1. [NoJob EXCEPT !.rebuilds = TRUE] \in Job
    BY DEF Job
  <2>2. QED
    BY <1>19, <1>0, <2>1, SessionUnchangedType, StepType DEF RecoverSupervision
<1>20. CASE \E w \in Workers : RecoverExecution(h, w)
  <2>1. PICK w \in Workers : RecoverExecution(h, w)
    BY <1>20
  <2>2. [NoJob EXCEPT !.worker = w, !.reviser = "recovery", !.rebuilds = TRUE] \in Job
    BY DEF Job, Reviser
  <2>3. QED
    BY <2>1, <2>2, <1>0, SessionUnchangedType, StepType DEF RecoverExecution
<1>21. CASE ReconcileLocal(h)
  <2>1. PICK step \in Steps : Goto(h, step, job[h])
    BY <1>21, <1>0 DEF ReconcileLocal, AfterReconciliation
  <2>2. QED
    BY <1>21, <1>j, <2>1, SessionUnchangedType, StepType DEF ReconcileLocal
<1>22. CASE ReconcileBackend(h)
  <2>1. PICK success \in BOOLEAN : /\ AddExecutionResult(job[h].worker, success)
                                   /\ Goto(h, AfterReconciliation(success), job[h])
    BY <1>22 DEF ReconcileBackend
  <2>2. job[h].worker \in Workers /\ HostTypeOK'
    BY <1>22 DEF ReconcileBackend, HostTypeOK
  <2>3. SessionTypeOK'
    BY <2>1, <2>2, AddResultType
  <2>4. AfterReconciliation(success) \in Steps
    BY <1>0 DEF AfterReconciliation
  <2>5. QED
    BY <1>j, <2>1, <2>2, <2>3, <2>4, GotoType DEF TypeOK, HandlersTypeOK, HostTypeOK
<1>23. CASE ReconcileNothing(h)
  BY <1>23, <1>0, SessionUnchangedType, StepType DEF ReconcileNothing
<1>24. QED
  BY <1>1, <1>2, <1>3, <1>4, <1>5, <1>6, <1>7, <1>8, <1>9, <1>10, <1>11, <1>12, <1>13,
     <1>14, <1>15, <1>16, <1>17, <1>18, <1>19, <1>20, <1>21, <1>22, <1>23 DEF CoordinatorStep

-------------------------------------------------------------------------------
(* Every action of the orchestrator keeps TypeOK.                          *)

\* One step per action of OrchestratorStep.
LEMMA OrchestratorStepType ==
  ASSUME WellFormed, NEW h \in Handlers, OrchestratorStep(h)
  PROVE  TypeOK'
<1> USE TypeParts, NoJobType
<1>t. TypeOK /\ LocalsOK /\ ToolSubjects
  BY DEF WellFormed
<1> USE <1>t
<1>j. job[h] \in Job /\ pc[h] \in Steps
  BY DEF HandlersTypeOK
<1>0. {"idle", "execute", "dispatch", "authorize", "requestToolGate", "markWaiting", "running",
       "writeOutputs", "resolveToolGate", "toolOutput", "pause", "supervise", "beginExecution",
       "revise"} \subseteq Steps
  BY DEF Steps, CoordinatorSteps, OrchestratorSteps, Transitions
<1>a. \A j \in Job : /\ AfterBatch(j) \in Steps
                     /\ AfterAuthorization(j) \in Steps
                     /\ AfterThread(j) \in Steps
  <2>1. \A j \in Job : AfterBatch(j) \in Steps
    BY <1>0 DEF AfterBatch
  <2>2. \A j \in Job : AfterAuthorization(j) \in Steps
    BY <1>0, <2>1 DEF AfterAuthorization
  <2>3. QED
    BY <1>0, <2>1, <2>2 DEF AfterThread
<1>1. CASE ExecuteRun(h)
  <2>1. CASE state = "EXECUTING" /\ plan # None
    <3>1. plan \in Plans
      BY <2>1 DEF SessionTypeOK
    <3>2. PlanWorkers[plan] \subseteq Workers
      BY <3>1, PlanWorkersAssumption
    <3>3. [NoJob EXCEPT !.plan = plan, !.todo = PlanWorkers[plan]] \in Job
      BY <3>1, <3>2 DEF Job
    <3>4. QED
      BY <1>1, <1>0, <2>1, <3>3, SessionUnchangedType, StepType DEF ExecuteRun
  <2>2. CASE ~(state = "EXECUTING" /\ plan # None)
    BY <1>1, <1>0, <2>2, SessionUnchangedType, StepType DEF ExecuteRun
  <2>3. QED
    BY <2>1, <2>2
<1>2. CASE PreparationRaises(h)
  BY <1>2, <1>0, SessionUnchangedType, StepType DEF PreparationRaises
<1>3. CASE NextBatch(h)
  <2>1. PICK batch \in (SUBSET job[h].todo) \ {{}} :
          Goto(h, "authorize", [job[h] EXCEPT !.batch = batch, !.todo = @ \ batch])
    BY <1>3 DEF NextBatch
  <2>2. [job[h] EXCEPT !.batch = batch, !.todo = @ \ batch] \in Job
    <3>1. job[h].todo \subseteq Workers /\ batch \subseteq Workers
      BY <1>j DEF Job
    <3>2. job[h].todo \ batch \in SUBSET Workers /\ batch \in SUBSET Workers
      BY <3>1
    <3>3. QED
      BY <1>j, <3>2, JobBatch
  <2>3. QED
    BY <1>3, <1>0, <2>1, <2>2, SessionUnchangedType, StepType DEF NextBatch
<1>4. ASSUME NEW w \in Workers, SkipWorker(h, w) PROVE TypeOK'
  <2> DEFINE j == [job[h] EXCEPT !.batch = @ \ {w}]
  <2>1. j \in Job
    BY <1>j DEF Job
  <2>2. Goto(h, AfterAuthorization(j), j) /\ UNCHANGED <<sessionVars, hostVars>>
    BY <1>4 DEF SkipWorker
  <2>3. AfterAuthorization(j) \in Steps
    BY <1>a, <2>1
  <2> QED
    BY <2>1, <2>2, <2>3, SessionUnchangedType, StepType
<1>5. ASSUME NEW w \in Workers, AuthorizeWorker(h, w) PROVE TypeOK'
  <2> DEFINE j == [job[h] EXCEPT !.batch = @ \ {w}, !.running = @ \cup {w},
                                  !.granted = IF Granted(w) THEN @ \cup {w} ELSE @ \ {w}]
  <2>1. j \in Job
    BY <1>j DEF Job
  <2>2. Goto(h, AfterAuthorization(j), j) /\ UNCHANGED <<sessionVars, hostVars>>
    BY <1>5 DEF AuthorizeWorker
  <2>3. AfterAuthorization(j) \in Steps
    BY <1>a, <2>1
  <2> QED
    BY <2>1, <2>2, <2>3, SessionUnchangedType, StepType
<1>6. ASSUME NEW w \in Workers, PlanningError(h, w) PROVE TypeOK'
  <2> DEFINE j == [job[h] EXCEPT !.batch = @ \ {w}]
  <2>1. j \in Job
    BY <1>j DEF Job
  <2>2. /\ Goto(h, AfterAuthorization(j), j) /\ UNCHANGED hostVars
        /\ SetWorkerOutput(w, "error")
    BY <1>6 DEF PlanningError
  <2>3. AfterAuthorization(j) \in Steps
    BY <1>a, <2>1
  <2>4. SessionTypeOK'
    BY <2>2, SetOutputType DEF OutputStatus
  <2> QED
    BY <2>1, <2>2, <2>3, <2>4, StepType
<1>7. ASSUME NEW w \in Workers, NeedToolGate(h, w) PROVE TypeOK'
  <2> DEFINE j == [job[h] EXCEPT !.batch = @ \ {w}, !.worker = w]
  <2>1. j \in Job
    BY <1>j DEF Job
  <2>2. PICK step \in Steps : Goto(h, step, j)
    BY <1>7, <1>0 DEF NeedToolGate
  <2> QED
    BY <1>7, <2>1, <2>2, SessionUnchangedType, StepType DEF NeedToolGate
<1>8. ASSUME NEW w \in Workers, NEW success \in BOOLEAN, FinishExecution(h, w, success)
      PROVE  TypeOK'
  <2> DEFINE rest == [job[h] EXCEPT !.running = @ \ {w}]
             J(completed) == IF completed THEN [rest EXCEPT !.done = @ \cup {<<w, success>>}]
                                          ELSE [rest EXCEPT !.raised = TRUE]
  <2>1. PICK completed \in BOOLEAN :
          /\ Goto(h, AfterThread(J(completed)), J(completed)) /\ UNCHANGED hostVars
          /\ AddExecutionResult(w, success)
    BY <1>8 DEF FinishExecution
  <2>2. J(completed) \in Job
    <3>1. job[h].done \cup {<<w, success>>} \in SUBSET (Workers \X BOOLEAN)
      BY <1>j DEF Job
    <3>2. rest \in Job
      <4>1. job[h].running \ {w} \in SUBSET Workers
        BY <1>j DEF Job
      <4>2. QED
        BY <1>j, <4>1, JobRunning
    <3>3. rest.done = job[h].done
      BY <1>j DEF Job
    <3>4. [rest EXCEPT !.done = job[h].done \cup {<<w, success>>}] \in Job
      BY <3>1, <3>2, JobDone
    <3>5. [rest EXCEPT !.raised = TRUE] \in Job
      BY <3>2, JobRaised
    <3>6. QED
      BY <3>4, <3>5
  <2>3. AfterThread(J(completed)) \in Steps
    BY <1>a, <2>2
  <2>4. SessionTypeOK'
    BY <2>1, AddResultType
  <2> HIDE DEF J
  <2> QED
    BY <2>1, <2>2, <2>3, <2>4, StepType
<1>9. ASSUME NEW w \in Workers, ExecutionRaises(h, w) PROVE TypeOK'
  <2> DEFINE j == [job[h] EXCEPT !.running = @ \ {w}, !.raised = TRUE]
  <2>1. j \in Job
    <3>1. job[h].running \ {w} \in SUBSET Workers
      BY <1>j DEF Job
    <3>2. QED
      BY <1>j, <3>1, JobRunning
  <2>2. Goto(h, AfterThread(j), j) /\ UNCHANGED sessionVars
    BY <1>9 DEF ExecutionRaises
  <2>3. AfterThread(j) \in Steps
    BY <1>a, <2>1
  <2>4. HostTypeOK'
    BY <1>9 DEF ExecutionRaises, HostTypeOK
  <2>5. HandlersTypeOK'
    BY <2>1, <2>2, <2>3, GotoType
  <2> QED
    BY <2>2, <2>4, <2>5, SessionUnchangedType DEF TypeOK, HandlersTypeOK, HostTypeOK
<1>10. CASE RequestToolGate(h)
  <2>1. job[h].worker \in GateSubject
    BY <1>j DEF Job, GateSubject
  <2>2. QED
    BY <1>10, <1>0, <1>j, <2>1, AddGateType, StepType DEF RequestToolGate, GateKind
<1>11. CASE MarkWaitingForGate(h)
  <2> DEFINE j == [job[h] EXCEPT !.pending = @ \cup {job[h].worker}, !.worker = None]
  <2>1. job[h].worker \in Workers
    BY <1>11 DEF LocalsOK, MarkWaitingForGate
  <2>2. j \in Job
    BY <1>j, <2>1 DEF Job
  <2>3. /\ Goto(h, AfterAuthorization(j), j) /\ UNCHANGED hostVars
        /\ SetWorkerOutput(job[h].worker, "waiting_human")
    BY <1>11 DEF MarkWaitingForGate
  <2>4. AfterAuthorization(j) \in Steps
    BY <1>a, <2>2
  <2>5. SessionTypeOK'
    BY <2>1, <2>3, SetOutputType DEF OutputStatus
  <2> QED
    BY <2>2, <2>3, <2>4, <2>5, StepType
<1>12. CASE WriteOutput(h)
  <2>1. PICK result \in job[h].done :
          /\ SetWorkerOutput(result[1], IF result[2] THEN "success" ELSE "error")
          /\ LET j == [job[h] EXCEPT !.done = @ \ {result}] IN
               Goto(h, IF j.done # {} THEN "writeOutputs" ELSE AfterBatch(j), j)
    BY <1>12 DEF WriteOutput
  <2> DEFINE j == [job[h] EXCEPT !.done = @ \ {result}]
  <2>2. j \in Job /\ result[1] \in Workers
    <3>1. job[h].done \in SUBSET (Workers \X BOOLEAN)
      BY <1>j DEF Job
    <3>2. result[1] \in Workers /\ job[h].done \ {result} \in SUBSET (Workers \X BOOLEAN)
      BY <3>1
    <3>3. QED
      BY <1>j, <3>2 DEF Job
  <2>3. SessionTypeOK'
    BY <2>1, <2>2, SetOutputType DEF OutputStatus
  <2>4. PICK step \in Steps : Goto(h, step, j)
    BY <1>0, <1>a, <2>1, <2>2
  <2> QED
    BY <1>12, <2>2, <2>3, <2>4, StepType DEF WriteOutput
<1>13. ASSUME NEW g \in Gates, ResumeAfterToolGate(h, g) PROVE TypeOK'
  <2>1. gates[g].subject \in Workers
    BY <1>13 DEF ResumeAfterToolGate, ToolSubjects
  <2>2. [NoJob EXCEPT !.gate = g, !.worker = gates[g].subject] \in Job
    BY <2>1 DEF Job
  <2> QED
    BY <1>13, <1>0, <2>2, SessionUnchangedType, StepType DEF ResumeAfterToolGate
<1>14. ASSUME NEW d \in HumanDecisions, ResolveToolGate(h, d) PROVE TypeOK'
  <2>1. job[h].gate \in Gates
    BY <1>14 DEF LocalsOK, ResolveToolGate
  <2>2. SessionTypeOK'
    BY <1>14, <2>1, ResolveGateType, SessionUnchangedType, DecisionsAssumption
    DEF ResolveToolGate
  <2>3. PICK step \in Steps, j \in Job : Goto(h, step, j)
    BY <1>14, <1>0, <1>j DEF ResolveToolGate
  <2> QED
    BY <1>14, <2>2, <2>3, StepType DEF ResolveToolGate
<1>15. CASE WriteToolDecision(h)
  <2>1. job[h].worker \in Workers
    BY <1>15 DEF LocalsOK, WriteToolDecision
  <2>2. SessionTypeOK'
    BY <1>15, <2>1, SetOutputType DEF WriteToolDecision, OutputStatus
  <2>3. PICK step \in Steps : Goto(h, step, job[h])
    BY <1>15, <1>0 DEF WriteToolDecision
  <2> QED
    BY <1>15, <1>j, <2>2, <2>3, StepType DEF WriteToolDecision
<1>99. QED
  BY <1>1, <1>2, <1>3, <1>4, <1>5, <1>6, <1>7, <1>8, <1>9, <1>10, <1>11, <1>12, <1>13,
     <1>14, <1>15 DEF OrchestratorStep
-------------------------------------------------------------------------------
(* What a step of a handler may do to the gates and to the other handlers. *)

\* Only the step of a handler and its locals change.
LEMMA StepShape ==
  ASSUME NEW h \in Handlers, Step(h)
  PROVE  \E step, j : pc' = [pc EXCEPT ![h] = step] /\ job' = [job EXCEPT ![h] = j]
<1>1. CASE CoordinatorStep(h)
  <2>1. CASE \/ StartRun(h) \/ BuildArchitecture(h) \/ StorePlan(h) \/ PlanFails(h)
             \/ RequestPlanGate(h) \/ ApplyArchitectureDecision(h) \/ ApplyFinalDecision(h)
             \/ Finalize(h)
    BY <2>1 DEF Goto, StartRun, BuildArchitecture, StorePlan, PlanFails, RequestPlanGate,
       ApplyArchitectureDecision, ApplyFinalDecision, Finalize
  <2>2. CASE \/ RequestRevision(h) \/ EnterRevision(h) \/ RecordRevision(h) \/ Evaluate(h)
             \/ RecordSupervisorResult(h) \/ RecomputeEvidence(h) \/ RecordQA(h)
             \/ RequestFinalGate(h) \/ MoveState(h)
    BY <2>2 DEF Goto, RequestRevision, EnterRevision, RecordRevision, Evaluate,
       RecordSupervisorResult, RecomputeEvidence, RecordQA, RequestFinalGate, MoveState
  <2>3. CASE \/ RecoverArchitecture(h) \/ RecoverSupervision(h)
             \/ ReconcileLocal(h) \/ ReconcileBackend(h) \/ ReconcileNothing(h)
    BY <2>3 DEF Goto, RecoverArchitecture, RecoverSupervision, ReconcileLocal,
       ReconcileBackend, ReconcileNothing
  <2>4. ASSUME NEW w \in Workers, RecoverExecution(h, w)
        PROVE  \E step, j : pc' = [pc EXCEPT ![h] = step] /\ job' = [job EXCEPT ![h] = j]
    BY <2>4 DEF Goto, RecoverExecution
  <2>5. ASSUME NEW g \in Gates, NEW decision \in HumanDecisions, ResolveGate(h, g, decision)
        PROVE  \E step, j : pc' = [pc EXCEPT ![h] = step] /\ job' = [job EXCEPT ![h] = j]
    BY <2>5 DEF ResolveGate
  <2>6. QED
    BY <1>1, <2>1, <2>2, <2>3, <2>4, <2>5 DEF CoordinatorStep
<1>2. CASE OrchestratorStep(h)
  <2>1. CASE \/ ExecuteRun(h) \/ PreparationRaises(h) \/ NextBatch(h) \/ RequestToolGate(h)
             \/ MarkWaitingForGate(h) \/ WriteOutput(h) \/ WriteToolDecision(h)
    BY <2>1 DEF Goto, ExecuteRun, PreparationRaises, NextBatch, RequestToolGate,
       MarkWaitingForGate, WriteOutput, WriteToolDecision
  <2>2. ASSUME NEW w \in Workers,
               SkipWorker(h, w) \/ AuthorizeWorker(h, w) \/ PlanningError(h, w) \/ NeedToolGate(h, w)
        PROVE  \E step, j : pc' = [pc EXCEPT ![h] = step] /\ job' = [job EXCEPT ![h] = j]
    BY <2>2 DEF Goto, SkipWorker, AuthorizeWorker, PlanningError, NeedToolGate
  <2>3. ASSUME NEW w \in Workers, ExecutionRaises(h, w)
        PROVE  \E step, j : pc' = [pc EXCEPT ![h] = step] /\ job' = [job EXCEPT ![h] = j]
    BY <2>3 DEF Goto, ExecutionRaises
  <2>4. ASSUME NEW w \in Workers, NEW success \in BOOLEAN, FinishExecution(h, w, success)
        PROVE  \E step, j : pc' = [pc EXCEPT ![h] = step] /\ job' = [job EXCEPT ![h] = j]
    BY <2>4 DEF Goto, FinishExecution
  <2>5. ASSUME NEW g \in Gates, ResumeAfterToolGate(h, g)
        PROVE  \E step, j : pc' = [pc EXCEPT ![h] = step] /\ job' = [job EXCEPT ![h] = j]
    BY <2>5 DEF Goto, ResumeAfterToolGate
  <2>6. ASSUME NEW d \in HumanDecisions, ResolveToolGate(h, d)
        PROVE  \E step, j : pc' = [pc EXCEPT ![h] = step] /\ job' = [job EXCEPT ![h] = j]
    BY <2>6 DEF Goto, ResolveToolGate
  <2>7. QED
    BY <1>2, <2>1, <2>2, <2>3, <2>4, <2>5, <2>6 DEF OrchestratorStep
<1>3. QED
  BY <1>1, <1>2 DEF Step

\* No handler moves another one.
LEMMA OthersStay ==
  ASSUME TypeOK, NEW h \in Handlers, Step(h), NEW k \in Handlers, k # h
  PROVE  pc'[k] = pc[k] /\ job'[k] = job[k]
BY StepShape DEF TypeOK

\* A step opens a gate, answers one, or leaves them alone.
LEMMA GateChanges ==
  ASSUME WellFormed, NEW h \in Handlers, Step(h)
  PROVE  \/ UNCHANGED gates
         \/ \E kind \in GateKind, subject \in GateSubject :
              AddApprovalGate(kind, subject) /\ (kind = "TOOL_RISK" => subject \in Workers)
         \/ \E g \in Gates, d \in HumanDecisionType : ResolveApprovalGate(g, d)
<1> USE DEF sessionVars, WellFormed
<1>j. job[h] \in Job
  BY DEF TypeOK
<1>1. CASE \/ StartRun(h) \/ BuildArchitecture(h) \/ StorePlan(h) \/ PlanFails(h)
           \/ ApplyArchitectureDecision(h) \/ ApplyFinalDecision(h) \/ Finalize(h)
           \/ RequestRevision(h) \/ EnterRevision(h) \/ RecordRevision(h)
           \/ Evaluate(h) \/ RecordSupervisorResult(h) \/ RecomputeEvidence(h)
           \/ RecordQA(h) \/ MoveState(h)
  BY <1>1 DEF StartRun, BuildArchitecture, StorePlan, PlanFails, ApplyArchitectureDecision,
     ApplyFinalDecision, Finalize, RequestRevision, EnterRevision, RecordRevision, Evaluate,
     RecordSupervisorResult, RecomputeEvidence, RecordQA, MoveState, SetState,
     SetArchitecturePlan, SetFinalResult,
     AddRevisionMessage, AddQAMessage
<1>2. CASE \/ RecoverArchitecture(h) \/ RecoverSupervision(h)
           \/ \E w \in Workers : RecoverExecution(h, w)
           \/ ReconcileLocal(h) \/ ReconcileBackend(h) \/ ReconcileNothing(h)
  BY <1>2 DEF RecoverArchitecture, RecoverSupervision, RecoverExecution, ReconcileLocal,
     ReconcileBackend, ReconcileNothing, SetState, AddExecutionResult
<1>3. CASE RequestPlanGate(h) \/ RequestFinalGate(h)
  BY <1>3, <1>j DEF RequestPlanGate, RequestFinalGate, GateKind, GateSubject, Job
<1>4. CASE \E g \in Gates, decision \in HumanDecisions : ResolveGate(h, g, decision)
  BY <1>4, DecisionsAssumption DEF ResolveGate
<1>5. CASE \/ ExecuteRun(h) \/ PreparationRaises(h) \/ NextBatch(h) \/ WriteOutput(h)
           \/ MarkWaitingForGate(h) \/ WriteToolDecision(h)
           \/ \E g \in Gates : ResumeAfterToolGate(h, g)
           \/ \E w \in Workers :
                \/ SkipWorker(h, w) \/ AuthorizeWorker(h, w) \/ PlanningError(h, w)
                \/ NeedToolGate(h, w) \/ ExecutionRaises(h, w)
                \/ \E success \in BOOLEAN : FinishExecution(h, w, success)
  BY <1>5 DEF ExecuteRun, PreparationRaises, NextBatch, WriteOutput, MarkWaitingForGate,
     WriteToolDecision, ResumeAfterToolGate, SkipWorker, AuthorizeWorker, PlanningError,
     NeedToolGate, ExecutionRaises, FinishExecution, SetWorkerOutput, AddExecutionResult
<1>6. CASE RequestToolGate(h)
  BY <1>6 DEF RequestToolGate, LocalsOK, GateKind, GateSubject
<1>7. CASE \E d \in HumanDecisions : ResolveToolGate(h, d)
  BY <1>7, DecisionsAssumption DEF ResolveToolGate, LocalsOK
<1>8. QED
  BY <1>1, <1>2, <1>3, <1>4, <1>5, <1>6, <1>7 DEF Step, CoordinatorStep, OrchestratorStep

\* So a decision, once given, stays, and the gate it was given on with it.
LEMMA DecisionsStay ==
  ASSUME WellFormed, NEW h \in Handlers, Step(h)
  PROVE  /\ \A g \in Gates : gates[g].decision # None => gates'[g] = gates[g]
         /\ DecisionsAreAnswers'
         /\ ToolSubjects'
<1>t. gates \in [Gates -> ApprovalGate] /\ DecisionsAreAnswers /\ ToolSubjects
  BY DEF WellFormed, TypeOK, SessionTypeOK
<1>1. CASE UNCHANGED gates
  BY <1>1, <1>t DEF DecisionsAreAnswers, ToolSubjects
<1>2. CASE \E kind \in GateKind, subject \in GateSubject :
             AddApprovalGate(kind, subject) /\ (kind = "TOOL_RISK" => subject \in Workers)
  <2>1. PICK kind \in GateKind, subject \in GateSubject, g \in Gates :
          /\ kind = "TOOL_RISK" => subject \in Workers
          /\ gates[g].status = "ABSENT"
          /\ gates' = [gates EXCEPT ![g] = [ kind |-> kind, status |-> "OPEN",
                                             decision |-> None, subject |-> subject ]]
    BY <1>2 DEF AddApprovalGate
  <2>2. gates[g].decision = None
    BY <1>t, <2>1 DEF DecisionsAreAnswers
  <2>3. QED
    BY <1>t, <2>1, <2>2 DEF DecisionsAreAnswers, ToolSubjects
<1>3. CASE \E g \in Gates, d \in HumanDecisionType : ResolveApprovalGate(g, d)
  <2>1. PICK g \in Gates, d \in HumanDecisionType : ResolveApprovalGate(g, d)
    BY <1>3
  <2>2. gates[g].decision = None
    BY <1>t, <2>1 DEF DecisionsAreAnswers, ResolveApprovalGate
  <2>3. gates[g] \in ApprovalGate
    BY <1>t
  <2>4. /\ gates'[g].status = "RESOLVED" /\ gates'[g].kind = gates[g].kind
        /\ gates'[g].subject = gates[g].subject
        /\ \A k \in Gates : k # g => gates'[k] = gates[k]
    BY <1>t, <2>1, <2>3 DEF ResolveApprovalGate, ApprovalGate
  <2>5. QED
    BY <1>t, <2>1, <2>2, <2>4 DEF DecisionsAreAnswers, ToolSubjects
<1>4. QED
  BY <1>1, <1>2, <1>3, GateChanges

\* What a human approved stays approved.
LEMMA ApprovalsStay ==
  ASSUME WellFormed, NEW h \in Handlers, Step(h)
  PROVE  /\ \A kind : ApprovedGate(kind) => ApprovedGate(kind)'
         /\ \A w \in Workers : ApprovedTool(w) => ApprovedTool(w)'
<1>1. \A g \in Gates : gates[g].decision = "APPROVE" => gates'[g] = gates[g]
  BY DecisionsStay, NoneIsFresh DEF HumanDecisionType
<1>2. QED
  BY <1>1 DEF ApprovedGate, ApprovedTool, ToolGates, Gates

\* The locals of a handler suit the step it has come to.
LEMMA LocalsStay ==
  ASSUME WellFormed, NEW h \in Handlers, Step(h)
  PROVE  LocalsOK'
<1> USE DEF WellFormed
<1>j. job[h] \in Job /\ job \in [Handlers -> Job] /\ pc \in [Handlers -> Steps]
  BY DEF TypeOK
<1>b. \A j : AfterBatch(j) \in {"pause", "dispatch", "supervise"}
  BY DEF AfterBatch
<1>a. \A j : AfterAuthorization(j) \in {"authorize", "running", "pause", "dispatch", "supervise"}
  BY <1>b DEF AfterAuthorization
<1>c. \A j : AfterThread(j) \in {"running", "idle", "writeOutputs"}
  BY DEF AfterThread
<1> DEFINE Suits == /\ pc'[h] \in {"requestToolGate", "markWaiting", "resolveToolGate", "toolOutput"}
                         => job'[h].worker \in Workers
                    /\ pc'[h] \in {"applyDecision", "resolveToolGate", "toolOutput"}
                         => job'[h].gate \in Gates
                    /\ pc'[h] \in {"record", "recompute", "recordQA", "finalize"} => job'[h].evidence # None
<1> SUFFICES Suits
  BY OthersStay, NoneIsFresh DEF LocalsOK, TypeOK
<1>1. CASE \/ StartRun(h) \/ BuildArchitecture(h) \/ StorePlan(h) \/ PlanFails(h)
           \/ RequestPlanGate(h) \/ RequestFinalGate(h)
           \/ ApplyArchitectureDecision(h) \/ Finalize(h)
           \/ RequestRevision(h) \/ EnterRevision(h) \/ RecordRevision(h)
  BY <1>1, <1>j DEF StartRun, BuildArchitecture, StorePlan, PlanFails, RequestPlanGate,
     RequestFinalGate, ApplyArchitectureDecision, Finalize,
     RequestRevision, EnterRevision, RecordRevision, Goto
<1>2. CASE \/ RecordSupervisorResult(h) \/ RecomputeEvidence(h) \/ RecordQA(h) 
  BY <1>2, <1>j DEF RecordSupervisorResult, RecomputeEvidence, RecordQA, Goto, LocalsOK
<1>3. CASE Evaluate(h)
  BY <1>3, <1>j, EvidenceType, NoneIsFresh DEF Evaluate, Goto, QAStatus, TypeOK, Job
<1>4. CASE ApplyFinalDecision(h)
  BY <1>4, <1>j DEF ApplyFinalDecision, Goto, Job
<1>5. CASE MoveState(h)
  BY <1>5, <1>j DEF MoveState, Transitions, Goto
<1>6. CASE \/ RecoverArchitecture(h) \/ RecoverSupervision(h)
           \/ \E w \in Workers : RecoverExecution(h, w)
           \/ ReconcileLocal(h) \/ ReconcileBackend(h) \/ ReconcileNothing(h)
  BY <1>6, <1>j DEF RecoverArchitecture, RecoverSupervision, RecoverExecution, ReconcileLocal,
     ReconcileBackend, ReconcileNothing, AfterReconciliation, Goto
<1>7. CASE \E g \in Gates, decision \in HumanDecisions : ResolveGate(h, g, decision)
  BY <1>7, <1>j DEF ResolveGate, NoJob
<1>8. CASE \/ ExecuteRun(h) \/ PreparationRaises(h) \/ NextBatch(h) \/ WriteOutput(h)
           \/ MarkWaitingForGate(h)
           \/ \E w \in Workers :
                \/ SkipWorker(h, w) \/ AuthorizeWorker(h, w) \/ PlanningError(h, w)
                \/ ExecutionRaises(h, w)
                \/ \E success \in BOOLEAN : FinishExecution(h, w, success)
  <2> DEFINE Quiet == {"idle", "dispatch", "authorize", "running", "pause", "supervise",
                       "writeOutputs"}
  <2>1. CASE ExecuteRun(h) \/ PreparationRaises(h) \/ NextBatch(h)
    BY <2>1, <1>j DEF ExecuteRun, PreparationRaises, NextBatch, Goto
  <2>2. CASE \/ WriteOutput(h) \/ MarkWaitingForGate(h)
             \/ \E w \in Workers : SkipWorker(h, w) \/ AuthorizeWorker(h, w) \/ PlanningError(h, w)
    <3>1. pc'[h] \in Quiet
      BY <2>2, <1>j, <1>a, <1>b DEF WriteOutput, MarkWaitingForGate, SkipWorker,
         AuthorizeWorker, PlanningError, Goto
    <3>2. QED
      BY <3>1
  <2>3. CASE \E w \in Workers : \/ ExecutionRaises(h, w)
                                \/ \E success \in BOOLEAN : FinishExecution(h, w, success)
    <3>1. ASSUME NEW w \in Workers, ExecutionRaises(h, w) PROVE pc'[h] \in Quiet
      BY <3>1, <1>j, <1>c DEF ExecutionRaises, Goto
    <3>2. ASSUME NEW w \in Workers, NEW success \in BOOLEAN, FinishExecution(h, w, success)
          PROVE  pc'[h] \in Quiet
      BY <3>2, <1>j, <1>c DEF FinishExecution, Goto
    <3>3. QED
      BY <2>3, <3>1, <3>2
  <2>4. QED
    BY <1>8, <2>1, <2>2, <2>3
<1>9. CASE \E w \in Workers : NeedToolGate(h, w)
  BY <1>9, <1>j DEF NeedToolGate, Goto, Job
<1>10. CASE RequestToolGate(h) \/ WriteToolDecision(h)
  BY <1>10, <1>j DEF RequestToolGate, WriteToolDecision, LocalsOK, Goto
<1>11. CASE \E g \in Gates : ResumeAfterToolGate(h, g)
  BY <1>11, <1>j DEF ResumeAfterToolGate, ToolSubjects, Goto, NoJob
<1>12. CASE \E d \in HumanDecisions : ResolveToolGate(h, d)
  BY <1>12, <1>j DEF ResolveToolGate, LocalsOK, Goto
<1>13. QED
  BY <1>1, <1>2, <1>3, <1>4, <1>5, <1>6, <1>7, <1>8, <1>9, <1>10, <1>11, <1>12
  DEF Step, CoordinatorStep, OrchestratorStep

-------------------------------------------------------------------------------
(* Gate A: work leads back to an approved architecture.                    *)

\* What takes an approved architecture.
WorkUnderWay ==
  \/ state \in PastGateA \cup {"REVISION"}
  \/ executions > 0
  \/ \E w \in Workers : outputs[w] # "none"
  \/ \E h \in Handlers : pc[h] \in WorkSteps

\* The invariant of Gate A in one implication.
LEMMA GateAIsWork == GateAInv <=> (WorkUnderWay => ApprovedGate("ARCHITECTURE"))
BY DEF GateAInv, WorkUnderWay, Reported

\* Work starts with an approved Gate A, or goes on from work.
LEMMA WorkStartsApproved ==
  ASSUME WellFormed, NEW h \in Handlers, Step(h), ~WorkUnderWay
  PROVE  WorkUnderWay' => ApprovedGate("ARCHITECTURE")
<1> USE DEF WellFormed
<1>j. job[h] \in Job /\ job \in [Handlers -> Job] /\ pc \in [Handlers -> Steps]
  BY DEF TypeOK
<1>n. pc[h] \notin WorkSteps /\ state \notin PastGateA \cup {"REVISION"}
  BY DEF WorkUnderWay
<1>1. CASE OrchestratorStep(h)
  BY <1>1, <1>n DEF OrchestratorStep, ExecuteRun, PreparationRaises, NextBatch, SkipWorker,
     AuthorizeWorker, PlanningError, NeedToolGate, RequestToolGate, MarkWaitingForGate,
     FinishExecution, ExecutionRaises, WriteOutput, ResumeAfterToolGate, ResolveToolGate,
     WriteToolDecision, WorkSteps, OrchestratorSteps, PastGateA
\* Nothing that counts as work is written, and the handler goes on elsewhere.
<1>2. ASSUME state' \notin PastGateA \cup {"REVISION"}, UNCHANGED <<executions, outputs>>,
             pc'[h] \notin WorkSteps
      PROVE  ~WorkUnderWay'
  BY <1>2, OthersStay DEF WorkUnderWay
<1>3. CASE \/ StartRun(h) \/ BuildArchitecture(h) \/ StorePlan(h) \/ PlanFails(h)
           \/ RequestPlanGate(h) \/ RecoverArchitecture(h) \/ RecoverSupervision(h)
           \/ \E w \in Workers : RecoverExecution(h, w)
           \/ \E g \in Gates, decision \in HumanDecisions : ResolveGate(h, g, decision)
  <2>1. UNCHANGED <<executions, outputs>>
    BY <1>3 DEF StartRun, BuildArchitecture, StorePlan, PlanFails, RequestPlanGate,
       RecoverArchitecture, RecoverSupervision, RecoverExecution, ResolveGate, sessionVars,
       evidenceVars, SetState, SetArchitecturePlan, AddApprovalGate, ResolveApprovalGate
  <2>2. state' \notin PastGateA \cup {"REVISION"}
    <3>1. CASE StartRun(h) \/ BuildArchitecture(h) \/ RequestPlanGate(h)
      BY <3>1, <1>n DEF StartRun, BuildArchitecture, RequestPlanGate, sessionVars, SetState,
         AddApprovalGate, PastGateA
    <3>2. CASE StorePlan(h) \/ PlanFails(h)
      BY <3>2, <1>n DEF StorePlan, PlanFails, sessionVars, SetArchitecturePlan
    <3>3. CASE RecoverArchitecture(h) \/ RecoverSupervision(h)
      BY <3>3, <1>n DEF RecoverArchitecture, RecoverSupervision, SetState, sessionVars, PastGateA
    <3>4. CASE \E w \in Workers : RecoverExecution(h, w)
      BY <3>4, <1>n DEF RecoverExecution, sessionVars
    <3>5. CASE \E g \in Gates, decision \in HumanDecisions : ResolveGate(h, g, decision)
      BY <3>5, <1>n DEF ResolveGate, ResolveApprovalGate
    <3>6. QED
      BY <1>3, <3>1, <3>2, <3>3, <3>4, <3>5
  <2>3. pc'[h] \notin WorkSteps
    <3>1. ~RecoverSupervision(h) /\ \A w \in Workers : ~RecoverExecution(h, w)
      BY <1>n DEF RecoverSupervision, RecoverExecution, PastGateA
    <3>2. CASE StartRun(h) \/ BuildArchitecture(h) \/ RecoverArchitecture(h)
      <4>1. pc'[h] \in {"build", "planning", "idle"}
        BY <3>2, <1>j DEF StartRun, BuildArchitecture, RecoverArchitecture, Goto
      <4>2. QED
        BY <4>1 DEF WorkSteps, OrchestratorSteps
    <3>3. CASE StorePlan(h) \/ PlanFails(h) \/ RequestPlanGate(h)
      <4>1. pc'[h] \in {"awaitPlanDecision", "idle"}
        BY <3>3, <1>j DEF StorePlan, PlanFails, RequestPlanGate, Goto
      <4>2. QED
        BY <4>1 DEF WorkSteps, OrchestratorSteps
    <3>4. CASE \E g \in Gates, decision \in HumanDecisions : ResolveGate(h, g, decision)
      <4>1. pc'[h] = "applyDecision"
        BY <3>4, <1>j DEF ResolveGate
      <4>2. QED
        BY <4>1 DEF WorkSteps, OrchestratorSteps
    <3>5. QED
      BY <1>3, <3>1, <3>2, <3>3, <3>4
  <2>4. QED
    BY <1>2, <2>1, <2>2, <2>3
<1>4. CASE ApplyArchitectureDecision(h)
  <2>1. CASE gates[job[h].gate].decision = "APPROVE"
    BY <1>4, <2>1 DEF ApplyArchitectureDecision, ApprovedGate, LocalsOK
  <2>2. CASE gates[job[h].gate].decision # "APPROVE"
    <3>1. pc'[h] \in {"idle", "reject", "revise"}
      BY <1>4, <2>2, <1>j DEF ApplyArchitectureDecision, Goto
    <3>2. QED
      BY <1>2, <1>4, <1>n, <3>1 DEF ApplyArchitectureDecision, sessionVars, evidenceVars,
         WorkSteps, OrchestratorSteps
  <2>3. QED
    BY <2>1, <2>2
<1>5. CASE \/ ApplyFinalDecision(h) \/ RequestRevision(h)
  <2>1. pc'[h] = "idle"
    BY <1>5, <1>n, <1>j DEF ApplyFinalDecision, RequestRevision, RevisableStates, PastGateA, Goto
  <2>2. QED
    BY <1>2, <1>5, <1>n, <2>1 DEF ApplyFinalDecision, RequestRevision, sessionVars,
       evidenceVars, WorkSteps, OrchestratorSteps
<1>6. CASE RecordRevision(h)
  <2>1. pc'[h] \in {"idle", "build"}
    BY <1>6, <1>n, <1>j DEF RecordRevision, PastGateA, Goto
  <2>2. QED
    BY <1>2, <1>6, <1>n, <2>1 DEF RecordRevision, AddRevisionMessage, evidenceVars,
       WorkSteps, OrchestratorSteps
<1>7. CASE MoveState(h)
  <2>1. pc[h] \in {"awaitPlanDecision", "reject", "fail"}
    BY <1>7, <1>n DEF MoveState, Transitions, WorkSteps
  <2>2. /\ pc'[h] \in {"idle", "requestPlanGate"}
        /\ state' \notin PastGateA \cup {"REVISION"}
        /\ UNCHANGED <<executions, outputs>>
    BY <1>7, <1>n, <1>j, <2>1 DEF MoveState, Transitions, Goto, SetState, sessionVars,
       evidenceVars, PastGateA
  <2>3. QED
    BY <1>2, <2>2 DEF WorkSteps, OrchestratorSteps
<1>8. CASE \/ Finalize(h) \/ EnterRevision(h) \/ Evaluate(h) \/ RecordSupervisorResult(h)
           \/ RecomputeEvidence(h)
           \/ RecordQA(h) \/ RequestFinalGate(h) \/ ReconcileLocal(h) \/ ReconcileBackend(h)
           \/ ReconcileNothing(h)
  BY <1>8, <1>n DEF Finalize, EnterRevision, Evaluate, RecordSupervisorResult,
     RecomputeEvidence, RecordQA,
     RequestFinalGate, ReconcileLocal, ReconcileBackend, ReconcileNothing, WorkSteps
<1>9. QED
  BY <1>1, <1>3, <1>4, <1>5, <1>6, <1>7, <1>8 DEF Step, CoordinatorStep

\* Every step keeps the invariant of Gate A.
LEMMA GateAStays ==
  ASSUME WellFormed, GateAInv, NEW h \in Handlers, Step(h)
  PROVE  GateAInv'
<1>1. GateAInv' <=> (WorkUnderWay' => ApprovedGate("ARCHITECTURE")')
  BY DEF GateAInv, WorkUnderWay, Reported
<1>2. QED
  BY <1>1, GateAIsWork, WorkStartsApproved, ApprovalsStay

-------------------------------------------------------------------------------
(* Gate D: completion leads back to an approved result and its evidence.   *)

\* A step writes the evidence and the final result as follows.
LEMMA ResultWrites ==
  ASSUME WellFormed, NEW h \in Handlers, Step(h)
  PROVE  /\ UNCHANGED qa \/ RecordQA(h)
         /\ UNCHANGED final \/ Finalize(h)
<1> USE DEF sessionVars
<1>1. CASE \/ StartRun(h) \/ BuildArchitecture(h) \/ StorePlan(h) \/ PlanFails(h)
           \/ RequestPlanGate(h) \/ RequestFinalGate(h)
           \/ ApplyArchitectureDecision(h) \/ ApplyFinalDecision(h) \/ Finalize(h)
           \/ RequestRevision(h) \/ EnterRevision(h) \/ RecordRevision(h)
           \/ \E g \in Gates, decision \in HumanDecisions : ResolveGate(h, g, decision)
           \/ Evaluate(h) \/ RecordSupervisorResult(h) \/ RecomputeEvidence(h)
           \/ RecordQA(h) \/ MoveState(h)
  BY <1>1 DEF StartRun, BuildArchitecture, StorePlan, PlanFails, RequestPlanGate,
     RequestFinalGate, ApplyArchitectureDecision, ApplyFinalDecision, Finalize, RequestRevision,
     EnterRevision, RecordRevision, ResolveGate, Evaluate, RecordSupervisorResult,
     RecomputeEvidence, RecordQA,
     MoveState, SetState, SetArchitecturePlan, AddApprovalGate, ResolveApprovalGate,
     SetFinalResult, AddRevisionMessage, AddQAMessage
<1>2. CASE \/ RecoverArchitecture(h) \/ RecoverSupervision(h)
           \/ \E w \in Workers : RecoverExecution(h, w)
           \/ ReconcileLocal(h) \/ ReconcileBackend(h) \/ ReconcileNothing(h)
  BY <1>2 DEF RecoverArchitecture, RecoverSupervision, RecoverExecution, ReconcileLocal,
     ReconcileBackend, ReconcileNothing, SetState, AddExecutionResult
<1>3. CASE OrchestratorStep(h)
  BY <1>3 DEF OrchestratorStep, ExecuteRun, PreparationRaises, NextBatch, SkipWorker,
     AuthorizeWorker, PlanningError, NeedToolGate, RequestToolGate, MarkWaitingForGate,
     FinishExecution, ExecutionRaises, WriteOutput, ResumeAfterToolGate, ResolveToolGate,
     WriteToolDecision, SetWorkerOutput, AddExecutionResult, AddApprovalGate,
     ResolveApprovalGate
<1>4. QED
  BY <1>1, <1>2, <1>3 DEF Step, CoordinatorStep

\* Recorded evidence and a final result are never taken back.
LEMMA ResultsStay ==
  ASSUME WellFormed, NEW h \in Handlers, Step(h)
  PROVE  (qa # None => qa' # None) /\ (final # None => final' # None)
<1>1. RecordQA(h) => qa' # None
  BY DEF WellFormed, LocalsOK, RecordQA, AddQAMessage
<1>2. Finalize(h) => final' # None
  BY DEF WellFormed, LocalsOK, Finalize, SetFinalResult
<1>3. QED
  BY <1>1, <1>2, ResultWrites

\* Only the pending transition to COMPLETED completes a run.
LEMMA CompletionStep ==
  ASSUME WellFormed, NEW h \in Handlers, Step(h), state' = "COMPLETED", state # "COMPLETED"
  PROVE  MoveState(h) /\ pc[h] = "complete"
<1> USE DEF sessionVars
<1>1. CASE MoveState(h)
  BY <1>1 DEF MoveState, SetState, Transitions
<1>2. CASE CoordinatorStep(h) /\ ~MoveState(h)
  BY <1>2 DEF CoordinatorStep, StartRun, BuildArchitecture, StorePlan, PlanFails,
       RequestPlanGate, RequestFinalGate, ApplyArchitectureDecision, ApplyFinalDecision, Finalize,
     RequestRevision, EnterRevision, RecordRevision, ResolveGate, Evaluate,
     RecordSupervisorResult, RecomputeEvidence, RecordQA, SetState, SetArchitecturePlan,
     AddApprovalGate,
     ResolveApprovalGate, SetFinalResult, AddRevisionMessage, AddQAMessage, RecoverArchitecture,
     RecoverSupervision, RecoverExecution, ReconcileLocal, ReconcileBackend, ReconcileNothing,
     AddExecutionResult
<1>3. CASE OrchestratorStep(h)
  BY <1>3 DEF OrchestratorStep, ExecuteRun, PreparationRaises, NextBatch, SkipWorker,
     AuthorizeWorker, PlanningError, NeedToolGate, RequestToolGate, MarkWaitingForGate,
     FinishExecution, ExecutionRaises, WriteOutput, ResumeAfterToolGate, ResolveToolGate,
     WriteToolDecision, SetWorkerOutput, AddExecutionResult, AddApprovalGate,
     ResolveApprovalGate
<1>4. QED
  BY <1>1, <1>2, <1>3 DEF Step

\* A handler comes to finalize the run by a Gate D decision, to complete it by
\* storing the final result, and to a decision by answering a gate.
LEMMA CompletionSteps ==
  ASSUME WellFormed, NEW h \in Handlers, Step(h)
  PROVE  /\ pc'[h] = "finalize" => ApplyFinalDecision(h)
         /\ pc'[h] = "complete" => Finalize(h)
         /\ pc'[h] = "applyDecision" => \E g \in Gates, d \in HumanDecisions : ResolveGate(h, g, d)
<1>j. job[h] \in Job /\ job \in [Handlers -> Job] /\ pc \in [Handlers -> Steps]
  BY DEF WellFormed, TypeOK
<1>b. \A j : AfterBatch(j) \in {"pause", "dispatch", "supervise"}
  BY DEF AfterBatch
<1>a. \A j : AfterAuthorization(j) \in {"authorize", "running", "pause", "dispatch", "supervise"}
  BY <1>b DEF AfterAuthorization
<1>c. \A j : AfterThread(j) \in {"running", "idle", "writeOutputs"}
  BY DEF AfterThread
<1> DEFINE Elsewhere == pc'[h] \notin {"finalize", "complete", "applyDecision"}
<1>1. CASE \/ StartRun(h) \/ BuildArchitecture(h) \/ StorePlan(h) \/ PlanFails(h)
           \/ RequestPlanGate(h) \/ RequestFinalGate(h) \/ ApplyArchitectureDecision(h)
           \/ RequestRevision(h) \/ EnterRevision(h) \/ RecordRevision(h)
  <2>1. Elsewhere
    BY <1>1, <1>j DEF StartRun, BuildArchitecture, StorePlan, PlanFails, RequestPlanGate,
       RequestFinalGate, ApplyArchitectureDecision, RequestRevision, EnterRevision,
       RecordRevision, Goto
  <2>2. QED
    BY <2>1
<1>2. CASE \/ ApplyFinalDecision(h) \/ Finalize(h)
  BY <1>2, <1>j DEF ApplyFinalDecision, Finalize, Goto
<1>8. CASE \E g \in Gates, decision \in HumanDecisions : ResolveGate(h, g, decision)
  BY <1>8, <1>j DEF ResolveGate
<1>7. CASE Evaluate(h) \/ MoveState(h)
  <2>1. Evaluate(h) => pc'[h] \in {"record", "revise", "fail"}
    BY <1>j DEF Evaluate, QAStatus, Goto
  <2>2. MoveState(h) => Elsewhere
    BY <1>j DEF MoveState, Transitions, Goto
  <2>3. QED
    BY <1>7, <2>1, <2>2
<1>3. CASE \/ RecordSupervisorResult(h) \/ RecomputeEvidence(h) \/ RecordQA(h)
           \/ RecoverArchitecture(h) \/ RecoverSupervision(h)
           \/ \E w \in Workers : RecoverExecution(h, w)
           \/ ReconcileLocal(h) \/ ReconcileBackend(h) \/ ReconcileNothing(h)
  <2>1. CASE RecordSupervisorResult(h) \/ RecomputeEvidence(h) \/ RecordQA(h)
    BY <2>1, <1>j DEF RecordSupervisorResult, RecomputeEvidence, RecordQA, Goto
  <2>2. CASE RecoverArchitecture(h) \/ RecoverSupervision(h)
    BY <2>2, <1>j DEF RecoverArchitecture, RecoverSupervision, Goto
  <2>3. ASSUME NEW w \in Workers, RecoverExecution(h, w) PROVE Elsewhere
    BY <2>3, <1>j DEF RecoverExecution, Goto
  <2>4. CASE ReconcileLocal(h) \/ ReconcileBackend(h) \/ ReconcileNothing(h)
    BY <2>4, <1>j DEF ReconcileLocal, ReconcileBackend, ReconcileNothing,
       AfterReconciliation, Goto
  <2>5. QED
    BY <1>3, <2>1, <2>2, <2>3, <2>4
<1>4. CASE \/ ExecuteRun(h) \/ PreparationRaises(h) \/ NextBatch(h) \/ WriteOutput(h)
           \/ MarkWaitingForGate(h) \/ RequestToolGate(h)
           \/ \E w \in Workers :
                SkipWorker(h, w) \/ AuthorizeWorker(h, w) \/ PlanningError(h, w) \/ NeedToolGate(h, w)
  <2>1. CASE ExecuteRun(h) \/ PreparationRaises(h) \/ RequestToolGate(h)
    BY <2>1, <1>j DEF ExecuteRun, PreparationRaises, RequestToolGate, Goto
  <2>6. CASE NextBatch(h) \/ MarkWaitingForGate(h)
    BY <2>6, <1>j, <1>a DEF NextBatch, MarkWaitingForGate, Goto
  <2>2. CASE WriteOutput(h)
    BY <2>2, <1>j, <1>b DEF WriteOutput, Goto
  <2>3. ASSUME NEW w \in Workers, SkipWorker(h, w) \/ NeedToolGate(h, w) PROVE Elsewhere
    BY <2>3, <1>j, <1>a DEF SkipWorker, NeedToolGate, Goto
  <2>4. ASSUME NEW w \in Workers, AuthorizeWorker(h, w) \/ PlanningError(h, w) PROVE Elsewhere
    BY <2>4, <1>j, <1>a DEF AuthorizeWorker, PlanningError, Goto
  <2>5. QED
    BY <1>4, <2>1, <2>2, <2>3, <2>4, <2>6
<1>5. CASE \/ \E w \in Workers : \/ ExecutionRaises(h, w)
                                 \/ \E success \in BOOLEAN : FinishExecution(h, w, success)
           \/ \E g \in Gates : ResumeAfterToolGate(h, g)
           \/ \E d \in HumanDecisions : ResolveToolGate(h, d)
           \/ WriteToolDecision(h)
  <2>1. ASSUME NEW w \in Workers, ExecutionRaises(h, w) PROVE Elsewhere
    BY <2>1, <1>j, <1>c DEF ExecutionRaises, Goto
  <2>2. ASSUME NEW w \in Workers, NEW success \in BOOLEAN, FinishExecution(h, w, success)
        PROVE  Elsewhere
    BY <2>2, <1>j, <1>c DEF FinishExecution, Goto
  <2>3. ASSUME NEW g \in Gates, ResumeAfterToolGate(h, g) PROVE Elsewhere
    BY <2>3, <1>j DEF ResumeAfterToolGate, Goto
  <2>4. ASSUME NEW d \in HumanDecisions, ResolveToolGate(h, d) PROVE Elsewhere
    BY <2>4, <1>j DEF ResolveToolGate, Goto
  <2>5. CASE WriteToolDecision(h)
    BY <2>5, <1>j DEF WriteToolDecision, Goto
  <2>6. QED
    BY <1>5, <2>1, <2>2, <2>3, <2>4, <2>5
<1>6. QED
  BY <1>1, <1>2, <1>3, <1>4, <1>5, <1>7, <1>8 DEF Step, CoordinatorStep, OrchestratorStep

\* Every step keeps the invariant of Gate D.
LEMMA GateDStays ==
  ASSUME WellFormed, GateDInv, NEW h \in Handlers, Step(h)
  PROVE  GateDInv'
<1>t. pc[h] \in Steps /\ job[h] \in Job /\ gates \in [Gates -> ApprovalGate]
  BY DEF WellFormed, TypeOK, SessionTypeOK
\* An approved Gate D and its evidence are still there.
<1>1. ApprovedGate("FINAL") /\ qa # None => (ApprovedGate("FINAL") /\ qa # None)'
  BY ApprovalsStay, ResultsStay
<1>2. state' = "COMPLETED" => ApprovedGate("FINAL") /\ qa # None /\ final # None
  BY CompletionStep DEF GateDInv
<1>3. final' # None => ApprovedGate("FINAL") /\ qa # None
  BY ResultWrites DEF GateDInv, Finalize
<1>4. pc'[h] = "finalize" => ApprovedGate("FINAL") /\ qa # None
  <2>1. SUFFICES ASSUME pc'[h] = "finalize" PROVE ApprovedGate("FINAL") /\ qa # None
    OBVIOUS
  <2>2. ApplyFinalDecision(h)
    BY <2>1, CompletionSteps
  <2>3. job[h].gate \in Gates /\ gates[job[h].gate].kind = "FINAL"
    BY <2>2 DEF ApplyFinalDecision, WellFormed, LocalsOK
  <2>4. gates[job[h].gate].decision = "APPROVE" /\ qa # None
    BY <2>1, <2>2 DEF ApplyFinalDecision, Goto, WellFormed, TypeOK
  <2>5. QED
    BY <2>3, <2>4 DEF ApprovedGate
<1>5. pc'[h] = "complete" => ApprovedGate("FINAL") /\ qa # None /\ final' # None
  <2>1. SUFFICES ASSUME pc'[h] = "complete"
                 PROVE  ApprovedGate("FINAL") /\ qa # None /\ final' # None
    OBVIOUS
  <2>2. Finalize(h)
    BY <2>1, CompletionSteps
  <2>3. QED
    BY <2>2 DEF GateDInv, Finalize, SetFinalResult, WellFormed, LocalsOK
<1>6. /\ state' = "COMPLETED" \/ final' # None => (ApprovedGate("FINAL") /\ qa # None)'
      /\ state' = "COMPLETED" => final' # None
  BY <1>1, <1>2, <1>3, ResultsStay
<1>7. ASSUME NEW k \in Handlers
      PROVE  /\ pc'[k] \in {"finalize", "complete"} => (ApprovedGate("FINAL") /\ qa # None)'
             /\ pc'[k] = "complete" => final' # None
  <2>1. CASE k = h
    BY <2>1, <1>1, <1>4, <1>5
  <2>2. CASE k # h
    BY <2>2, <1>1, OthersStay, ResultsStay DEF GateDInv, WellFormed
  <2>3. QED
    BY <2>1, <2>2
<1>8. QED
  BY <1>6, <1>7 DEF GateDInv

-------------------------------------------------------------------------------
(* Gate C: a result of a worker at risk leads back to an approved Gate C.  *)

\* Where workers with a success, an uncertain execution or a grant come from.
LEMMA GrantSources ==
  ASSUME WellFormed, NEW h \in Handlers, Step(h), NEW w \in Workers
  PROVE  /\ w \in passed' => w \in passed \cup orphans \cup job[h].granted
         /\ w \in orphans' => w \in orphans \cup job[h].granted
         /\ w \in job'[h].granted => w \in job[h].granted \/ Granted(w)
<1>j. job[h] \in Job /\ job \in [Handlers -> Job] /\ NoJob.granted = {}
  BY DEF WellFormed, TypeOK, NoJob
<1>g. ASSUME NEW step, NEW j, Goto(h, step, j), j.granted \subseteq job[h].granted
      PROVE  job'[h].granted \subseteq job[h].granted
  BY <1>g, <1>j DEF Goto
<1> USE DEF sessionVars, evidenceVars, hostVars
<1>1. CASE CoordinatorStep(h) /\ ~ReconcileBackend(h)
  <2>1. UNCHANGED <<passed, orphans>>
    BY <1>1 DEF CoordinatorStep, StartRun, BuildArchitecture, StorePlan, PlanFails,
       RequestPlanGate, RequestFinalGate, ApplyArchitectureDecision, ApplyFinalDecision,
       Finalize,
       RequestRevision, EnterRevision, RecordRevision, ResolveGate, Evaluate,
       RecordSupervisorResult, RecomputeEvidence, RecordQA, MoveState, SetState,
       SetArchitecturePlan,
       AddApprovalGate, ResolveApprovalGate, SetFinalResult, AddRevisionMessage, AddQAMessage,
       RecoverArchitecture, RecoverSupervision, RecoverExecution, ReconcileLocal,
       ReconcileNothing
  <2>2. job'[h].granted \subseteq job[h].granted
    <3>1. CASE \/ StorePlan(h) \/ ApplyArchitectureDecision(h) \/ ApplyFinalDecision(h)
               \/ Evaluate(h)
      <4>1. PICK step, j : Goto(h, step, j) /\ j.granted = job[h].granted
        <5>1. ASSUME StorePlan(h) PROVE \E step, j : Goto(h, step, j) /\ j.granted = job[h].granted
          <6>1. PICK p \in Plans : Goto(h, "awaitPlanDecision", [job[h] EXCEPT !.plan = p])
            BY <5>1 DEF StorePlan
          <6>2. [job[h] EXCEPT !.plan = p].granted = job[h].granted
            BY <1>j DEF Job
          <6>3. QED
            BY <6>1, <6>2
        <5>2. ASSUME ApplyArchitectureDecision(h)
              PROVE  \E step, j : Goto(h, step, j) /\ j.granted = job[h].granted
          <6>1. [job[h] EXCEPT !.rebuilds = TRUE].granted = job[h].granted
            BY <1>j DEF Job
          <6>2. QED
            BY <5>2, <6>1 DEF ApplyArchitectureDecision
        <5>3. ASSUME ApplyFinalDecision(h)
              PROVE  \E step, j : Goto(h, step, j) /\ j.granted = job[h].granted
          <6>1. [job[h] EXCEPT !.evidence = qa].granted = job[h].granted
            BY <1>j DEF Job
          <6>2. QED
            BY <5>3, <6>1 DEF ApplyFinalDecision
        <5>4. ASSUME Evaluate(h)
              PROVE  \E step, j : Goto(h, step, j) /\ j.granted = job[h].granted
          <6>1. [job[h] EXCEPT !.evidence = Evidence, !.reviser = "coordinator"].granted
                  = job[h].granted
            BY <1>j DEF Job
          <6>2. QED
            BY <5>4, <6>1 DEF Evaluate
        <5>5. QED
          BY <3>1, <5>1, <5>2, <5>3, <5>4
      <4>2. QED
        BY <4>1, <1>g
    <3>2. CASE \/ RecoverSupervision(h) \/ \E x \in Workers : RecoverExecution(h, x)
               \/ \E g \in Gates, d \in HumanDecisions : ResolveGate(h, g, d)
      <4>1. CASE RecoverSupervision(h)
        BY <4>1, <1>j DEF RecoverSupervision, Goto, NoJob
      <4>2. ASSUME NEW x \in Workers, RecoverExecution(h, x)
            PROVE  job'[h].granted \subseteq job[h].granted
        BY <4>2, <1>j DEF RecoverExecution, Goto, NoJob
      <4>3. ASSUME NEW g \in Gates, NEW d \in HumanDecisions, ResolveGate(h, g, d)
            PROVE  job'[h].granted \subseteq job[h].granted
        BY <4>3, <1>j DEF ResolveGate, NoJob
      <4>4. QED
        BY <3>2, <4>1, <4>2, <4>3
    <3>3. CASE \/ StartRun(h) \/ BuildArchitecture(h) \/ PlanFails(h) \/ RequestPlanGate(h)
               \/ RequestFinalGate(h) \/ Finalize(h) \/ RequestRevision(h) \/ EnterRevision(h)
               \/ RecordRevision(h) \/ RecordSupervisorResult(h) \/ RecomputeEvidence(h)
               \/ RecordQA(h) \/ MoveState(h)
               \/ RecoverArchitecture(h) \/ ReconcileLocal(h) \/ ReconcileNothing(h)
      <4>1. CASE \/ StartRun(h) \/ BuildArchitecture(h) \/ PlanFails(h) \/ RequestPlanGate(h)
                 \/ RequestFinalGate(h) \/ Finalize(h) \/ RequestRevision(h)
        BY <4>1, <1>g, <1>j DEF StartRun, BuildArchitecture, PlanFails, RequestPlanGate,
           RequestFinalGate, Finalize, RequestRevision
      <4>2. CASE \/ EnterRevision(h) \/ RecordRevision(h) \/ RecordSupervisorResult(h)
                 \/ RecomputeEvidence(h)
                 \/ RecordQA(h) \/ MoveState(h)
        BY <4>2, <1>g, <1>j DEF EnterRevision, RecordRevision, RecordSupervisorResult,
           RecomputeEvidence, RecordQA, MoveState
      <4>3. CASE RecoverArchitecture(h) \/ ReconcileLocal(h) \/ ReconcileNothing(h)
        BY <4>3, <1>g, <1>j DEF RecoverArchitecture, ReconcileLocal, ReconcileNothing
      <4>4. QED
        BY <3>3, <4>1, <4>2, <4>3
    <3>4. QED
      BY <1>1, <3>1, <3>2, <3>3 DEF CoordinatorStep
  <2>3. QED
    BY <2>1, <2>2
<1>2. CASE ReconcileBackend(h)
  BY <1>2, <1>j DEF ReconcileBackend, AddExecutionResult, Goto
<1>3. CASE \/ ExecuteRun(h) \/ PreparationRaises(h) \/ NextBatch(h) \/ WriteOutput(h)
           \/ MarkWaitingForGate(h) \/ RequestToolGate(h) \/ WriteToolDecision(h)
           \/ \E g \in Gates : ResumeAfterToolGate(h, g)
           \/ \E d \in HumanDecisions : ResolveToolGate(h, d)
           \/ \E x \in Workers : SkipWorker(h, x) \/ PlanningError(h, x) \/ NeedToolGate(h, x)
  <2>1. UNCHANGED <<passed, orphans>>
    BY <1>3 DEF ExecuteRun, PreparationRaises, NextBatch, WriteOutput, MarkWaitingForGate,
       RequestToolGate, WriteToolDecision, ResumeAfterToolGate, ResolveToolGate, SkipWorker,
       PlanningError, NeedToolGate, SetWorkerOutput, AddApprovalGate, ResolveApprovalGate
  <2>2. job'[h].granted \subseteq job[h].granted
    <3>1. CASE \/ ExecuteRun(h) \/ PreparationRaises(h) \/ RequestToolGate(h)
               \/ WriteToolDecision(h) \/ \E g \in Gates : ResumeAfterToolGate(h, g)
               \/ \E d \in HumanDecisions : ResolveToolGate(h, d)
      <4>1. CASE ExecuteRun(h) \/ PreparationRaises(h) \/ RequestToolGate(h)
        BY <4>1, <1>j DEF ExecuteRun, PreparationRaises, RequestToolGate, Goto, NoJob
      <4>2. CASE WriteToolDecision(h)
        BY <4>2, <1>j DEF WriteToolDecision, Goto, NoJob
      <4>3. ASSUME NEW g \in Gates, ResumeAfterToolGate(h, g)
            PROVE  job'[h].granted \subseteq job[h].granted
        BY <4>3, <1>j DEF ResumeAfterToolGate, Goto, NoJob
      <4>4. ASSUME NEW d \in HumanDecisions, ResolveToolGate(h, d)
            PROVE  job'[h].granted \subseteq job[h].granted
        BY <4>4, <1>j DEF ResolveToolGate, Goto, NoJob
      <4>5. QED
        BY <3>1, <4>1, <4>2, <4>3, <4>4
    <3>2. CASE NextBatch(h)
      <4>1. PICK batch \in (SUBSET job[h].todo) \ {{}} :
              Goto(h, "authorize", [job[h] EXCEPT !.batch = batch, !.todo = @ \ batch])
        BY <3>2 DEF NextBatch
      <4>2. [job[h] EXCEPT !.batch = batch, !.todo = @ \ batch].granted = job[h].granted
        BY <1>j DEF Job
      <4>3. QED
        BY <4>1, <4>2, <1>g
    <3>5. CASE WriteOutput(h)
      <4>1. PICK result \in job[h].done : \E step : Goto(h, step, [job[h] EXCEPT !.done = @ \ {result}])
        BY <3>5 DEF WriteOutput
      <4>2. [job[h] EXCEPT !.done = @ \ {result}].granted = job[h].granted
        BY <1>j DEF Job
      <4>3. QED
        BY <4>1, <4>2, <1>g
    <3>6. CASE MarkWaitingForGate(h)
      <4> DEFINE j == [job[h] EXCEPT !.pending = @ \cup {job[h].worker}, !.worker = None]
      <4>1. j.granted = job[h].granted
        BY <1>j DEF Job
      <4>2. Goto(h, AfterAuthorization(j), j)
        BY <3>6 DEF MarkWaitingForGate
      <4> QED
        BY <4>1, <4>2, <1>g
    <3>7. ASSUME NEW x \in Workers, SkipWorker(h, x) \/ PlanningError(h, x)
          PROVE  job'[h].granted \subseteq job[h].granted
      <4> DEFINE j == [job[h] EXCEPT !.batch = @ \ {x}]
      <4>1. j.granted = job[h].granted
        BY <1>j DEF Job
      <4>2. Goto(h, AfterAuthorization(j), j)
        BY <3>7 DEF SkipWorker, PlanningError
      <4> QED
        BY <4>1, <4>2, <1>g
    <3>8. ASSUME NEW x \in Workers, NeedToolGate(h, x)
          PROVE  job'[h].granted \subseteq job[h].granted
      <4> DEFINE j == [job[h] EXCEPT !.batch = @ \ {x}, !.worker = x]
      <4>1. j.granted = job[h].granted
        BY <1>j DEF Job
      <4>2. PICK step : Goto(h, step, j)
        BY <3>8 DEF NeedToolGate
      <4> QED
        BY <4>1, <4>2, <1>g
    <3>4. QED
      BY <1>3, <3>1, <3>2, <3>5, <3>6, <3>7, <3>8
  <2>3. QED
    BY <2>1, <2>2
<1>4. CASE \E x \in Workers : AuthorizeWorker(h, x)
  BY <1>4, <1>j DEF AuthorizeWorker, Goto, Job
<1>5. CASE \E x \in Workers, success \in BOOLEAN : FinishExecution(h, x, success)
  BY <1>5, <1>j DEF FinishExecution, AddExecutionResult, Goto, Job
<1>6. CASE \E x \in Workers : ExecutionRaises(h, x)
  BY <1>6, <1>j DEF ExecutionRaises, Goto, Job
<1>7. QED
  BY <1>1, <1>2, <1>3, <1>4, <1>5, <1>6 DEF Step, OrchestratorStep

\* Every step keeps the invariant of Gate C.
LEMMA GateCStays ==
  ASSUME WellFormed, GateCInv, NEW h \in Handlers, Step(h)
  PROVE  GateCInv'
<1>1. ASSUME NEW w \in Workers \cap Risky, Granted(w) PROVE ApprovedTool(w)
  BY <1>1 DEF Granted, Matches, ApprovedTool
<1>2. \A k \in Handlers : job[k].granted \subseteq Workers
  BY DEF WellFormed, TypeOK, Job
<1>3. \A w \in (passed' \cup orphans') \cap Risky : ApprovedTool(w)
  BY GrantSources, RiskyAssumption DEF GateCInv
<1>4. \A w \in job'[h].granted \cap Risky : ApprovedTool(w)
  BY <1>1, GrantSources, RiskyAssumption DEF GateCInv
<1>5. \A k \in Handlers : \A w \in job'[k].granted \cap Risky : ApprovedTool(w)
  BY <1>4, OthersStay DEF GateCInv, WellFormed
<1>6. QED
  BY <1>3, <1>5, ApprovalsStay, RiskyAssumption DEF GateCInv

-------------------------------------------------------------------------------
(* The inductive invariant, and what follows from it.                      *)

\* A new session satisfies the inductive invariant.
LEMMA InitInv == Init => IInv
<1>1. SUFFICES ASSUME Init PROVE IInv
  OBVIOUS
<1> USE DEF Init, CoordinatorInit, CreateSession
<1>2. TypeOK
  <2>1. SessionTypeOK
    BY <1>1 DEF SessionTypeOK, WorkflowState, ApprovalGate, NoGate, OutputStatus, GateSubject
  <2>2. HandlersTypeOK /\ HostTypeOK
    BY <1>1, NoJobType, MaxCrashesAssumption DEF HandlersTypeOK, HostTypeOK, Steps,
       CoordinatorSteps
  <2>3. QED
    BY <2>1, <2>2, TypeParts
<1>3. DecisionsAreAnswers /\ ToolSubjects /\ LocalsOK
  BY <1>1, NoneIsFresh DEF DecisionsAreAnswers, ToolSubjects, LocalsOK, NoGate, GateKind
<1>4. GateAInv
  BY <1>1 DEF GateAInv, PastGateA, WorkSteps, OrchestratorSteps, Reported
<1>5. GateDInv
  BY <1>1 DEF GateDInv
<1>6. GateCInv
  BY <1>1 DEF GateCInv, NoJob
<1>7. QED
  BY <1>2, <1>3, <1>4, <1>5, <1>6 DEF IInv, WellFormed

\* A crash loses the handlers and leaves the session to the next process.
LEMMA CrashInv ==
  ASSUME IInv, Crash
  PROVE  IInv'
<1>s. /\ UNCHANGED sessionVars
      /\ UNCHANGED <<state, plan, gates, outputs, executions, passed, failed, qa, revisions, final>>
  BY DEF Crash, sessionVars, evidenceVars
<1>p. pc' = [h \in Handlers |-> "idle"] /\ job' = [h \in Handlers |-> NoJob] /\ loop' = None
  BY DEF Crash
<1>o. orphans' \subseteq orphans \cup UNION {job[h].granted : h \in Handlers}
  BY DEF Crash
<1>1. TypeOK'
  <2>1. SessionTypeOK'
    BY <1>s, SessionUnchangedType DEF IInv, WellFormed, TypeOK
  <2>2. (pc \in [Handlers -> Steps])' /\ (job \in [Handlers -> Job])'
    BY <1>p, NoJobType DEF Steps, CoordinatorSteps
  <2>3. (orphans \subseteq Workers)'
    BY <1>o DEF IInv, WellFormed, TypeOK, Job
  <2>4. (crashes \in 0..MaxCrashes)'
    BY MaxCrashesAssumption DEF Crash, IInv, WellFormed, TypeOK
  <2>5. QED
    BY <1>p, <2>1, <2>2, <2>3, <2>4 DEF TypeOK
<1>2. (DecisionsAreAnswers /\ ToolSubjects /\ LocalsOK)'
  BY <1>s, <1>p DEF IInv, WellFormed, DecisionsAreAnswers, ToolSubjects, LocalsOK
<1>3. GateAInv'
  BY <1>s, <1>p DEF IInv, GateAInv, ApprovedGate, Reported, WorkSteps, OrchestratorSteps
<1>4. GateDInv'
  BY <1>s, <1>p DEF IInv, GateDInv, ApprovedGate
<1>5. GateCInv'
  BY <1>s, <1>p, <1>o, RiskyAssumption DEF IInv, GateCInv, ApprovedTool, ToolGates, NoJob
<1>6. QED
  BY <1>1, <1>2, <1>3, <1>4, <1>5 DEF IInv, WellFormed

\* Every step of a handler keeps it.
LEMMA StepInv ==
  ASSUME IInv, NEW h \in Handlers, Step(h)
  PROVE  IInv'
<1>1. TypeOK'
  BY CoordinatorStepType, OrchestratorStepType DEF IInv, WellFormed, Step
<1>2. QED
  BY <1>1, DecisionsStay, LocalsStay, GateAStays, GateDStays, GateCStays DEF IInv, WellFormed

\* So does a step that changes nothing.
LEMMA StutterInv ==
  ASSUME IInv, UNCHANGED vars
  PROVE  IInv'
BY DEF vars, sessionVars, evidenceVars, handlerVars, hostVars, IInv, WellFormed, TypeOK,
   SessionTypeOK, DecisionsAreAnswers, ToolSubjects, LocalsOK, GateAInv, GateDInv, GateCInv,
   ApprovedGate, ApprovedTool, ToolGates, Reported

\* The inductive invariant holds throughout every behaviour of the runtime
\* (runtime/service.py, orchestration/service.py, approval/service.py).
THEOREM Invariance == Spec => []IInv
<1>1. IInv /\ [Next]_vars => IInv'
  BY StepInv, CrashInv, StutterInv DEF Next
<1>2. QED
  BY <1>1, InitInv, PTL DEF Spec

\* Every variable keeps its type: no step writes a record SessionRecord would
\* not hold (session/models.py:44-69).
THEOREM TypeCorrect == Spec => []TypeOK
<1>1. IInv => TypeOK
  BY DEF IInv, WellFormed
<1>2. QED
  BY <1>1, Invariance, PTL

\* No work without an approved architecture (runtime/service.py:136-164).
THEOREM GateASafety == Spec => []WorkNeedsGateA
<1>1. IInv => WorkNeedsGateA
  BY DEF IInv, GateAInv, WorkNeedsGateA
<1>2. QED
  BY <1>1, Invariance, PTL

\* No completion without an approved Gate D, its evidence and its result
\* (runtime/service.py:225-272).
THEOREM GateDSafety == Spec => []CompletedIsApproved
<1>1. IInv => CompletedIsApproved
  BY DEF IInv, GateDInv, CompletedIsApproved
<1>2. QED
  BY <1>1, Invariance, PTL

\* No successful result of a worker at risk without an approved Gate C of it
\* (tools/authorization.py:82-162, orchestration/service.py:385-426).
THEOREM GateCSafety == Spec => []RiskyNeedsGateC
<1>1. IInv => RiskyNeedsGateC
  BY DEF IInv, GateCInv, ApprovedTool, RiskyNeedsGateC
<1>2. QED
  BY <1>1, Invariance, PTL

-------------------------------------------------------------------------------
(* A completed run: nobody is about to store another result, since the     *)
(* decisions of Gate D are applied one after the other on the event loop.  *)

LoopSteps == {"applyDecision", "finalize", "complete"}

LoopInv == \A h \in Handlers : pc[h] \in LoopSteps => loop = h

DoneInv == state = "COMPLETED" => \A h \in Handlers : pc[h] # "finalize"

EndInv == IInv /\ LoopInv /\ DoneInv

\* The event loop is taken when it is free, and given back by its holder.
LEMMA LoopChanges ==
  ASSUME NEW h \in Handlers, Step(h)
  PROVE  \/ /\ \E g \in Gates, d \in HumanDecisions : ResolveGate(h, g, d)
            /\ loop = None /\ loop' = h
         \/ loop' = IF loop = h /\ pc'[h] \in {"idle", "execute", "build"} THEN None ELSE loop
         \/ h \notin DOMAIN pc
<1>1. CASE \E g \in Gates, d \in HumanDecisions : ResolveGate(h, g, d)
  BY <1>1 DEF ResolveGate, Callback
<1>2. (\E step, j : Goto(h, step, j)) =>
        \/ loop' = IF loop = h /\ pc'[h] \in {"idle", "execute", "build"} THEN None ELSE loop
        \/ h \notin DOMAIN pc
  BY DEF Goto
<1>3. CASE CoordinatorStep(h) /\ ~ \E g \in Gates, d \in HumanDecisions : ResolveGate(h, g, d)
  <2>1. \E step, j : Goto(h, step, j)
    BY <1>3 DEF CoordinatorStep, StartRun, BuildArchitecture, StorePlan, PlanFails,
       RequestPlanGate, ApplyArchitectureDecision, ApplyFinalDecision, Finalize,
       RequestRevision, EnterRevision, RecordRevision, Evaluate, RecordSupervisorResult,
       RecomputeEvidence, RecordQA, RequestFinalGate, MoveState, RecoverArchitecture,
       RecoverSupervision, RecoverExecution, ReconcileLocal, ReconcileBackend, ReconcileNothing
  <2>2. QED
    BY <1>2, <2>1
<1>4. CASE OrchestratorStep(h)
  <2>1. \E step, j : Goto(h, step, j)
    BY <1>4 DEF OrchestratorStep, ExecuteRun, PreparationRaises, NextBatch, SkipWorker,
       AuthorizeWorker, PlanningError, NeedToolGate, RequestToolGate, MarkWaitingForGate,
       FinishExecution, ExecutionRaises, WriteOutput, ResumeAfterToolGate, ResolveToolGate,
       WriteToolDecision
  <2>2. QED
    BY <1>2, <2>1
<1>5. QED
  BY <1>1, <1>3, <1>4 DEF Step

\* A handler that applies a decision holds the event loop.
LEMMA LoopStays ==
  ASSUME WellFormed, LoopInv, NEW h \in Handlers, Step(h)
  PROVE  LoopInv'
<1> SUFFICES ASSUME NEW k \in Handlers, pc'[k] \in LoopSteps PROVE loop' = k
  BY DEF LoopInv
<1>t. DOMAIN pc = Handlers
  BY DEF WellFormed, TypeOK
<1>1. CASE k # h
  BY <1>1, <1>t, OthersStay, LoopChanges, HandlersAssumption DEF LoopInv, WellFormed
<1>2. CASE k = h
  <2>1. CASE pc'[h] = "applyDecision"
    <3>1. PICK g \in Gates, d \in HumanDecisions : ResolveGate(h, g, d)
      BY <2>1, CompletionSteps
    <3>2. QED
      BY <1>2, <3>1 DEF ResolveGate
  <2>2. CASE pc'[h] \in {"finalize", "complete"}
    <3>1. pc[h] \in {"applyDecision", "finalize"}
      BY <2>2, CompletionSteps DEF ApplyFinalDecision, Finalize
    <3>2. loop = h
      BY <3>1 DEF LoopInv, LoopSteps
    <3>3. QED
      BY <1>2, <1>t, <2>2, <3>2, LoopChanges
  <2>3. QED
    BY <1>2, <2>1, <2>2 DEF LoopSteps
<1>3. QED
  BY <1>1, <1>2

\* A terminal state has no way out: each change of state asks for another
\* state first.
LEMMA EndedStateStays ==
  ASSUME NEW h \in Handlers, Step(h), state \in TerminalStates
  PROVE  state' = state
<1> USE DEF sessionVars
<1>1. CASE MoveState(h)
  <2>1. \A target : ~TransitionAllowed(state, target)
    BY DEF TransitionAllowed, Allowed, TerminalStates
  <2>2. QED
    BY <1>1, <2>1 DEF MoveState
<1>2. CASE CoordinatorStep(h) /\ ~MoveState(h)
  BY <1>2 DEF CoordinatorStep, StartRun, BuildArchitecture, StorePlan, PlanFails,
     RequestPlanGate, RequestFinalGate, ApplyArchitectureDecision, ApplyFinalDecision, Finalize,
     RequestRevision, EnterRevision, RecordRevision, ResolveGate, Evaluate, RevisableStates,
     TerminalStates, RecordSupervisorResult, RecomputeEvidence, RecordQA, SetState,
     SetArchitecturePlan, AddApprovalGate, ResolveApprovalGate, SetFinalResult,
     AddRevisionMessage, AddQAMessage, RecoverArchitecture, RecoverSupervision,
     RecoverExecution, ReconcileLocal, ReconcileBackend, ReconcileNothing, AddExecutionResult
<1>3. CASE OrchestratorStep(h)
  BY <1>3 DEF OrchestratorStep, ExecuteRun, PreparationRaises, NextBatch, SkipWorker,
     AuthorizeWorker, PlanningError, NeedToolGate, RequestToolGate, MarkWaitingForGate,
     FinishExecution, ExecutionRaises, WriteOutput, ResumeAfterToolGate, ResolveToolGate,
     WriteToolDecision, SetWorkerOutput, AddExecutionResult, AddApprovalGate,
     ResolveApprovalGate
<1>4. QED
  BY <1>1, <1>2, <1>3 DEF Step

\* Nobody comes to finalize a completed run, and whoever completes it was the
\* only one about to.
LEMMA DoneStays ==
  ASSUME WellFormed, LoopInv, DoneInv, NEW h \in Handlers, Step(h)
  PROVE  DoneInv'
<1> SUFFICES ASSUME state' = "COMPLETED", NEW k \in Handlers, pc'[k] = "finalize"
             PROVE  FALSE
  BY DEF DoneInv
<1>t. pc \in [Handlers -> Steps]
  BY DEF WellFormed, TypeOK
<1>1. CASE k = h
  <2>1. ApplyFinalDecision(h)
    BY <1>1, CompletionSteps
  <2>2. state = "WAITING_FINAL_APPROVAL" /\ state' = state
    BY <1>1, <1>t, <2>1 DEF ApplyFinalDecision, Goto, sessionVars
  <2>3. QED
    BY <2>2
<1>2. CASE k # h
  <2>1. pc[k] = "finalize"
    BY <1>2, OthersStay DEF WellFormed
  <2>2. state # "COMPLETED" /\ loop = k
    BY <2>1 DEF DoneInv, LoopInv, LoopSteps
  <2>3. pc[h] = "complete"
    BY <2>2, CompletionStep
  <2>4. QED
    BY <1>2, <2>2, <2>3 DEF LoopInv, LoopSteps
<1>3. QED
  BY <1>1, <1>2

\* EndInv holds throughout.
LEMMA EndInvariance == Spec => []EndInv
<1>1. Init => EndInv
  BY InitInv DEF EndInv, LoopInv, DoneInv, LoopSteps, Init, CoordinatorInit
<1>2. EndInv /\ [Next]_vars => EndInv'
  <2> SUFFICES ASSUME EndInv, [Next]_vars PROVE EndInv'
    OBVIOUS
  <2>1. ASSUME NEW h \in Handlers, Step(h) PROVE EndInv'
    BY <2>1, StepInv, LoopStays, DoneStays DEF EndInv, IInv
  <2>2. CASE Crash
    BY <2>2, CrashInv DEF EndInv, LoopInv, DoneInv, LoopSteps, Crash
  <2>3. CASE UNCHANGED vars
    BY <2>3, StutterInv DEF EndInv, LoopInv, DoneInv, vars, handlerVars, sessionVars
  <2>4. QED
    BY <2>1, <2>2, <2>3 DEF Next
<1>3. QED
  BY <1>1, <1>2, PTL DEF Spec

\* A completed run stays completed, and its final result is not replaced by a
\* second approval or a handler under way (runtime/service.py:225-272).
THEOREM CompletionIsFinal == Spec => CompletedIsFinal
<1>1. EndInv /\ [Next]_vars => [state = "COMPLETED" => UNCHANGED <<state, final>>]_vars
  <2> SUFFICES ASSUME EndInv, Next, state = "COMPLETED" PROVE UNCHANGED <<state, final>>
    OBVIOUS
  <2>1. ASSUME NEW h \in Handlers, Step(h) PROVE UNCHANGED <<state, final>>
    <3>1. state' = state
      BY <2>1, EndedStateStays DEF TerminalStates
    <3>2. final' = final
      BY <2>1, ResultWrites DEF EndInv, IInv, DoneInv, Finalize
    <3>3. QED
      BY <3>1, <3>2
  <2>2. CASE Crash
    BY <2>2 DEF Crash, sessionVars
  <2>3. QED
    BY <2>1, <2>2 DEF Next
<1>2. QED
  BY <1>1, EndInvariance, PTL DEF CompletedIsFinal, Spec
-------------------------------------------------------------------------------
(* The limit on revisions.  Two revision services count the same messages, *)
(* each under a lock of its own: however many tabs revise the run and      *)
(* wherever the process dies, the limit is overrun by one at most.         *)

Revising(h) == pc[h] \in RevisionSection

\* One handler per service is between the count and the message, and each of
\* them counted fewer messages than the limit: with both of them there, one
\* may write the last message allowed and the other one more.
RevisionInv ==
  /\ revisions <= MaxRevisions + 1
  /\ \A h \in Handlers : Revising(h) => revisions <= MaxRevisions
  /\ \A h, k \in Handlers :
       h # k /\ Revising(h) /\ Revising(k) =>
         job[h].reviser # job[k].reviser /\ revisions < MaxRevisions

-------------------------------------------------------------------------------
\* What a step does to its handler's place in a revision and to the count.
RevisionChange(h) ==
  \/ RequestRevision(h)
  \/ Revising(h) /\ job'[h] = job[h] /\ revisions' = revisions
  \/ RecordRevision(h)
  \/ pc'[h] \notin RevisionSection /\ revisions' = revisions

\* No transition of the state machine but the ones of a revision leads to one.
LEMMA MoveOutside ==
  ASSUME NEW step \in DOMAIN Transitions \ {"enterRevision", "rearchitect"}
  PROVE  Transitions[step].next \notin RevisionSection
BY DEF Transitions, RevisionSection

\* The way into the section is request_revision, the way out the message.
LEMMA RevisionSteps ==
  ASSUME TypeOK, NEW h \in Handlers, Step(h)
  PROVE  RevisionChange(h)
<1>t. pc \in [Handlers -> Steps] /\ job \in [Handlers -> Job]
  BY DEF TypeOK
<1>g. ASSUME NEW step, NEW j, Goto(h, step, j)
      PROVE  pc'[h] = step /\ (step # "idle" => job'[h] = j)
  BY <1>g, <1>t DEF Goto
<1>1. CASE EnterRevision(h)
  <2>1. Revising(h) /\ revisions' = revisions
    BY <1>1 DEF EnterRevision, Revising, RevisionSection, sessionVars
  <2>2. \E step \in {"enterRevision", "rearchitect", "recordRevision"} : Goto(h, step, job[h])
    BY <1>1 DEF EnterRevision
  <2>3. job'[h] = job[h]
    BY <2>2, <1>g
  <2>4. QED
    BY <2>1, <2>3 DEF RevisionChange
<1>2. CASE MoveState(h)
  <2>1. revisions' = revisions
    BY <1>2 DEF MoveState, SetState, sessionVars
  <2>2. pc[h] \in DOMAIN Transitions
    BY <1>2 DEF MoveState
  <2>3. Goto(h, Transitions[pc[h]].next, job[h]) \/ Goto(h, "idle", NoJob)
    BY <1>2 DEF MoveState
  <2>4. CASE Goto(h, "idle", NoJob)
    BY <2>1, <2>4, <1>g DEF RevisionChange, RevisionSection
  <2>5. CASE pc[h] \notin {"enterRevision", "rearchitect"} /\ Goto(h, Transitions[pc[h]].next, job[h])
    <3>1. pc'[h] = Transitions[pc[h]].next
      BY <2>5, <1>g
    <3>2. QED
      BY <2>1, <2>2, <2>5, <3>1, MoveOutside DEF RevisionChange
  <2>6. CASE /\ pc[h] \in {"enterRevision", "rearchitect"}
             /\ Goto(h, Transitions[pc[h]].next, job[h])
    <3>1. Transitions[pc[h]].next # "idle"
      BY <2>6 DEF Transitions
    <3>2. job'[h] = job[h]
      BY <2>6, <3>1, <1>g
    <3>3. QED
      BY <2>1, <2>6, <3>2 DEF RevisionChange, Revising, RevisionSection
  <2>7. QED
    BY <2>3, <2>4, <2>5, <2>6
<1>3. CASE \/ StartRun(h) \/ BuildArchitecture(h) \/ StorePlan(h) \/ PlanFails(h)
           \/ RequestPlanGate(h) \/ ApplyArchitectureDecision(h) \/ ApplyFinalDecision(h)
           \/ Finalize(h)
  <2>1. revisions' = revisions
    BY <1>3 DEF StartRun, BuildArchitecture, StorePlan, PlanFails, RequestPlanGate,
       ApplyArchitectureDecision, ApplyFinalDecision, Finalize, SetState, SetArchitecturePlan,
       AddApprovalGate, SetFinalResult, sessionVars
  <2>2. \E j : \E step \in {"idle", "build", "planning", "awaitPlanDecision", "beginExecution",
                             "reject", "revise", "finalize", "complete"} : Goto(h, step, j)
    BY <1>3 DEF StartRun, BuildArchitecture, StorePlan, PlanFails, RequestPlanGate,
       ApplyArchitectureDecision, ApplyFinalDecision, Finalize
  <2>3. QED
    BY <2>1, <2>2, <1>g DEF RevisionChange, RevisionSection
<1>4. CASE \/ Evaluate(h) \/ RecordSupervisorResult(h) \/ RecomputeEvidence(h)
           \/ RecordQA(h) \/ RequestFinalGate(h)
           \/ RecoverArchitecture(h) \/ RecoverSupervision(h)
           \/ ReconcileLocal(h) \/ ReconcileBackend(h) \/ ReconcileNothing(h)
  <2>1. revisions' = revisions
    BY <1>4 DEF Evaluate, RecordSupervisorResult, RecomputeEvidence, RecordQA, RequestFinalGate,
       RecoverArchitecture, RecoverSupervision, ReconcileLocal, ReconcileBackend,
       ReconcileNothing, SetState, AddQAMessage, AddApprovalGate, AddExecutionResult, sessionVars
  <2>2. \E j : \E step \in {"idle", "build", "record", "recompute", "recordQA", "revise",
                             "fail", "awaitFinal", "evaluate", "supervise",
                             "superviseFailure"} : Goto(h, step, j)
    <3>1. CASE Evaluate(h)
      BY <3>1 DEF Evaluate, QAStatus
    <3>2. CASE ReconcileLocal(h) \/ ReconcileBackend(h)
      BY <3>2 DEF ReconcileLocal, ReconcileBackend, AfterReconciliation
    <3>3. QED
      BY <1>4, <3>1, <3>2 DEF RecordSupervisorResult, RecomputeEvidence, RecordQA,
         RequestFinalGate, RecoverArchitecture, RecoverSupervision, ReconcileNothing
  <2>3. QED
    BY <2>1, <2>2, <1>g DEF RevisionChange, RevisionSection
<1>5. ASSUME NEW w \in Workers, RecoverExecution(h, w) PROVE RevisionChange(h)
  <2>1. \E j : Goto(h, "reconcile", j)
    BY <1>5 DEF RecoverExecution
  <2>2. revisions' = revisions
    BY <1>5 DEF RecoverExecution, sessionVars
  <2>3. QED
    BY <2>1, <2>2, <1>g DEF RevisionChange, RevisionSection
<1>6. ASSUME NEW g \in Gates, NEW d \in HumanDecisions, ResolveGate(h, g, d)
      PROVE  RevisionChange(h)
  BY <1>6, <1>t DEF ResolveGate, ResolveApprovalGate, RevisionChange, RevisionSection
<1>7. CASE OrchestratorStep(h)
  <2>b. \A j : AfterBatch(j) \notin RevisionSection
    BY DEF AfterBatch, RevisionSection
  <2>a. \A j : AfterAuthorization(j) \notin RevisionSection /\ AfterThread(j) \notin RevisionSection
    BY <2>b DEF AfterAuthorization, AfterThread, RevisionSection
  <2>1. revisions' = revisions
    BY <1>7 DEF OrchestratorStep, ExecuteRun, PreparationRaises, NextBatch, SkipWorker,
       AuthorizeWorker, PlanningError, NeedToolGate, RequestToolGate, MarkWaitingForGate,
       FinishExecution, ExecutionRaises, WriteOutput, ResumeAfterToolGate, ResolveToolGate,
       WriteToolDecision, SetWorkerOutput, AddExecutionResult, AddApprovalGate,
       ResolveApprovalGate, sessionVars
  <2>2. \E step, j : Goto(h, step, j) /\ step \notin RevisionSection
    <3>1. CASE ExecuteRun(h) \/ PreparationRaises(h)
      BY <3>1 DEF ExecuteRun, PreparationRaises, RevisionSection
    <3>2. CASE NextBatch(h)
      <4>1. PICK batch \in (SUBSET job[h].todo) \ {{}} :
              Goto(h, "authorize", [job[h] EXCEPT !.batch = batch, !.todo = @ \ batch])
        BY <3>2 DEF NextBatch
      <4>2. QED
        BY <4>1 DEF RevisionSection
    <3>3. CASE RequestToolGate(h) \/ WriteToolDecision(h)
      BY <3>3 DEF RequestToolGate, WriteToolDecision, RevisionSection
    <3>4. CASE MarkWaitingForGate(h)
      BY <3>4, <2>a DEF MarkWaitingForGate
    <3>5. CASE WriteOutput(h)
      BY <3>5, <2>b DEF WriteOutput, RevisionSection
    <3>6. ASSUME NEW w \in Workers,
                 \/ SkipWorker(h, w) \/ AuthorizeWorker(h, w) \/ PlanningError(h, w)
                 \/ NeedToolGate(h, w) \/ ExecutionRaises(h, w)
          PROVE  \E step, j : Goto(h, step, j) /\ step \notin RevisionSection
      BY <3>6, <2>a DEF SkipWorker, AuthorizeWorker, PlanningError, NeedToolGate,
         ExecutionRaises, RevisionSection
    <3>7. ASSUME NEW w \in Workers, NEW success \in BOOLEAN, FinishExecution(h, w, success)
          PROVE  \E step, j : Goto(h, step, j) /\ step \notin RevisionSection
      BY <3>7, <2>a DEF FinishExecution
    <3>8. ASSUME NEW g \in Gates, ResumeAfterToolGate(h, g)
          PROVE  \E step, j : Goto(h, step, j) /\ step \notin RevisionSection
      BY <3>8 DEF ResumeAfterToolGate, RevisionSection
    <3>9. ASSUME NEW d \in HumanDecisions, ResolveToolGate(h, d)
          PROVE  \E step, j : Goto(h, step, j) /\ step \notin RevisionSection
      BY <3>9 DEF ResolveToolGate, RevisionSection
    <3>10. QED
      BY <1>7, <3>1, <3>2, <3>3, <3>4, <3>5, <3>6, <3>7, <3>8, <3>9 DEF OrchestratorStep
  <2>3. QED
    BY <2>1, <2>2, <1>g DEF RevisionChange
<1>8. QED
  BY <1>1, <1>2, <1>3, <1>4, <1>5, <1>6, <1>7 DEF Step, CoordinatorStep, RevisionChange

-------------------------------------------------------------------------------
\* The invariant follows the count through the four kinds of step.
LEMMA RevisionStays ==
  ASSUME TypeOK, RevisionInv, NEW h \in Handlers, Step(h)
  PROVE  RevisionInv'
<1>t. /\ revisions \in Nat /\ MaxRevisions \in Nat
      /\ pc \in [Handlers -> Steps]
      /\ \A k \in Handlers : job[k].reviser \in {"coordinator", "recovery"}
  BY MaxRevisionsAssumption DEF TypeOK, SessionTypeOK, Job, Reviser
<1>o. \A k \in Handlers \ {h} : pc'[k] = pc[k] /\ job'[k] = job[k]
  BY OthersStay
<1>1. CASE RequestRevision(h)
  <2>1. revisions' = revisions
    BY <1>1 DEF RequestRevision, sessionVars
  <2>2. pc'[h] \in RevisionSection => revisions < MaxRevisions /\ job'[h] = job[h]
    BY <1>1, <1>t DEF RequestRevision, Goto, RevisionSection, TypeOK
  <2>3. \A k \in Handlers \ {h} : Revising(k) => job[k].reviser # job[h].reviser
    BY <1>1 DEF RequestRevision, Revising
  <2>4. QED
    BY <1>t, <1>o, <2>1, <2>2, <2>3 DEF RevisionInv, Revising
<1>2. CASE Revising(h) /\ job'[h] = job[h] /\ revisions' = revisions
  <2>1. \A k \in Handlers : job'[k] = job[k] /\ (Revising(k)' => Revising(k))
    BY <1>2, <1>o DEF Revising
  <2>2. QED
    BY <1>2, <2>1 DEF RevisionInv, Revising
<1>3. CASE RecordRevision(h)
  <2>1. revisions' = revisions + 1 /\ Revising(h) /\ pc'[h] \notin RevisionSection
    BY <1>3, <1>t DEF RecordRevision, AddRevisionMessage, Goto, Revising, RevisionSection
  <2>2. \A k \in Handlers : Revising(k)' => k # h /\ Revising(k)
    BY <1>o, <2>1 DEF Revising
  <2>3. \A k, l \in Handlers : k # l => ~(Revising(k)' /\ Revising(l)')
    BY <1>t, <2>1, <2>2 DEF RevisionInv
  <2>4. \A k \in Handlers : Revising(k)' => revisions < MaxRevisions
    BY <2>1, <2>2 DEF RevisionInv
  <2>5. revisions <= MaxRevisions
    BY <2>1 DEF RevisionInv
  <2>6. QED
    BY <1>t, <2>1, <2>3, <2>4, <2>5 DEF RevisionInv
<1>4. CASE pc'[h] \notin RevisionSection /\ revisions' = revisions
  <2>1. \A k \in Handlers : Revising(k)' => k # h /\ Revising(k) /\ job'[k] = job[k]
    BY <1>4, <1>o DEF Revising
  <2>2. QED
    BY <1>4, <2>1 DEF RevisionInv
<1>5. QED
  BY <1>1, <1>2, <1>3, <1>4, RevisionSteps DEF RevisionChange

\* RevisionInv holds throughout.
LEMMA RevisionInvariance == Spec => [](TypeOK /\ RevisionInv)
<1>1. Init => RevisionInv
  BY MaxRevisionsAssumption DEF Init, CoordinatorInit, CreateSession, RevisionInv, Revising,
     RevisionSection
<1>2. TypeOK /\ RevisionInv /\ [Next]_vars => RevisionInv'
  <2> SUFFICES ASSUME TypeOK, RevisionInv, [Next]_vars PROVE RevisionInv'
    OBVIOUS
  <2>1. ASSUME NEW h \in Handlers, Step(h) PROVE RevisionInv'
    BY <2>1, RevisionStays
  <2>2. CASE Crash
    BY <2>2 DEF Crash, sessionVars, RevisionInv, Revising, RevisionSection
  <2>3. CASE UNCHANGED vars
    BY <2>3 DEF vars, handlerVars, sessionVars, RevisionInv, Revising
  <2>4. QED
    BY <2>1, <2>2, <2>3 DEF Next
<1>3. QED
  BY <1>1, <1>2, TypeCorrect, PTL DEF Spec

\* The limit of the revision service is overrun by one revision at most, for
\* any number of tabs and of crashes (revision/service.py:44-98).
THEOREM RevisionsAreBounded == Spec => []RevisionBound
<1>1. RevisionInv => RevisionBound
  BY DEF RevisionInv, RevisionBound
<1>2. QED
  BY <1>1, RevisionInvariance, PTL
-------------------------------------------------------------------------------
(* Who writes what.                                                        *)

\* The plan is written where it was built, and the workers' evidence while the
\* run executes or a Gate C is answered.
LEMMA PlanWrites ==
  ASSUME NEW h \in Handlers, Step(h)
  PROVE  /\ UNCHANGED plan \/ StorePlan(h)
         /\ \/ UNCHANGED evidenceVars
            \/ pc[h] \in {"authorize", "markWaiting", "running", "writeOutputs", "toolOutput",
                          "reconcile"}
<1> USE DEF sessionVars
<1>1. CASE \/ StartRun(h) \/ BuildArchitecture(h) \/ StorePlan(h) \/ PlanFails(h)
           \/ RequestPlanGate(h) \/ RequestFinalGate(h)
           \/ ApplyArchitectureDecision(h) \/ ApplyFinalDecision(h) \/ Finalize(h)
           \/ RequestRevision(h) \/ EnterRevision(h) \/ RecordRevision(h)
           \/ \E g \in Gates, decision \in HumanDecisions : ResolveGate(h, g, decision)
           \/ Evaluate(h) \/ RecordSupervisorResult(h) \/ RecomputeEvidence(h)
           \/ RecordQA(h) \/ MoveState(h)
  BY <1>1 DEF StartRun, BuildArchitecture, StorePlan, PlanFails, RequestPlanGate,
     RequestFinalGate, ApplyArchitectureDecision, ApplyFinalDecision, Finalize, RequestRevision,
     EnterRevision, RecordRevision, ResolveGate, Evaluate, RecordSupervisorResult,
     RecomputeEvidence, RecordQA,
     MoveState, SetState, SetArchitecturePlan, AddApprovalGate, ResolveApprovalGate,
     SetFinalResult, AddRevisionMessage, AddQAMessage
<1>2. CASE \/ RecoverArchitecture(h) \/ RecoverSupervision(h)
           \/ \E w \in Workers : RecoverExecution(h, w)
           \/ ReconcileLocal(h) \/ ReconcileBackend(h) \/ ReconcileNothing(h)
  BY <1>2 DEF RecoverArchitecture, RecoverSupervision, RecoverExecution, ReconcileLocal,
     ReconcileBackend, ReconcileNothing, SetState, AddExecutionResult
<1>3. CASE OrchestratorStep(h)
  BY <1>3 DEF OrchestratorStep, ExecuteRun, PreparationRaises, NextBatch, SkipWorker,
     AuthorizeWorker, PlanningError, NeedToolGate, RequestToolGate, MarkWaitingForGate,
     FinishExecution, ExecutionRaises, WriteOutput, ResumeAfterToolGate, ResolveToolGate,
     WriteToolDecision, SetWorkerOutput, AddExecutionResult, AddApprovalGate,
     ResolveApprovalGate
<1>4. QED
  BY <1>1, <1>2, <1>3 DEF Step, CoordinatorStep

\* The QA record is written by one step (runtime/service.py:166-200).
LEMMA QAWrites ==
  ASSUME NEW h \in Handlers, Step(h)
  PROVE  UNCHANGED qa \/ RecordQA(h)
<1> USE DEF sessionVars
<1>1. CASE \/ StartRun(h) \/ BuildArchitecture(h) \/ StorePlan(h) \/ PlanFails(h)
           \/ RequestPlanGate(h) \/ RequestFinalGate(h)
           \/ ApplyArchitectureDecision(h) \/ ApplyFinalDecision(h) \/ Finalize(h)
           \/ RequestRevision(h) \/ EnterRevision(h) \/ RecordRevision(h)
           \/ \E g \in Gates, decision \in HumanDecisions : ResolveGate(h, g, decision)
           \/ Evaluate(h) \/ RecordSupervisorResult(h) \/ RecomputeEvidence(h)
           \/ RecordQA(h) \/ MoveState(h)
  BY <1>1 DEF StartRun, BuildArchitecture, StorePlan, PlanFails, RequestPlanGate,
     RequestFinalGate, ApplyArchitectureDecision, ApplyFinalDecision, Finalize, RequestRevision,
     EnterRevision, RecordRevision, ResolveGate, Evaluate, RecordSupervisorResult,
     RecomputeEvidence, MoveState, SetState, SetArchitecturePlan, AddApprovalGate,
     ResolveApprovalGate, SetFinalResult, AddRevisionMessage
<1>2. CASE \/ RecoverArchitecture(h) \/ RecoverSupervision(h)
           \/ \E w \in Workers : RecoverExecution(h, w)
           \/ ReconcileLocal(h) \/ ReconcileBackend(h) \/ ReconcileNothing(h)
  BY <1>2 DEF RecoverArchitecture, RecoverSupervision, RecoverExecution, ReconcileLocal,
     ReconcileBackend, ReconcileNothing, SetState, AddExecutionResult
<1>3. CASE OrchestratorStep(h)
  BY <1>3 DEF OrchestratorStep, ExecuteRun, PreparationRaises, NextBatch, SkipWorker,
     AuthorizeWorker, PlanningError, NeedToolGate, RequestToolGate, MarkWaitingForGate,
     FinishExecution, ExecutionRaises, WriteOutput, ResumeAfterToolGate, ResolveToolGate,
     WriteToolDecision, SetWorkerOutput, AddExecutionResult, AddApprovalGate,
     ResolveApprovalGate
<1>4. QED
  BY <1>1, <1>2, <1>3 DEF Step, CoordinatorStep

HumanGate(g) == gates[g].kind \in {"ARCHITECTURE", "FINAL"}

\* A gate that was never opened is about nothing, and only Gate C is answered
\* in a thread.
GateShapes ==
  /\ \A g \in Gates : gates[g].status = "ABSENT" => gates[g].kind = None
  /\ \A h \in Handlers :
       pc[h] \in {"resolveToolGate", "toolOutput"} => gates[job[h].gate].kind = "TOOL_RISK"

\* Gates A and D are opened and answered by four actions of the coordinator.
LEMMA HumanGateWrites ==
  ASSUME WellFormed, GateShapes, NEW h \in Handlers, Step(h)
  PROVE  \/ RequestPlanGate(h) \/ RequestFinalGate(h)
         \/ \E g \in Gates, d \in HumanDecisions : ResolveGate(h, g, d)
         \/ \A g \in Gates : \/ gates'[g] = gates[g]
                             \/ /\ gates'[g].kind = "TOOL_RISK" /\ gates'[g].status # "ABSENT"
                                /\ ~HumanGate(g)
<1> USE DEF sessionVars
<1>t. gates \in [Gates -> ApprovalGate]
  BY DEF WellFormed, TypeOK, SessionTypeOK
<1>1. CASE \/ StartRun(h) \/ BuildArchitecture(h) \/ StorePlan(h) \/ PlanFails(h)
           \/ ApplyArchitectureDecision(h) \/ ApplyFinalDecision(h) \/ Finalize(h)
           \/ RequestRevision(h) \/ EnterRevision(h) \/ RecordRevision(h)
           \/ Evaluate(h) \/ RecordSupervisorResult(h) \/ RecomputeEvidence(h)
           \/ RecordQA(h) \/ MoveState(h)
           \/ RecoverArchitecture(h) \/ RecoverSupervision(h)
           \/ \E w \in Workers : RecoverExecution(h, w)
           \/ ReconcileLocal(h) \/ ReconcileBackend(h) \/ ReconcileNothing(h)
  <2>1. UNCHANGED gates
    BY <1>1 DEF StartRun, BuildArchitecture, StorePlan, PlanFails, ApplyArchitectureDecision,
       ApplyFinalDecision, Finalize, RequestRevision, EnterRevision, RecordRevision, Evaluate,
       RecordSupervisorResult, RecomputeEvidence, RecordQA, MoveState, SetState,
       SetArchitecturePlan,
       SetFinalResult, AddRevisionMessage, AddQAMessage, RecoverArchitecture,
       RecoverSupervision, RecoverExecution, ReconcileLocal, ReconcileBackend,
       ReconcileNothing, AddExecutionResult
  <2>2. QED
    BY <2>1
<1>2. CASE \/ ExecuteRun(h) \/ PreparationRaises(h) \/ NextBatch(h) \/ WriteOutput(h)
           \/ MarkWaitingForGate(h) \/ WriteToolDecision(h)
           \/ \E g \in Gates : ResumeAfterToolGate(h, g)
           \/ \E w \in Workers :
                \/ SkipWorker(h, w) \/ AuthorizeWorker(h, w) \/ PlanningError(h, w)
                \/ NeedToolGate(h, w) \/ ExecutionRaises(h, w)
                \/ \E success \in BOOLEAN : FinishExecution(h, w, success)
  <2>1. UNCHANGED gates
    BY <1>2 DEF ExecuteRun, PreparationRaises, NextBatch, WriteOutput, MarkWaitingForGate,
       WriteToolDecision, ResumeAfterToolGate, SkipWorker, AuthorizeWorker, PlanningError,
       NeedToolGate, ExecutionRaises, FinishExecution, SetWorkerOutput, AddExecutionResult
  <2>2. QED
    BY <2>1
<1>3. CASE RequestToolGate(h)
  <2>1. PICK g \in Gates :
          /\ gates[g].status = "ABSENT"
          /\ gates' = [gates EXCEPT ![g] = [ kind |-> "TOOL_RISK", status |-> "OPEN",
                                             decision |-> None, subject |-> job[h].worker ]]
    BY <1>3 DEF RequestToolGate, AddApprovalGate
  <2>2. ~HumanGate(g)
    BY <2>1, NoneIsFresh DEF GateShapes, HumanGate, GateKind
  <2>3. QED
    BY <1>t, <2>1, <2>2
<1>4. ASSUME NEW d \in HumanDecisions, ResolveToolGate(h, d)
      PROVE  \A g \in Gates : \/ gates'[g] = gates[g]
                              \/ /\ gates'[g].kind = "TOOL_RISK" /\ gates'[g].status # "ABSENT"
                                 /\ ~HumanGate(g)
  <2>1. job[h].gate \in Gates /\ gates[job[h].gate].kind = "TOOL_RISK"
    BY <1>4 DEF ResolveToolGate, WellFormed, LocalsOK, GateShapes
  <2>2. CASE ResolveApprovalGate(job[h].gate, d)
    <3>1. gates[job[h].gate] \in ApprovalGate
      BY <1>t, <2>1
    <3>2. QED
      BY <1>t, <2>1, <2>2, <3>1 DEF ResolveApprovalGate, HumanGate, ApprovalGate
  <2>3. CASE UNCHANGED gates
    BY <2>3
  <2>4. QED
    BY <1>4, <2>2, <2>3 DEF ResolveToolGate
<1>5. QED
  BY <1>1, <1>2, <1>3, <1>4 DEF Step, CoordinatorStep, OrchestratorStep
-------------------------------------------------------------------------------
(* Where a handler comes from.                                             *)

\* A pending transition that goes through.
Moves(h) ==
  /\ pc[h] \in DOMAIN Transitions
  /\ SetState(Transitions[pc[h]].target)
  /\ pc'[h] = Transitions[pc[h]].next
  /\ pc'[h] # "idle" => job'[h] = job[h]

\* Only transitions lead to a state in which work is done or finished.
LEMMA StateWrites ==
  ASSUME TypeOK, NEW h \in Handlers, Step(h)
  PROVE  \/ state' = state
         \/ state' \in {"INTAKE", "ARCHITECTING"}
         \/ Moves(h)
<1> USE DEF sessionVars
<1>1. CASE MoveState(h)
  BY <1>1 DEF MoveState, Moves, Goto, TypeOK
<1>2. CASE CoordinatorStep(h) /\ ~MoveState(h)
  BY <1>2 DEF CoordinatorStep, StartRun, BuildArchitecture, StorePlan, PlanFails,
     RequestPlanGate, RequestFinalGate, ApplyArchitectureDecision, ApplyFinalDecision, Finalize,
     RequestRevision, EnterRevision, RecordRevision, ResolveGate, Evaluate,
     RecordSupervisorResult, RecomputeEvidence, RecordQA, SetState, SetArchitecturePlan,
     AddApprovalGate,
     ResolveApprovalGate, SetFinalResult, AddRevisionMessage, AddQAMessage, RecoverArchitecture,
     RecoverSupervision, RecoverExecution, ReconcileLocal, ReconcileBackend, ReconcileNothing,
     AddExecutionResult
<1>3. CASE OrchestratorStep(h)
  BY <1>3 DEF OrchestratorStep, ExecuteRun, PreparationRaises, NextBatch, SkipWorker,
     AuthorizeWorker, PlanningError, NeedToolGate, RequestToolGate, MarkWaitingForGate,
     FinishExecution, ExecutionRaises, WriteOutput, ResumeAfterToolGate, ResolveToolGate,
     WriteToolDecision, SetWorkerOutput, AddExecutionResult, AddApprovalGate,
     ResolveApprovalGate
<1>4. QED
  BY <1>1, <1>2, <1>3 DEF Step

\* The steps that the invariant says something about, and what leads to them.
LEMMA Arrivals ==
  ASSUME WellFormed, NEW h \in Handlers, Step(h)
  PROVE  /\ pc'[h] = "awaitPlanDecision" => StorePlan(h)
         /\ pc'[h] = "requestPlanGate" => Moves(h) /\ pc[h] = "awaitPlanDecision"
         /\ pc'[h] = "beginExecution" => ApplyArchitectureDecision(h) \/ WriteToolDecision(h)
         /\ pc'[h] = "recordQA" => RecomputeEvidence(h)
         /\ pc'[h] = "awaitFinal" => RecordQA(h)
         /\ pc'[h] = "requestFinalGate" => Moves(h) /\ pc[h] = "awaitFinal"
         /\ pc'[h] = "resolveToolGate" => \E g \in Gates : ResumeAfterToolGate(h, g)
         /\ pc'[h] = "toolOutput" => \E d \in HumanDecisions : ResolveToolGate(h, d)
         /\ pc'[h] = "reject" => ApplyArchitectureDecision(h) \/ ApplyFinalDecision(h)
         /\ pc'[h] = "fail" => Evaluate(h)
<1>t. pc \in [Handlers -> Steps] /\ job \in [Handlers -> Job]
  BY DEF WellFormed, TypeOK
<1>g. ASSUME NEW step, NEW j, Goto(h, step, j) PROVE pc'[h] = step
  BY <1>g, <1>t DEF Goto
<1>b. \A j : AfterBatch(j) \in {"pause", "dispatch", "supervise"}
  BY DEF AfterBatch
<1>a. \A j : AfterAuthorization(j) \in {"authorize", "running", "pause", "dispatch", "supervise"}
  BY <1>b DEF AfterAuthorization
<1>c. \A j : AfterThread(j) \in {"running", "idle", "writeOutputs"}
  BY DEF AfterThread
<1> DEFINE Watched == { "awaitPlanDecision", "requestPlanGate", "beginExecution", "recordQA",
                        "awaitFinal", "requestFinalGate", "resolveToolGate", "toolOutput",
                        "reject", "fail" }
<1>0. CASE ApplyFinalDecision(h)
  <2>1. pc'[h] \in {"idle", "finalize", "revise", "reject"}
    BY <1>0, <1>g DEF ApplyFinalDecision
  <2>2. QED
    BY <1>0, <2>1
<1>1. CASE \/ StartRun(h) \/ BuildArchitecture(h) \/ PlanFails(h)
           \/ RequestPlanGate(h) \/ RequestFinalGate(h) \/ Finalize(h)
           \/ RequestRevision(h) \/ EnterRevision(h) \/ RecordRevision(h)
  <2>1. pc'[h] \in {"build", "planning", "idle", "complete", "revision", "enterRevision",
                    "rearchitect", "recordRevision", "evaluate"}
    BY <1>1, <1>g DEF StartRun, BuildArchitecture, PlanFails, RequestPlanGate,
       RequestFinalGate, Finalize, RequestRevision, EnterRevision, RecordRevision
  <2>2. QED
    BY <2>1
<1>2. CASE \E g \in Gates, d \in HumanDecisions : ResolveGate(h, g, d)
  <2>1. pc'[h] = "applyDecision"
    BY <1>2, <1>t DEF ResolveGate
  <2>2. QED
    BY <2>1
<1>3. CASE StorePlan(h)
  <2>1. pc'[h] = "awaitPlanDecision"
    BY <1>3, <1>g DEF StorePlan
  <2>2. QED
    BY <1>3, <2>1
<1>4. CASE ApplyArchitectureDecision(h)
  <2>1. pc'[h] \in {"idle", "beginExecution", "reject", "revise"}
    BY <1>4, <1>g DEF ApplyArchitectureDecision
  <2>2. QED
    BY <1>4, <2>1
<1>5. CASE RecordSupervisorResult(h) \/ RecomputeEvidence(h)
  <2>1. CASE RecordSupervisorResult(h)
    BY <2>1, <1>g DEF RecordSupervisorResult
  <2>2. CASE RecomputeEvidence(h)
    <3>1. pc'[h] \in {"idle", "recordQA"}
      BY <2>2, <1>g DEF RecomputeEvidence
    <3>2. QED
      BY <2>2, <3>1
  <2>3. QED
    BY <1>5, <2>1, <2>2
<1>6. CASE RecordQA(h)
  <2>1. pc'[h] = "awaitFinal"
    BY <1>6, <1>g DEF RecordQA
  <2>2. QED
    BY <1>6, <2>1
<1>7. CASE MoveState(h)
  <2>1. CASE Goto(h, "idle", NoJob)
    BY <2>1, <1>g
  <2>2. CASE /\ pc[h] \in DOMAIN Transitions
             /\ SetState(Transitions[pc[h]].target)
             /\ Goto(h, Transitions[pc[h]].next, job[h])
    <3>1. Moves(h)
      BY <2>2, <1>t DEF Moves, Goto
    <3>2. \A step \in DOMAIN Transitions :
            /\ Transitions[step].next \in Watched =>
                 Transitions[step].next \in {"requestPlanGate", "requestFinalGate"}
            /\ Transitions[step].next = "requestPlanGate" => step = "awaitPlanDecision"
            /\ Transitions[step].next = "requestFinalGate" => step = "awaitFinal"
      BY DEF Transitions
    <3>3. QED
      BY <2>2, <3>1, <3>2 DEF Moves
  <2>3. QED
    BY <1>7, <2>1, <2>2 DEF MoveState
<1>8. CASE \/ Evaluate(h) \/ RecoverArchitecture(h) \/ RecoverSupervision(h)
           \/ \E w \in Workers : RecoverExecution(h, w)
           \/ ReconcileLocal(h) \/ ReconcileBackend(h) \/ ReconcileNothing(h)
  <2>1. CASE Evaluate(h)
    BY <2>1, <1>g DEF Evaluate, QAStatus
  <2>2. CASE RecoverArchitecture(h) \/ RecoverSupervision(h) \/ ReconcileNothing(h)
    BY <2>2, <1>g DEF RecoverArchitecture, RecoverSupervision, ReconcileNothing
  <2>3. ASSUME NEW w \in Workers, RecoverExecution(h, w) PROVE pc'[h] = "reconcile"
    BY <2>3, <1>g DEF RecoverExecution
  <2>4. CASE ReconcileLocal(h) \/ ReconcileBackend(h)
    BY <2>4, <1>g DEF ReconcileLocal, ReconcileBackend, AfterReconciliation
  <2>5. QED
    BY <1>8, <2>1, <2>2, <2>3, <2>4
<1>9. CASE WriteToolDecision(h)
  <2>1. pc'[h] \in {"beginExecution", "revise"}
    BY <1>9, <1>g DEF WriteToolDecision
  <2>2. QED
    BY <1>9, <2>1
<1>10. ASSUME NEW g \in Gates, ResumeAfterToolGate(h, g) PROVE pc'[h] = "resolveToolGate"
  BY <1>10, <1>g DEF ResumeAfterToolGate
<1>11. ASSUME NEW d \in HumanDecisions, ResolveToolGate(h, d) PROVE pc'[h] \in {"idle", "toolOutput"}
  BY <1>11, <1>g DEF ResolveToolGate
<1>12. CASE \/ ExecuteRun(h) \/ PreparationRaises(h) \/ NextBatch(h) \/ WriteOutput(h)
            \/ MarkWaitingForGate(h) \/ RequestToolGate(h)
  <2>1. CASE ExecuteRun(h) \/ PreparationRaises(h) \/ RequestToolGate(h)
    BY <2>1, <1>g DEF ExecuteRun, PreparationRaises, RequestToolGate
  <2>2. CASE NextBatch(h)
    BY <2>2, <1>g DEF NextBatch
  <2>3. CASE MarkWaitingForGate(h)
    BY <2>3, <1>a, <1>g DEF MarkWaitingForGate
  <2>4. CASE WriteOutput(h)
    BY <2>4, <1>b, <1>g DEF WriteOutput
  <2>5. QED
    BY <1>12, <2>1, <2>2, <2>3, <2>4
<1>13. ASSUME NEW w \in Workers,
              \/ SkipWorker(h, w) \/ AuthorizeWorker(h, w) \/ PlanningError(h, w)
              \/ NeedToolGate(h, w) \/ ExecutionRaises(h, w)
              \/ \E success \in BOOLEAN : FinishExecution(h, w, success)
       PROVE  pc'[h] \notin Watched
  <2>1. CASE \/ SkipWorker(h, w) \/ AuthorizeWorker(h, w) \/ PlanningError(h, w)
             \/ NeedToolGate(h, w)
    BY <2>1, <1>a, <1>g DEF SkipWorker, AuthorizeWorker, PlanningError, NeedToolGate
  <2>2. CASE ExecutionRaises(h, w)
    BY <2>2, <1>c, <1>g DEF ExecutionRaises
  <2>3. ASSUME NEW success \in BOOLEAN, FinishExecution(h, w, success) PROVE pc'[h] \notin Watched
    BY <2>3, <1>c, <1>g DEF FinishExecution
  <2>4. QED
    BY <1>13, <2>1, <2>2, <2>3
<1>14. QED
  BY <1>0, <1>1, <1>2, <1>3, <1>4, <1>5, <1>6, <1>7, <1>8, <1>9, <1>10, <1>11, <1>12, <1>13
     DEF Step, CoordinatorStep, OrchestratorStep
-------------------------------------------------------------------------------
(* A run that waits for a human has a gate to wait for.                    *)

\* What a handler does at the steps between a gate and the end of its answer.
LEMMA StepAt ==
  ASSUME NEW h \in Handlers, Step(h)
  PROVE  /\ pc[h] \in DOMAIN Transitions => MoveState(h)
         /\ pc[h] = "requestPlanGate" => RequestPlanGate(h)
         /\ pc[h] = "requestFinalGate" => RequestFinalGate(h)
         /\ pc[h] = "applyDecision" => ApplyArchitectureDecision(h) \/ ApplyFinalDecision(h)
         /\ pc[h] = "finalize" => Finalize(h)
         /\ pc[h] = "revise" => RequestRevision(h)
         /\ pc[h] = "revision" => EnterRevision(h)
<1>1. CASE \/ StartRun(h) \/ BuildArchitecture(h) \/ StorePlan(h) \/ PlanFails(h)
           \/ RequestPlanGate(h) \/ RequestFinalGate(h)
           \/ ApplyArchitectureDecision(h) \/ ApplyFinalDecision(h) \/ Finalize(h)
           \/ RequestRevision(h) \/ EnterRevision(h) \/ RecordRevision(h)
           \/ \E g \in Gates, d \in HumanDecisions : ResolveGate(h, g, d)
  BY <1>1 DEF StartRun, BuildArchitecture, StorePlan, PlanFails, RequestPlanGate,
     RequestFinalGate, ApplyArchitectureDecision, ApplyFinalDecision, Finalize, RequestRevision,
     EnterRevision, RecordRevision, ResolveGate, Callback, Transitions
<1>2. CASE \/ Evaluate(h) \/ RecordSupervisorResult(h) \/ RecomputeEvidence(h)
           \/ RecordQA(h) \/ MoveState(h)
           \/ RecoverArchitecture(h) \/ RecoverSupervision(h)
           \/ \E w \in Workers : RecoverExecution(h, w)
           \/ ReconcileLocal(h) \/ ReconcileBackend(h) \/ ReconcileNothing(h)
  BY <1>2 DEF Evaluate, RecordSupervisorResult, RecomputeEvidence, RecordQA, MoveState,
     RecoverArchitecture,
     RecoverSupervision, RecoverExecution, ReconcileLocal, ReconcileBackend, ReconcileNothing,
     Callback, Transitions
<1>3. CASE OrchestratorStep(h)
  <2>1. pc[h] \in OrchestratorSteps \cup {"idle"}
    BY <1>3 DEF OrchestratorStep, ExecuteRun, PreparationRaises, NextBatch, SkipWorker,
       AuthorizeWorker, PlanningError, NeedToolGate, RequestToolGate, MarkWaitingForGate,
       FinishExecution, ExecutionRaises, WriteOutput, ResumeAfterToolGate, ResolveToolGate,
       WriteToolDecision, Callback, OrchestratorSteps
  <2>2. QED
    BY <2>1 DEF OrchestratorSteps, Transitions
<1>4. QED
  BY <1>1, <1>2, <1>3 DEF Step, CoordinatorStep

\* Only a crash is one.
LEMMA CrashesStay ==
  ASSUME NEW h \in Handlers, Step(h)
  PROVE  crashes' = crashes
BY DEF Step, CoordinatorStep, OrchestratorStep, hostVars, StartRun, BuildArchitecture,
   StorePlan, PlanFails, RequestPlanGate, RequestFinalGate, ApplyArchitectureDecision,
   ApplyFinalDecision, Finalize, RequestRevision, EnterRevision, RecordRevision, ResolveGate,
   Evaluate, RecordSupervisorResult, RecomputeEvidence, RecordQA, MoveState, RecoverArchitecture,
   RecoverSupervision, RecoverExecution, ReconcileLocal, ReconcileBackend, ReconcileNothing,
   ExecuteRun, PreparationRaises, NextBatch, SkipWorker, AuthorizeWorker, PlanningError,
   NeedToolGate, RequestToolGate, MarkWaitingForGate, FinishExecution, ExecutionRaises,
   WriteOutput, ResumeAfterToolGate, ResolveToolGate, WriteToolDecision

\* Revisions are counted and never forgotten.
LEMMA RevisionsGrow ==
  ASSUME TypeOK, NEW h \in Handlers, Step(h)
  PROVE  revisions' \in Nat /\ revisions <= revisions'
<1>1. revisions \in Nat
  BY DEF TypeOK, SessionTypeOK
<1>2. revisions' = revisions \/ revisions' = revisions + 1
  BY RevisionSteps DEF RevisionChange, RequestRevision, RecordRevision, AddRevisionMessage,
     sessionVars
<1>3. QED
  BY <1>1, <1>2

\* A gate keeps the kind it was opened with, and GateShapes holds on.
LEMMA KindsStay ==
  ASSUME WellFormed, GateShapes, NEW h \in Handlers, Step(h)
  PROVE  /\ \A g \in Gates : /\ gates[g].kind # None => gates'[g].kind = gates[g].kind
                             /\ gates'[g].status = "ABSENT" => gates'[g].kind = None
         /\ GateShapes'
<1>t. /\ gates \in [Gates -> ApprovalGate] /\ pc \in [Handlers -> Steps]
      /\ job \in [Handlers -> Job]
  BY DEF WellFormed, TypeOK, SessionTypeOK
<1>1. \A g \in Gates : /\ gates[g].kind # None => gates'[g].kind = gates[g].kind
                       /\ gates'[g].status = "ABSENT" => gates'[g].kind = None
  <2>1. CASE UNCHANGED gates
    BY <2>1 DEF GateShapes
  <2>2. CASE \E kind \in GateKind, subject \in GateSubject : AddApprovalGate(kind, subject)
    BY <2>2, <1>t DEF AddApprovalGate, GateShapes
  <2>3. ASSUME NEW g \in Gates, NEW d \in HumanDecisionType, ResolveApprovalGate(g, d)
        PROVE  \A k \in Gates : /\ gates[k].kind # None => gates'[k].kind = gates[k].kind
                                /\ gates'[k].status = "ABSENT" => gates'[k].kind = None
    <3>1. gates[g] \in ApprovalGate
      BY <1>t
    <3>2. gates'[g].kind = gates[g].kind /\ gates'[g].status = "RESOLVED"
      BY <1>t, <2>3, <3>1 DEF ResolveApprovalGate, ApprovalGate
    <3>3. \A k \in Gates : k # g => gates'[k] = gates[k]
      BY <1>t, <2>3 DEF ResolveApprovalGate
    <3>4. QED
      BY <3>2, <3>3 DEF GateShapes
  <2>4. QED
    BY <2>1, <2>2, <2>3, GateChanges
<1>2. ASSUME NEW k \in Handlers, pc'[k] \in {"resolveToolGate", "toolOutput"}
      PROVE  gates'[job'[k].gate].kind = "TOOL_RISK"
  <2>1. CASE k # h
    <3>1. pc[k] \in {"resolveToolGate", "toolOutput"} /\ job'[k] = job[k]
      BY <1>2, <2>1, OthersStay DEF WellFormed
    <3>2. gates[job[k].gate].kind = "TOOL_RISK" /\ job[k].gate \in Gates
      BY <3>1 DEF GateShapes, WellFormed, LocalsOK
    <3>3. "TOOL_RISK" # None
      BY NoneIsFresh DEF GateKind
    <3>4. QED
      BY <1>1, <3>1, <3>2, <3>3
  <2>2. CASE k = h /\ pc'[h] = "resolveToolGate"
    <3>1. PICK g \in Gates : ResumeAfterToolGate(h, g)
      BY <2>2, Arrivals
    <3>2. gates' = gates /\ gates[g].kind = "TOOL_RISK"
      BY <3>1 DEF ResumeAfterToolGate, sessionVars
    <3>3. job'[h] = [NoJob EXCEPT !.gate = g, !.worker = gates[g].subject]
      BY <3>1, <1>t DEF ResumeAfterToolGate, Goto
    <3>4. job'[h].gate = g
      BY <3>3 DEF NoJob
    <3>5. QED
      BY <2>2, <3>2, <3>4
  <2>3. CASE k = h /\ pc'[h] = "toolOutput"
    <3>1. PICK d \in HumanDecisions : ResolveToolGate(h, d)
      BY <2>3, Arrivals
    <3>2. pc[h] = "resolveToolGate" /\ job'[h] = job[h]
      BY <2>3, <3>1, <1>t DEF ResolveToolGate, Goto
    <3>3. gates[job[h].gate].kind = "TOOL_RISK" /\ job[h].gate \in Gates
      BY <3>2 DEF GateShapes, WellFormed, LocalsOK
    <3>4. "TOOL_RISK" # None
      BY NoneIsFresh DEF GateKind
    <3>5. QED
      BY <1>1, <2>3, <3>2, <3>3, <3>4
  <2>4. QED
    BY <1>2, <2>1, <2>2, <2>3
<1>3. QED
  BY <1>1, <1>2 DEF GateShapes

\* A decision is applied where one was given, and no Gate D is put without
\* evidence on record.
AppliedIsAnswered ==
  \A h \in Handlers :
    pc[h] = "applyDecision" => HumanGate(job[h].gate) /\ gates[job[h].gate].decision # None

QAOnRecord ==
  /\ \A h \in Handlers : pc[h] \in {"awaitFinal", "requestFinalGate"} => qa # None
  /\ \A g \in Gates : gates[g].kind = "FINAL" => qa # None

\* Gates come into being one after the other.
GatesInOrder ==
  \A g, k \in Gates : g < k /\ gates[g].status = "ABSENT" => gates[k].status = "ABSENT"

\* A handler is at work on the gate that the run waits for.
AppliesAt(h, kind) ==
  pc[h] = "applyDecision" /\ \E g \in Gates : job[h].gate = g /\ LastGate(kind, g)

OnGateA(h) ==
  pc[h] \in {"requestPlanGate", "beginExecution", "reject"} \/ AppliesAt(h, "ARCHITECTURE")

OnGateD(h) ==
  pc[h] \in {"requestFinalGate", "finalize", "complete", "reject"} \/ AppliesAt(h, "FINAL")

RevisesFinal(h) ==
  /\ pc[h] \in {"revise", "revision", "enterRevision"}
  /\ \E g \in Gates : LastGate("FINAL", g) /\ gates[g].decision = "MODIFY"

GateAAwaited ==
  state = "WAITING_ARCHITECT_APPROVAL" => GateALeft \/ \E h \in Handlers : OnGateA(h)

GateDAwaited ==
  state = "WAITING_FINAL_APPROVAL" =>
    GateDLeft \/ \E h \in Handlers : OnGateD(h) \/ RevisesFinal(h)

WaitingInv ==
  /\ GateShapes /\ GatesInOrder /\ AppliedIsAnswered /\ QAOnRecord
  /\ crashes = 0 => GateAAwaited /\ GateDAwaited

\* A handler comes to apply a decision by giving it.
LEMMA AppliedStays ==
  ASSUME WellFormed, GateShapes, AppliedIsAnswered, NEW h \in Handlers, Step(h)
  PROVE  AppliedIsAnswered'
<1> SUFFICES ASSUME NEW k \in Handlers, pc'[k] = "applyDecision"
             PROVE  /\ gates'[job'[k].gate].kind \in {"ARCHITECTURE", "FINAL"}
                    /\ gates'[job'[k].gate].decision # None
  BY DEF AppliedIsAnswered, HumanGate
<1>t. gates \in [Gates -> ApprovalGate] /\ job \in [Handlers -> Job]
  BY DEF WellFormed, TypeOK, SessionTypeOK
<1>1. CASE k # h
  <2>1. pc[k] = "applyDecision" /\ job'[k] = job[k]
    BY <1>1, OthersStay DEF WellFormed
  <2>2. job[k].gate \in Gates /\ HumanGate(job[k].gate) /\ gates[job[k].gate].decision # None
    BY <2>1 DEF WellFormed, LocalsOK, AppliedIsAnswered
  <2>3. gates'[job[k].gate] = gates[job[k].gate]
    BY <2>2, DecisionsStay
  <2>4. QED
    BY <2>1, <2>2, <2>3 DEF HumanGate
<1>2. CASE k = h
  <2>1. PICK g \in Gates, d \in HumanDecisions : ResolveGate(h, g, d)
    BY <1>2, CompletionSteps
  <2>2. d # None
    BY NoneIsFresh, DecisionsAssumption
  <2>3. gates[g] \in ApprovalGate
    BY <1>t
  <2>4. gates'[g].decision = d /\ gates'[g].kind = gates[g].kind
    BY <1>t, <2>1, <2>3 DEF ResolveGate, ResolveApprovalGate, ApprovalGate
  <2>5. job'[h] = [NoJob EXCEPT !.gate = g]
    BY <1>t, <2>1 DEF ResolveGate
  <2>6. job'[h].gate = g
    BY <2>5 DEF NoJob
  <2>7. QED
    BY <1>2, <2>1, <2>2, <2>4, <2>6 DEF ResolveGate
<1>3. QED
  BY <1>1, <1>2

\* Evidence is on record before Gate D is put, and stays there.
LEMMA QAStays ==
  ASSUME WellFormed, GateShapes, QAOnRecord, NEW h \in Handlers, Step(h)
  PROVE  QAOnRecord'
<1>t. gates \in [Gates -> ApprovalGate]
  BY DEF WellFormed, TypeOK, SessionTypeOK
<1>1. RecordQA(h) => qa' # None
  BY DEF RecordQA, AddQAMessage, WellFormed, LocalsOK
<1>2. qa # None => qa' # None
  BY <1>1, QAWrites
<1>3. ASSUME NEW k \in Handlers, pc'[k] \in {"awaitFinal", "requestFinalGate"} PROVE qa' # None
  <2>1. CASE k # h
    BY <1>2, <1>3, <2>1, OthersStay DEF WellFormed, QAOnRecord
  <2>2. CASE k = h /\ pc'[h] = "awaitFinal"
    BY <1>1, <2>2, Arrivals
  <2>3. CASE k = h /\ pc'[h] = "requestFinalGate"
    BY <1>2, <2>3, Arrivals DEF QAOnRecord
  <2>4. QED
    BY <1>3, <2>1, <2>2, <2>3
<1>4. ASSUME NEW g \in Gates, gates'[g].kind = "FINAL" PROVE qa' # None
  <2>1. CASE gates[g].kind = "FINAL"
    BY <1>2, <2>1 DEF QAOnRecord
  <2>2. CASE gates[g].kind # "FINAL"
    <3>1. CASE RequestFinalGate(h)
      BY <1>2, <3>1 DEF RequestFinalGate, QAOnRecord
    <3>2. CASE RequestPlanGate(h)
      BY <1>t, <1>4, <2>2, <3>2 DEF RequestPlanGate, AddApprovalGate
    <3>3. ASSUME NEW k \in Gates, NEW d \in HumanDecisions, ResolveGate(h, k, d) PROVE FALSE
      <4>1. gates[k] \in ApprovalGate
        BY <1>t
      <4>2. gates'[g].kind = gates[g].kind
        BY <1>t, <3>3, <4>1 DEF ResolveGate, ResolveApprovalGate, ApprovalGate
      <4>3. QED
        BY <1>4, <2>2, <4>2
    <3>4. QED
      BY <1>4, <2>2, <3>1, <3>2, <3>3, HumanGateWrites
  <2>3. QED
    BY <2>1, <2>2
<1>5. QED
  BY <1>3, <1>4 DEF QAOnRecord

\* add_approval_gate appends, so GatesInOrder holds on,
LEMMA OrderStays ==
  ASSUME WellFormed, GatesInOrder, NEW h \in Handlers, Step(h)
  PROVE  GatesInOrder'
<1>t. gates \in [Gates -> ApprovalGate]
  BY DEF WellFormed, TypeOK, SessionTypeOK
<1>1. CASE UNCHANGED gates
  BY <1>1 DEF GatesInOrder
<1>2. CASE \E kind \in GateKind, subject \in GateSubject : AddApprovalGate(kind, subject)
  <2>1. PICK kind \in GateKind, subject \in GateSubject, g \in Gates :
          /\ gates[g].status = "ABSENT"
          /\ \A k \in 1..(g - 1) : gates[k].status # "ABSENT"
          /\ gates' = [gates EXCEPT ![g] = [ kind |-> kind, status |-> "OPEN",
                                             decision |-> None, subject |-> subject ]]
    BY <1>2 DEF AddApprovalGate
  <2>2. gates'[g].status = "OPEN" /\ \A k \in Gates : k # g => gates'[k] = gates[k]
    BY <1>t, <2>1
  <2>3. \A k \in Gates : k < g => gates[k].status # "ABSENT"
    BY <2>1, MaxGatesAssumption DEF Gates
  <2>4. QED
    BY <2>2, <2>3 DEF GatesInOrder
<1>3. ASSUME NEW g \in Gates, NEW d \in HumanDecisionType, ResolveApprovalGate(g, d)
      PROVE  GatesInOrder'
  <2>1. gates[g] \in ApprovalGate /\ gates[g].status = "OPEN"
    BY <1>t, <1>3 DEF ResolveApprovalGate
  <2>2. gates'[g].status = "RESOLVED"
    BY <1>t, <1>3, <2>1 DEF ResolveApprovalGate, ApprovalGate
  <2>3. \A k \in Gates : k # g => gates'[k] = gates[k]
    BY <1>t, <1>3 DEF ResolveApprovalGate
  <2>4. QED
    BY <2>1, <2>2, <2>3 DEF GatesInOrder
<1>4. QED
  BY <1>1, <1>2, <1>3, GateChanges

\* and the gate that is requested is there, as the last of its kind.
LEMMA RequestOpens ==
  ASSUME TypeOK, GateShapes, GatesInOrder,
         NEW kind \in GateKind, NEW subject, AddApprovalGate(kind, subject)
  PROVE  \E g \in Gates : LastGate(kind, g)' /\ gates'[g].status = "OPEN"
<1>t. gates \in [Gates -> ApprovalGate] /\ kind # None
  BY NoneIsFresh DEF TypeOK, SessionTypeOK
<1>1. PICK g \in Gates :
        /\ gates[g].status = "ABSENT"
        /\ gates' = [gates EXCEPT ![g] = [ kind |-> kind, status |-> "OPEN",
                                           decision |-> None, subject |-> subject ]]
  BY DEF AddApprovalGate
<1>2. /\ gates'[g].kind = kind /\ gates'[g].status = "OPEN"
      /\ \A k \in Gates : k # g => gates'[k] = gates[k]
  BY <1>t, <1>1
<1>3. ASSUME NEW k \in Gates, gates'[k].kind = kind PROVE k <= g
  <2>1. CASE k = g
    BY <2>1, MaxGatesAssumption DEF Gates
  <2>2. CASE k # g
    <3>1. gates[k].status # "ABSENT"
      BY <1>t, <1>2, <1>3, <2>2 DEF GateShapes
    <3>2. ~(g < k)
      BY <1>1, <3>1 DEF GatesInOrder
    <3>3. QED
      BY <3>2, MaxGatesAssumption DEF Gates
  <2>3. QED
    BY <2>1, <2>2
<1>4. QED
  BY <1>2, <1>3 DEF LastGate

\* A new question of one kind was put, and is the last of it.
Reopened(kind) == \E g \in Gates : LastGate(kind, g) /\ gates[g].status = "OPEN"

\* The last gate of a kind is that until a new one is opened.
LEMMA LastGateStays ==
  ASSUME WellFormed, GateShapes, GatesInOrder, NEW h \in Handlers, Step(h),
         NEW kind \in {"ARCHITECTURE", "FINAL"}, NEW g \in Gates, LastGate(kind, g)
  PROVE  LastGate(kind, g)' \/ Reopened(kind)'
<1>t. gates \in [Gates -> ApprovalGate] /\ kind \in GateKind /\ gates[g].kind = kind
  BY DEF WellFormed, TypeOK, SessionTypeOK, GateKind, LastGate
<1>0. ASSUME gates'[g].kind = kind,
             \A k \in Gates : gates'[k].kind = kind => gates[k].kind = kind
      PROVE  LastGate(kind, g)'
  BY <1>0 DEF LastGate
<1>1. ASSUME NEW other \in {"ARCHITECTURE", "FINAL"}, NEW subject,
             AddApprovalGate(other, subject)
      PROVE  LastGate(kind, g)' \/ Reopened(kind)'
  <2>1. CASE other = kind
    BY <1>t, <1>1, <2>1, RequestOpens DEF Reopened, WellFormed
  <2>2. CASE other # kind
    <3>1. PICK n \in Gates :
            /\ gates[n].status = "ABSENT"
            /\ gates' = [gates EXCEPT ![n] = [ kind |-> other, status |-> "OPEN",
                                               decision |-> None, subject |-> subject ]]
      BY <1>1 DEF AddApprovalGate
    <3>2. gates'[n].kind = other /\ \A k \in Gates : k # n => gates'[k] = gates[k]
      BY <1>t, <3>1
    <3>3. n # g
      BY <1>t, <3>1, NoneIsFresh DEF GateShapes
    <3>4. QED
      BY <1>0, <1>t, <2>2, <3>2, <3>3
  <2>3. QED
    BY <2>1, <2>2
<1>2. ASSUME NEW n \in Gates, NEW d \in HumanDecisions, ResolveGate(h, n, d)
      PROVE  LastGate(kind, g)'
  <2>1. gates[n] \in ApprovalGate
    BY <1>t
  <2>2. \A k \in Gates : gates'[k].kind = gates[k].kind
    BY <1>t, <1>2, <2>1 DEF ResolveGate, ResolveApprovalGate, ApprovalGate
  <2>3. QED
    BY <1>0, <1>t, <2>2
<1>3. CASE \A k \in Gates : \/ gates'[k] = gates[k]
                            \/ /\ gates'[k].kind = "TOOL_RISK" /\ gates'[k].status # "ABSENT"
                               /\ ~HumanGate(k)
  BY <1>0, <1>t, <1>3 DEF HumanGate
<1>4. QED
  BY <1>1, <1>2, <1>3, HumanGateWrites DEF RequestPlanGate, RequestFinalGate

\* While it is open it stays so until it is answered, by a handler that then
\* applies the answer,
LEMMA OpenGateStays ==
  ASSUME WellFormed, GateShapes, GatesInOrder, NEW h \in Handlers, Step(h),
         NEW kind \in {"ARCHITECTURE", "FINAL"}, Reopened(kind)
  PROVE  Reopened(kind)' \/ AppliesAt(h, kind)'
<1>t. /\ gates \in [Gates -> ApprovalGate] /\ pc \in [Handlers -> Steps]
      /\ job \in [Handlers -> Job]
  BY DEF WellFormed, TypeOK, SessionTypeOK
<1>0. PICK g \in Gates : LastGate(kind, g) /\ gates[g].status = "OPEN"
  BY DEF Reopened
<1>l. LastGate(kind, g)' \/ Reopened(kind)'
  BY <1>0, LastGateStays
<1>g. gates[g].kind = kind
  BY <1>0 DEF LastGate
<1>1. CASE RequestPlanGate(h) \/ RequestFinalGate(h)
  <2>1. gates'[g] = gates[g]
    BY <1>t, <1>0, <1>1 DEF RequestPlanGate, RequestFinalGate, AddApprovalGate
  <2>2. QED
    BY <1>0, <1>l, <2>1 DEF Reopened
<1>2. ASSUME NEW k \in Gates, NEW d \in HumanDecisions, ResolveGate(h, k, d)
      PROVE  Reopened(kind)' \/ AppliesAt(h, kind)'
  <2>1. CASE k # g
    <3>1. gates'[g] = gates[g]
      BY <1>t, <1>2, <2>1 DEF ResolveGate, ResolveApprovalGate
    <3>2. QED
      BY <1>0, <1>l, <3>1 DEF Reopened
  <2>2. CASE k = g
    <3>1. pc'[h] = "applyDecision" /\ job'[h] = [NoJob EXCEPT !.gate = g]
      BY <1>t, <1>2, <2>2 DEF ResolveGate
    <3>2. job'[h].gate = g
      BY <3>1 DEF NoJob
    <3>3. QED
      BY <1>l, <3>1, <3>2 DEF AppliesAt
  <2>3. QED
    BY <2>1, <2>2
<1>3. CASE \A k \in Gates : \/ gates'[k] = gates[k]
                            \/ /\ gates'[k].kind = "TOOL_RISK" /\ gates'[k].status # "ABSENT"
                               /\ ~HumanGate(k)
  <2>1. gates'[g] = gates[g]
    BY <1>g, <1>3 DEF HumanGate
  <2>2. QED
    BY <1>0, <1>l, <2>1 DEF Reopened
<1>4. QED
  BY <1>1, <1>2, <1>3, HumanGateWrites

\* and once it is answered it keeps its answer.
LEMMA AnsweredGateStays ==
  ASSUME WellFormed, GateShapes, GatesInOrder, NEW h \in Handlers, Step(h),
         NEW kind \in {"ARCHITECTURE", "FINAL"}, NEW g \in Gates, LastGate(kind, g),
         gates[g].decision # None
  PROVE  Reopened(kind)' \/ (LastGate(kind, g)' /\ gates'[g] = gates[g])
BY LastGateStays, DecisionsStay

\* The handlers at rest stay at work on the same gate.
LEMMA OthersOnGate ==
  ASSUME WellFormed, GateShapes, GatesInOrder, AppliedIsAnswered, NEW h \in Handlers, Step(h),
         NEW k \in Handlers, k # h
  PROVE  /\ OnGateA(k) => OnGateA(k)' \/ Reopened("ARCHITECTURE")'
         /\ OnGateD(k) => OnGateD(k)' \/ Reopened("FINAL")'
<1>1. pc'[k] = pc[k] /\ job'[k] = job[k]
  BY OthersStay DEF WellFormed
<1>2. \A kind \in {"ARCHITECTURE", "FINAL"} :
        AppliesAt(k, kind) => AppliesAt(k, kind)' \/ Reopened(kind)'
  <2> TAKE kind \in {"ARCHITECTURE", "FINAL"}
  <2> HAVE AppliesAt(k, kind)
  <2>1. PICK g \in Gates : job[k].gate = g /\ LastGate(kind, g)
    BY DEF AppliesAt
  <2>2. LastGate(kind, g)' \/ Reopened(kind)'
    BY <2>1, LastGateStays
  <2>3. QED
    BY <1>1, <2>1, <2>2 DEF AppliesAt
<1>3. QED
  BY <1>1, <1>2 DEF OnGateA, OnGateD

\* Gate A: where the run comes to wait for it, it is requested next; an answer
\* is applied next; and what is applied moves the run or leaves the gate.
LEMMA GateAStaysAwaited ==
  ASSUME WellFormed, GateShapes, GatesInOrder, AppliedIsAnswered, GateAAwaited,
         NEW h \in Handlers, Step(h)
  PROVE  GateAAwaited'
<1> SUFFICES ASSUME state' = "WAITING_ARCHITECT_APPROVAL"
             PROVE  GateALeft' \/ \E k \in Handlers : OnGateA(k)'
  BY DEF GateAAwaited
<1>t. /\ gates \in [Gates -> ApprovalGate] /\ pc \in [Handlers -> Steps]
      /\ job \in [Handlers -> Job]
  BY DEF WellFormed, TypeOK, SessionTypeOK
<1>1. CASE state # "WAITING_ARCHITECT_APPROVAL"
  <2>1. Moves(h)
    BY <1>1, StateWrites DEF WellFormed
  <2>2. Transitions[pc[h]].target = "WAITING_ARCHITECT_APPROVAL"
    BY <2>1 DEF Moves, SetState
  <2>3. Transitions[pc[h]].next = "requestPlanGate"
    BY <2>1, <2>2 DEF Moves, Transitions
  <2>4. QED
    BY <2>1, <2>3 DEF Moves, OnGateA
<1>l. Reopened("ARCHITECTURE")' => GateALeft'
  BY DEF Reopened, GateALeft
<1>2. ASSUME state = "WAITING_ARCHITECT_APPROVAL", GateALeft
      PROVE  GateALeft' \/ \E k \in Handlers : OnGateA(k)'
  <2>1. PICK g \in Gates : /\ LastGate("ARCHITECTURE", g)
                           /\ gates[g].status = "OPEN" \/ gates[g].decision \in {"MODIFY", "CLARIFY"}
    BY <1>2 DEF GateALeft
  <2>2. CASE gates[g].status = "OPEN"
    <3>1. Reopened("ARCHITECTURE")
      BY <2>1, <2>2 DEF Reopened
    <3>2. Reopened("ARCHITECTURE")' \/ AppliesAt(h, "ARCHITECTURE")'
      BY <3>1, OpenGateStays
    <3>3. QED
      BY <1>l, <3>2 DEF OnGateA
  <2>3. CASE gates[g].decision \in {"MODIFY", "CLARIFY"}
    <3>1. gates[g].decision # None
      BY <2>3, NoneIsFresh DEF HumanDecisionType
    <3>2. Reopened("ARCHITECTURE")' \/ (LastGate("ARCHITECTURE", g)' /\ gates'[g] = gates[g])
      BY <2>1, <3>1, AnsweredGateStays
    <3>3. QED
      BY <1>l, <2>3, <3>2 DEF GateALeft
  <2>4. QED
    BY <2>1, <2>2, <2>3
<1>3. ASSUME state = "WAITING_ARCHITECT_APPROVAL", NEW k \in Handlers, OnGateA(k), k # h
      PROVE  GateALeft' \/ \E l \in Handlers : OnGateA(l)'
  BY <1>3, <1>l, OthersOnGate
<1>4. ASSUME state = "WAITING_ARCHITECT_APPROVAL", OnGateA(h)
      PROVE  GateALeft' \/ \E k \in Handlers : OnGateA(k)'
  <2>1. CASE pc[h] = "requestPlanGate"
    <3>1. AddApprovalGate("ARCHITECTURE", job[h].plan) /\ "ARCHITECTURE" \in GateKind
      BY <2>1, StepAt DEF RequestPlanGate, GateKind
    <3>2. Reopened("ARCHITECTURE")'
      BY <3>1, RequestOpens DEF Reopened, WellFormed
    <3>3. QED
      BY <1>l, <3>2
  <2>2. CASE pc[h] \in {"beginExecution", "reject"}
    <3>1. MoveState(h)
      BY <2>2, StepAt DEF Transitions
    <3>2. Transitions[pc[h]].target \in {"EXECUTING", "REJECTED"}
      BY <2>2 DEF Transitions
    <3>3. TransitionAllowed(state, Transitions[pc[h]].target)
      BY <1>4, <3>2 DEF TransitionAllowed, Allowed
    <3>4. SetState(Transitions[pc[h]].target)
      BY <3>1, <3>3 DEF MoveState
    <3>5. state' \in {"EXECUTING", "REJECTED"}
      BY <3>2, <3>4 DEF SetState
    <3>6. QED
      BY <3>5
  <2>3. CASE AppliesAt(h, "ARCHITECTURE")
    <3> DEFINE g == job[h].gate
    <3>2. /\ g \in Gates /\ gates[g].decision # None /\ gates[g] \in ApprovalGate
          /\ gates[g].kind = "ARCHITECTURE" /\ LastGate("ARCHITECTURE", g)
      BY <1>t, <2>3 DEF AppliesAt, AppliedIsAnswered, LastGate
    <3>1. ApplyArchitectureDecision(h)
      BY <2>3, <3>2, StepAt DEF AppliesAt, ApplyFinalDecision
    <3>3. gates[g].decision \in {"APPROVE", "REJECT", "MODIFY", "CLARIFY"}
      BY <3>2 DEF ApprovalGate, HumanDecisionType
    <3>4. gates' = gates
      BY <3>1 DEF ApplyArchitectureDecision, sessionVars
    <3>5. CASE gates[g].decision \in {"APPROVE", "REJECT"}
      <4>1. pc'[h] \in {"beginExecution", "reject"}
        BY <1>4, <1>t, <3>1, <3>5 DEF ApplyArchitectureDecision, Goto
      <4>2. QED
        BY <4>1 DEF OnGateA
    <3>6. CASE gates[g].decision \in {"MODIFY", "CLARIFY"}
      <4>1. LastGate("ARCHITECTURE", g) /\ (\A k \in Gates : gates'[k] = gates[k])
        BY <3>2, <3>4
      <4>2. PICK k \in Gates : k = g
        BY <3>2
      <4>3. LastGate("ARCHITECTURE", k)' /\ gates'[k].decision = gates[g].decision
        BY <4>1, <4>2 DEF LastGate
      <4>4. QED
        BY <3>6, <4>3 DEF GateALeft
    <3>7. QED
      BY <3>3, <3>5, <3>6
  <2>4. QED
    BY <1>4, <2>1, <2>2, <2>3 DEF OnGateA
<1>5. QED
  BY <1>1, <1>2, <1>3, <1>4 DEF GateAAwaited

\* A Gate D that was left for good stays so: the count of revisions does not
\* go back.
LEMMA GateDLeftStays ==
  ASSUME WellFormed, GateShapes, GatesInOrder, GateDLeft, NEW h \in Handlers, Step(h)
  PROVE  GateDLeft' \/ OnGateD(h)'
<1>1. PICK g \in Gates : /\ LastGate("FINAL", g)
                         /\ \/ gates[g].status = "OPEN"
                            \/ gates[g].decision = "CLARIFY"
                            \/ gates[g].decision = "MODIFY" /\ revisions >= MaxRevisions
  BY DEF GateDLeft
<1>l. Reopened("FINAL")' => GateDLeft'
  BY DEF Reopened, GateDLeft
<1>2. CASE gates[g].status = "OPEN"
  <2>1. Reopened("FINAL")
    BY <1>1, <1>2 DEF Reopened
  <2>2. Reopened("FINAL")' \/ AppliesAt(h, "FINAL")'
    BY <2>1, OpenGateStays
  <2>3. QED
    BY <1>l, <2>2 DEF OnGateD
<1>3. CASE \/ gates[g].decision = "CLARIFY"
           \/ gates[g].decision = "MODIFY" /\ revisions >= MaxRevisions
  <2>1. gates[g].decision # None
    BY <1>3, NoneIsFresh DEF HumanDecisionType
  <2>2. Reopened("FINAL")' \/ (LastGate("FINAL", g)' /\ gates'[g] = gates[g])
    BY <1>1, <2>1, AnsweredGateStays
  <2>3. revisions \in Nat /\ revisions' \in Nat /\ revisions <= revisions' /\ MaxRevisions \in Nat
    BY RevisionsGrow, MaxRevisionsAssumption DEF WellFormed, TypeOK, SessionTypeOK
  <2>4. revisions >= MaxRevisions => revisions' >= MaxRevisions
    BY <2>3
  <2>5. QED
    BY <1>l, <1>3, <2>2, <2>4 DEF GateDLeft
<1>4. QED
  BY <1>1, <1>2, <1>3

\* The answer to the last Gate D: an approval goes on to finalize, for there is
\* evidence on record, a MODIFY to the revision service.
LEMMA GateDApplied ==
  ASSUME WellFormed, AppliedIsAnswered, QAOnRecord, NEW h \in Handlers, Step(h),
         AppliesAt(h, "FINAL"), state = "WAITING_FINAL_APPROVAL"
  PROVE  GateDLeft' \/ OnGateD(h)' \/ RevisesFinal(h)'
<1>t. /\ gates \in [Gates -> ApprovalGate] /\ pc \in [Handlers -> Steps]
      /\ job \in [Handlers -> Job]
  BY DEF WellFormed, TypeOK, SessionTypeOK
<1>1. PICK g \in Gates : job[h].gate = g /\ LastGate("FINAL", g)
  BY DEF AppliesAt
<1>2. gates[g].decision # None /\ gates[g] \in ApprovalGate /\ gates[g].kind = "FINAL"
  BY <1>t, <1>1 DEF AppliesAt, AppliedIsAnswered, LastGate
<1>a. ApplyFinalDecision(h)
  BY <1>1, <1>2, StepAt DEF AppliesAt, ApplyArchitectureDecision
<1>3. gates[g].decision \in {"APPROVE", "REJECT", "MODIFY", "CLARIFY"}
  BY <1>2 DEF ApprovalGate, HumanDecisionType
<1>4. gates' = gates /\ qa # None
  BY <1>a, <1>2 DEF ApplyFinalDecision, sessionVars, QAOnRecord
<1>l. LastGate("FINAL", g)' /\ gates'[g] = gates[g]
  BY <1>1, <1>4 DEF LastGate
<1>5. CASE gates[g].decision \in {"APPROVE", "REJECT"}
  <2>1. pc'[h] \in {"finalize", "reject"}
    BY <1>t, <1>a, <1>1, <1>4, <1>5 DEF ApplyFinalDecision, Goto
  <2>2. QED
    BY <2>1 DEF OnGateD
<1>6. CASE gates[g].decision = "MODIFY"
  <2>1. pc'[h] = "revise"
    BY <1>t, <1>a, <1>1, <1>6 DEF ApplyFinalDecision, Goto
  <2>2. QED
    BY <1>6, <1>l, <2>1 DEF RevisesFinal
<1>7. CASE gates[g].decision = "CLARIFY"
  BY <1>7, <1>l DEF GateDLeft
<1>8. QED
  BY <1>3, <1>5, <1>6, <1>7

\* The revision that a MODIFY of Gate D asks for takes the run out of the state,
\* or is refused at the limit.
LEMMA FinalRevised ==
  ASSUME WellFormed, NEW h \in Handlers, Step(h), RevisesFinal(h),
         state = "WAITING_FINAL_APPROVAL", state' = state
  PROVE  GateDLeft' \/ RevisesFinal(h)'
<1>t. pc \in [Handlers -> Steps] /\ revisions \in Nat /\ MaxRevisions \in Nat
  BY MaxRevisionsAssumption DEF WellFormed, TypeOK, SessionTypeOK
<1>1. PICK g \in Gates : LastGate("FINAL", g) /\ gates[g].decision = "MODIFY"
  BY DEF RevisesFinal
<1>l. gates' = gates => LastGate("FINAL", g)' /\ gates'[g].decision = "MODIFY"
  BY <1>1 DEF LastGate
<1>2. CASE pc[h] = "revise"
  <2>1. RequestRevision(h) /\ gates' = gates /\ revisions' = revisions
    BY <1>2, StepAt DEF RequestRevision, sessionVars
  <2>2. CASE revisions < MaxRevisions
    <3>1. pc'[h] = "revision"
      BY <1>t, <2>1, <2>2 DEF RequestRevision, Goto, RevisableStates
    <3>2. QED
      BY <1>l, <2>1, <3>1 DEF RevisesFinal
  <2>3. CASE ~(revisions < MaxRevisions)
    <3>1. revisions >= MaxRevisions
      BY <1>t, <2>3
    <3>2. QED
      BY <1>l, <2>1, <3>1 DEF GateDLeft
  <2>4. QED
    BY <2>2, <2>3
<1>3. CASE pc[h] = "revision"
  <2>1. EnterRevision(h)
    BY <1>3, StepAt
  <2>2. pc'[h] = "enterRevision" /\ gates' = gates
    BY <1>t, <2>1 DEF EnterRevision, RevisableStates, Goto, sessionVars
  <2>3. QED
    BY <1>l, <2>2 DEF RevisesFinal
<1>4. CASE pc[h] = "enterRevision"
  <2>1. MoveState(h) /\ Transitions[pc[h]].target = "REVISION"
    BY <1>4, StepAt DEF Transitions
  <2>2. TransitionAllowed(state, "REVISION")
    BY DEF TransitionAllowed, Allowed
  <2>3. state' = "REVISION"
    BY <2>1, <2>2 DEF MoveState, SetState
  <2>4. QED
    BY <2>3
<1>5. QED
  BY <1>2, <1>3, <1>4 DEF RevisesFinal

LEMMA GateDStaysAwaited ==
  ASSUME WellFormed, GateShapes, GatesInOrder, AppliedIsAnswered, QAOnRecord, GateDAwaited,
         NEW h \in Handlers, Step(h)
  PROVE  GateDAwaited'
<1> SUFFICES ASSUME state' = "WAITING_FINAL_APPROVAL"
             PROVE  GateDLeft' \/ \E k \in Handlers : OnGateD(k)' \/ RevisesFinal(k)'
  BY DEF GateDAwaited
<1>t. pc \in [Handlers -> Steps] /\ job \in [Handlers -> Job]
  BY DEF WellFormed, TypeOK
<1>1. CASE state # "WAITING_FINAL_APPROVAL"
  <2>1. Moves(h)
    BY <1>1, StateWrites DEF WellFormed
  <2>2. Transitions[pc[h]].target = "WAITING_FINAL_APPROVAL"
    BY <2>1 DEF Moves, SetState
  <2>3. Transitions[pc[h]].next = "requestFinalGate"
    BY <2>1, <2>2 DEF Moves, Transitions
  <2>4. QED
    BY <2>1, <2>3 DEF Moves, OnGateD
<1>l. Reopened("FINAL")' => GateDLeft'
  BY DEF Reopened, GateDLeft
<1>2. ASSUME state = "WAITING_FINAL_APPROVAL", NEW k \in Handlers, k # h,
             OnGateD(k) \/ RevisesFinal(k)
      PROVE  GateDLeft' \/ OnGateD(k)' \/ RevisesFinal(k)'
  <2>1. CASE OnGateD(k)
    BY <1>2, <1>l, <2>1, OthersOnGate
  <2>2. CASE RevisesFinal(k)
    <3>1. PICK g \in Gates : LastGate("FINAL", g) /\ gates[g].decision = "MODIFY"
      BY <2>2 DEF RevisesFinal
    <3>2. gates[g].decision # None
      BY <3>1, NoneIsFresh DEF HumanDecisionType
    <3>3. Reopened("FINAL")' \/ (LastGate("FINAL", g)' /\ gates'[g] = gates[g])
      BY <3>1, <3>2, AnsweredGateStays
    <3>4. pc'[k] = pc[k]
      BY <1>2, OthersStay DEF WellFormed
    <3>5. QED
      BY <1>l, <2>2, <3>1, <3>3, <3>4 DEF RevisesFinal
  <2>3. QED
    BY <1>2, <2>1, <2>2
<1>3. ASSUME state = "WAITING_FINAL_APPROVAL", OnGateD(h)
      PROVE  GateDLeft' \/ OnGateD(h)' \/ RevisesFinal(h)'
  <2>1. CASE pc[h] = "requestFinalGate"
    <3>1. AddApprovalGate("FINAL", job[h].evidence) /\ "FINAL" \in GateKind
      BY <2>1, StepAt DEF RequestFinalGate, GateKind
    <3>2. Reopened("FINAL")'
      BY <3>1, RequestOpens DEF Reopened, WellFormed
    <3>3. QED
      BY <1>l, <3>2
  <2>2. CASE pc[h] = "finalize"
    <3>1. pc'[h] = "complete"
      BY <1>t, <2>2, StepAt DEF Finalize, Goto
    <3>2. QED
      BY <3>1 DEF OnGateD
  <2>3. CASE pc[h] \in {"complete", "reject"}
    <3>1. MoveState(h)
      BY <2>3, StepAt DEF Transitions
    <3>2. Transitions[pc[h]].target \in {"COMPLETED", "REJECTED"}
      BY <2>3 DEF Transitions
    <3>3. TransitionAllowed(state, Transitions[pc[h]].target)
      BY <1>3, <3>2 DEF TransitionAllowed, Allowed
    <3>4. state' \in {"COMPLETED", "REJECTED"}
      BY <3>1, <3>2, <3>3 DEF MoveState, SetState
    <3>5. QED
      BY <3>4
  <2>4. CASE AppliesAt(h, "FINAL")
    BY <1>3, <2>4, GateDApplied
  <2>5. QED
    BY <1>3, <2>1, <2>2, <2>3, <2>4 DEF OnGateD
<1>4. QED
  BY <1>1, <1>2, <1>3, GateDLeftStays, FinalRevised DEF GateDAwaited

\* WaitingInv holds throughout.
LEMMA WaitingInvariance == Spec => [](WellFormed /\ WaitingInv)
<1>1. Init => WaitingInv
  BY NoneIsFresh DEF GateKind, Init, CoordinatorInit, CreateSession, NoGate, WaitingInv,
     GateShapes, GatesInOrder, AppliedIsAnswered, QAOnRecord, GateAAwaited, GateDAwaited
<1>2. WellFormed /\ WaitingInv /\ [Next]_vars => WaitingInv'
  <2> SUFFICES ASSUME WellFormed, WaitingInv, [Next]_vars PROVE WaitingInv'
    OBVIOUS
  <2>1. ASSUME NEW h \in Handlers, Step(h) PROVE WaitingInv'
    <3>1. GateShapes' /\ GatesInOrder' /\ AppliedIsAnswered' /\ QAOnRecord'
      BY <2>1, KindsStay, OrderStays, AppliedStays, QAStays DEF WaitingInv
    <3>2. crashes = 0 => GateAAwaited' /\ GateDAwaited'
      BY <2>1, GateAStaysAwaited, GateDStaysAwaited DEF WaitingInv
    <3>3. QED
      BY <2>1, <3>1, <3>2, CrashesStay DEF WaitingInv
  <2>2. CASE Crash
    <3>1. crashes' # 0
      BY <2>2, MaxCrashesAssumption DEF Crash, WellFormed, TypeOK
    <3>2. gates' = gates /\ qa' = qa /\ \A h \in Handlers : pc'[h] = "idle"
      BY <2>2 DEF Crash, sessionVars
    <3>3. GateShapes' /\ GatesInOrder' /\ AppliedIsAnswered' /\ QAOnRecord'
      BY <3>2 DEF WaitingInv, GateShapes, GatesInOrder, AppliedIsAnswered, QAOnRecord
    <3>4. QED
      BY <3>1, <3>3 DEF WaitingInv
  <2>3. CASE UNCHANGED vars
    BY <2>3 DEF vars, handlerVars, sessionVars, hostVars, WaitingInv, GateShapes, GatesInOrder,
       LastGate, AppliedIsAnswered, HumanGate, QAOnRecord, GateAAwaited, GateDAwaited,
       GateALeft, GateDLeft, OnGateA, OnGateD, RevisesFinal, AppliesAt
  <2>4. QED
    BY <2>1, <2>2, <2>3 DEF Next
<1>3. IInv => WellFormed
  BY DEF IInv
<1>4. QED
  BY <1>1, <1>2, <1>3, Invariance, PTL DEF Spec

\* Without a crash, a run that nobody works on and that waits for a human has a
\* gate to be answered, or one whose answer left it there: however many tabs
\* there are, no answer is lost (runtime/service.py:120-164, 202-272).
THEOREM NoAnswerIsLost == Spec => []WaitingRunHasGate
<1>1. WaitingInv => WaitingRunHasGate
  BY DEF WaitingInv, GateAAwaited, GateDAwaited, WaitingRunHasGate, Idle, OnGateA, OnGateD,
     RevisesFinal, AppliesAt
<1>2. QED
  BY <1>1, WaitingInvariance, PTL
-------------------------------------------------------------------------------
(* Every handler descends.                                                 *)

RevisionPath == {"revise"} \cup RevisionSection

LoopWork ==
  {"dispatch", "authorize", "requestToolGate", "markWaiting", "running", "writeOutputs"}

\* The ranks and the levels.
LEMMA RankType == Rank \in [Steps -> 0..21]
<1>1. DOMAIN Rank = Steps
  BY DEF Rank, Steps, CoordinatorSteps, OrchestratorSteps, Transitions
<1>2. \A step \in DOMAIN Rank : Rank[step] \in 0..21
  BY DEF Rank
<1>3. Rank = [step \in DOMAIN Rank |-> Rank[step]]
  BY DEF Rank
<1>4. QED
  BY <1>1, <1>2, <1>3

LEMMA RankValues ==
  /\ Rank["idle"] = 0 /\ \A step \in Steps \ {"idle"} : Rank[step] > 0
  /\ \A step \in RevisionPath : Rank[step] \in 5..9
  /\ \A step \in LoopWork : Rank[step] = 17
  /\ Rank["evaluate"] = 10
<1>1. Rank["idle"] = 0 /\ Rank["evaluate"] = 10
  BY DEF Rank
<1>2. \A step \in Steps \ {"idle"} : Rank[step] > 0
  BY DEF Rank, Steps, CoordinatorSteps, OrchestratorSteps, Transitions
<1>3. \A step \in RevisionPath : Rank[step] \in 5..9
  BY DEF Rank, RevisionPath, RevisionSection
<1>4. \A step \in LoopWork : Rank[step] = 17
  BY DEF Rank, LoopWork
<1>5. QED
  BY <1>1, <1>2, <1>3, <1>4

LEMMA Levels ==
  ASSUME NEW step \in Steps, NEW reviser
  PROVE  /\ Level(step, reviser) \in Nat /\ Rank[step] \in Nat
         /\ step \notin RevisionPath => Level(step, reviser) = Rank[step]
         /\ step \in RevisionPath =>
              /\ Level(step, reviser) \in 5..15
              /\ Level(step, reviser) = Rank[step] + (IF reviser = "recovery" THEN 6 ELSE 0)
<1>1. Rank[step] \in 0..21
  BY RankType
<1>2. step \in RevisionPath => Rank[step] \in 5..9
  BY RankValues
<1>3. CASE step \in RevisionPath /\ reviser = "recovery"
  <2>1. Level(step, reviser) = Rank[step] + 6
    BY <1>3 DEF Level, RevisionPath
  <2>2. QED
    BY <1>1, <1>2, <1>3, <2>1
<1>4. CASE ~(step \in RevisionPath /\ reviser = "recovery")
  <2>1. Level(step, reviser) = Rank[step]
    BY <1>1, <1>4 DEF Level, RevisionPath
  <2>2. QED
    BY <1>1, <1>2, <1>4, <2>1
<1>5. QED
  BY <1>3, <1>4

\* A step that leads down the ranks descends: outside the revisions, into one
\* from above them all, and within one by the same service.
LEMMA DescendsByRank ==
  ASSUME TypeOK, TypeOK', NEW h \in Handlers,
         \/ Rank[pc'[h]] < Rank[pc[h]] /\ pc'[h] \notin RevisionPath
         \/ pc'[h] \in RevisionPath /\ pc[h] \notin RevisionPath /\ Rank[pc[h]] > 15
         \/ /\ Rank[pc'[h]] < Rank[pc[h]] /\ pc'[h] \in RevisionPath /\ pc[h] \in RevisionPath
            /\ job'[h].reviser = job[h].reviser
  PROVE  Descends(h)
<1>t. pc[h] \in Steps /\ pc'[h] \in Steps
  BY DEF TypeOK
<1> DEFINE old == job[h].reviser
           new == job'[h].reviser
<1>1. Level(pc'[h], new) < Level(pc[h], old)
  <2>1. CASE Rank[pc'[h]] < Rank[pc[h]] /\ pc'[h] \notin RevisionPath
    <3>1. Level(pc'[h], new) = Rank[pc'[h]] /\ Rank[pc'[h]] \in Nat /\ Rank[pc[h]] \in Nat
      BY <1>t, <2>1, Levels
    <3>2. Level(pc[h], old) = Rank[pc[h]] \/ Level(pc[h], old) = Rank[pc[h]] + 6
      BY <1>t, Levels
    <3>3. QED
      BY <2>1, <3>1, <3>2
  <2>2. CASE pc'[h] \in RevisionPath /\ pc[h] \notin RevisionPath /\ Rank[pc[h]] > 15
    <3>1. Level(pc'[h], new) \in 5..15 /\ Level(pc[h], old) = Rank[pc[h]] /\ Rank[pc[h]] \in Nat
      BY <1>t, <2>2, Levels
    <3>2. QED
      BY <2>2, <3>1
  <2>3. CASE /\ Rank[pc'[h]] < Rank[pc[h]] /\ pc'[h] \in RevisionPath /\ pc[h] \in RevisionPath
             /\ new = old
    <3>1. /\ Level(pc'[h], new) = Rank[pc'[h]] + (IF new = "recovery" THEN 6 ELSE 0)
          /\ Level(pc[h], old) = Rank[pc[h]] + (IF old = "recovery" THEN 6 ELSE 0)
          /\ Rank[pc'[h]] \in Nat /\ Rank[pc[h]] \in Nat
      BY <1>t, <2>3, Levels
    <3>2. QED
      BY <2>3, <3>1
  <2>4. QED
    BY <2>1, <2>2, <2>3
<1>2. QED
  BY <1>1 DEF Descends, Height

\* Within the work of execute_run, the first of the four sets that changes
\* shrinks.
LEMMA DescendsByLoad ==
  ASSUME NEW h \in Handlers, pc[h] \in LoopWork, pc'[h] \in LoopWork,
         LET j == job[h] k == job'[h] IN
           \/ k.todo \subseteq j.todo /\ k.todo # j.todo
           \/ /\ k.todo = j.todo
              /\ k.batch \subseteq j.batch /\ k.batch # j.batch
           \/ /\ k.todo = j.todo /\ k.batch = j.batch
              /\ k.running \subseteq j.running /\ k.running # j.running
           \/ /\ k.todo = j.todo /\ k.batch = j.batch /\ k.running = j.running
              /\ k.done \subseteq j.done /\ k.done # j.done
  PROVE  Descends(h)
<1>1. Height(h)' = Height(h)
  BY RankValues DEF Height, Level, LoopWork, RevisionSection
<1>2. Lighter(h)
  <2> DEFINE L == Load(h)
  <2>1. /\ L[1] = job[h].todo /\ L[2] = job[h].batch
        /\ L[3] = job[h].running /\ L[4] = job[h].done
    BY DEF Load
  <2>2. /\ L'[1] = job'[h].todo /\ L'[2] = job'[h].batch
        /\ L'[3] = job'[h].running /\ L'[4] = job'[h].done
    BY DEF Load
  <2> HIDE DEF L
  <2>3. \E i \in 1..4 : /\ L'[i] \subseteq L[i] /\ L'[i] # L[i]
                        /\ \A k \in 1..(i - 1) : L'[k] = L[k]
    <3>1. CASE L'[1] \subseteq L[1] /\ L'[1] # L[1]
      BY <3>1
    <3>2. CASE L'[1] = L[1] /\ L'[2] \subseteq L[2] /\ L'[2] # L[2]
      <4>1. \A k \in 1..(2 - 1) : k = 1
        OBVIOUS
      <4>2. QED
        BY <3>2, <4>1
    <3>3. CASE L'[1] = L[1] /\ L'[2] = L[2] /\ L'[3] \subseteq L[3] /\ L'[3] # L[3]
      <4>1. \A k \in 1..(3 - 1) : k = 1 \/ k = 2
        OBVIOUS
      <4>2. QED
        BY <3>3, <4>1
    <3>4. CASE /\ L'[1] = L[1] /\ L'[2] = L[2] /\ L'[3] = L[3]
               /\ L'[4] \subseteq L[4] /\ L'[4] # L[4]
      <4>1. \A k \in 1..(4 - 1) : k = 1 \/ k = 2 \/ k = 3
        OBVIOUS
      <4>2. QED
        BY <3>4, <4>1
    <3>5. QED
      BY <2>1, <2>2, <3>1, <3>2, <3>3, <3>4
  <2>4. QED
    BY <2>3 DEF L, Lighter
<1>3. QED
  BY <1>1, <1>2 DEF Descends

\* Asking for a Gate C takes two more steps, over the same work.
LEMMA DescendsByAsking ==
  ASSUME NEW h \in Handlers, pc[h] \in LoopWork, pc'[h] \in LoopWork,
         /\ job'[h].todo = job[h].todo /\ job'[h].batch = job[h].batch
         /\ job'[h].running = job[h].running /\ job'[h].done = job[h].done,
         \/ pc[h] = "requestToolGate" /\ pc'[h] = "markWaiting"
         \/ pc[h] = "markWaiting" /\ pc'[h] \notin {"requestToolGate", "markWaiting"}
  PROVE  Descends(h)
<1>1. Height(h)' = Height(h)
  BY RankValues DEF Height, Level, LoopWork, RevisionSection
<1>2. Load(h)' = Load(h)
  BY DEF Load
<1>3. Asking(h)' < Asking(h)
  BY DEF Asking
<1>4. QED
  BY <1>1, <1>2, <1>3 DEF Descends

\* The steps of the coordinator lead down the ranks.
LEMMA CoordinatorDescends ==
  ASSUME WellFormed, TypeOK', NEW h \in Handlers, pc[h] # "idle", CoordinatorStep(h)
  PROVE  Descends(h)
<1>t. pc \in [Handlers -> Steps] /\ job \in [Handlers -> Job] /\ TypeOK
  BY DEF WellFormed, TypeOK
<1>g. ASSUME NEW step, NEW j, Goto(h, step, j)
      PROVE  pc'[h] = step /\ (step # "idle" => job'[h] = j)
  BY <1>g, <1>t DEF Goto
<1>1. CASE \/ BuildArchitecture(h) \/ StorePlan(h) \/ PlanFails(h) \/ RequestPlanGate(h)
           \/ Finalize(h) \/ RecordSupervisorResult(h) \/ RecomputeEvidence(h)
           \/ RecordQA(h) \/ RequestFinalGate(h)
           \/ ReconcileLocal(h) \/ ReconcileBackend(h) \/ ReconcileNothing(h)
  <2>1. CASE BuildArchitecture(h) \/ StorePlan(h) \/ PlanFails(h) \/ RequestPlanGate(h) \/ Finalize(h)
    <3>1. \/ pc[h] = "build" /\ pc'[h] \in {"planning", "idle"}
          \/ pc[h] = "planning" /\ pc'[h] \in {"awaitPlanDecision", "idle"}
          \/ pc[h] = "requestPlanGate" /\ pc'[h] = "idle"
          \/ pc[h] = "finalize" /\ pc'[h] = "complete"
      BY <2>1, <1>g DEF BuildArchitecture, StorePlan, PlanFails, RequestPlanGate, Finalize
    <3>2. Rank[pc'[h]] < Rank[pc[h]] /\ pc'[h] \notin RevisionPath
      BY <3>1 DEF Rank, RevisionPath, RevisionSection
    <3>3. QED
      BY <1>t, <3>2, DescendsByRank
  <2>2. CASE RecordSupervisorResult(h) \/ RecomputeEvidence(h) \/ RecordQA(h) \/ RequestFinalGate(h)
    <3>1. \/ pc[h] = "record" /\ pc'[h] \in {"recompute", "idle"}
          \/ pc[h] = "recompute" /\ pc'[h] \in {"recordQA", "idle"}
          \/ pc[h] = "recordQA" /\ pc'[h] = "awaitFinal"
          \/ pc[h] = "requestFinalGate" /\ pc'[h] = "idle"
      BY <2>2, <1>g DEF RecordSupervisorResult, RecomputeEvidence, RecordQA, RequestFinalGate
    <3>2. Rank[pc'[h]] < Rank[pc[h]] /\ pc'[h] \notin RevisionPath
      BY <3>1 DEF Rank, RevisionPath, RevisionSection
    <3>3. QED
      BY <1>t, <3>2, DescendsByRank
  <2>3. CASE ReconcileLocal(h) \/ ReconcileBackend(h) \/ ReconcileNothing(h)
    <3>1. pc[h] = "reconcile" /\ pc'[h] \in {"supervise", "superviseFailure", "idle"}
      BY <2>3, <1>g DEF ReconcileLocal, ReconcileBackend, ReconcileNothing, AfterReconciliation
    <3>2. Rank[pc'[h]] < Rank[pc[h]] /\ pc'[h] \notin RevisionPath
      BY <3>1 DEF Rank, RevisionPath, RevisionSection
    <3>3. QED
      BY <1>t, <3>2, DescendsByRank
  <2>4. QED
    BY <1>1, <2>1, <2>2, <2>3
<1>2. CASE ApplyArchitectureDecision(h) \/ ApplyFinalDecision(h)
  <2>1. /\ pc[h] = "applyDecision"
        /\ pc'[h] \in {"idle", "beginExecution", "reject", "finalize", "revise"}
    BY <1>2, <1>g DEF ApplyArchitectureDecision, ApplyFinalDecision
  <2>2. CASE pc'[h] = "revise"
    <3>1. pc[h] \notin RevisionPath /\ Rank[pc[h]] > 15 /\ pc'[h] \in RevisionPath
      BY <2>1, <2>2 DEF Rank, RevisionPath, RevisionSection
    <3>2. QED
      BY <1>t, <3>1, DescendsByRank
  <2>3. CASE pc'[h] # "revise"
    <3>1. Rank[pc'[h]] < Rank[pc[h]] /\ pc'[h] \notin RevisionPath
      BY <2>1, <2>3 DEF Rank, RevisionPath, RevisionSection
    <3>2. QED
      BY <1>t, <3>1, DescendsByRank
  <2>4. QED
    BY <2>2, <2>3
<1>3. CASE RequestRevision(h) \/ EnterRevision(h)
  <2>1. /\ \/ pc[h] = "revise" /\ pc'[h] \in {"revision", "idle"}
           \/ /\ pc[h] = "revision"
              /\ pc'[h] \in {"enterRevision", "rearchitect", "recordRevision"}
        /\ pc'[h] # "idle" => job'[h] = job[h]
    BY <1>3, <1>g DEF RequestRevision, EnterRevision
  <2>2. /\ Rank[pc'[h]] < Rank[pc[h]] /\ pc[h] \in RevisionPath
        /\ pc'[h] # "idle" => pc'[h] \in RevisionPath
        /\ pc'[h] = "idle" => pc'[h] \notin RevisionPath
    BY <2>1 DEF Rank, RevisionPath, RevisionSection
  <2>3. QED
    BY <1>t, <2>1, <2>2, DescendsByRank
<1>4. CASE RecordRevision(h)
  <2>1. /\ pc[h] = "recordRevision"
        /\ \/ pc'[h] \in {"build", "idle"}
           \/ pc'[h] = "evaluate" /\ job[h].reviser = "recovery"
    BY <1>4, <1>g DEF RecordRevision
  <2>2. CASE pc'[h] \in {"build", "idle"}
    <3>1. Rank[pc'[h]] < Rank[pc[h]] /\ pc'[h] \notin RevisionPath
      BY <2>1, <2>2 DEF Rank, RevisionPath, RevisionSection
    <3>2. QED
      BY <1>t, <3>1, DescendsByRank
  <2>3. CASE pc'[h] = "evaluate" /\ job[h].reviser = "recovery"
    <3>1. Level(pc[h], job[h].reviser) = 11 /\ Level(pc'[h], job'[h].reviser) = 10
      BY <2>1, <2>3 DEF Level, Rank, RevisionSection
    <3>2. QED
      BY <3>1 DEF Descends, Height
  <2>4. QED
    BY <2>1, <2>2, <2>3
<1>5. CASE Evaluate(h)
  <2>1. \E step \in {"record", "revise", "fail"} :
          Goto(h, step, [job[h] EXCEPT !.evidence = Evidence, !.reviser = "coordinator"])
    BY <1>5 DEF Evaluate, QAStatus
  <2>2. [job[h] EXCEPT !.evidence = Evidence, !.reviser = "coordinator"].reviser = "coordinator"
    BY <1>t DEF Job
  <2>3. /\ pc[h] = "evaluate" /\ pc'[h] \in {"record", "revise", "fail"}
        /\ job'[h].reviser = "coordinator"
    BY <1>5, <2>1, <2>2, <1>g DEF Evaluate
  <2>4. /\ Level(pc[h], job[h].reviser) = 10
        /\ Level(pc'[h], job'[h].reviser) \in {1, 5, 9}
    BY <2>3 DEF Level, Rank, RevisionSection
  <2>5. QED
    BY <2>4 DEF Descends, Height
<1>6. CASE MoveState(h)
  <2>1. \A step \in DOMAIN Transitions :
          /\ Rank[Transitions[step].next] < Rank[step] /\ Rank["idle"] < Rank[step]
          /\ Transitions[step].next \in RevisionPath =>
               \/ step \in {"rearchitect", "enterRevision"} /\ step \in RevisionPath
               \/ step = "superviseFailure" /\ step \notin RevisionPath /\ Rank[step] > 15
    BY DEF Transitions, Rank, RevisionPath, RevisionSection
  <2>2. /\ pc[h] \in DOMAIN Transitions
        /\ \/ pc'[h] = "idle"
           \/ pc'[h] = Transitions[pc[h]].next /\ (pc'[h] # "idle" => job'[h] = job[h])
    BY <1>6, <1>g DEF MoveState
  <2>3. "idle" \notin RevisionPath
    BY DEF RevisionPath, RevisionSection
  <2>4. QED
    BY <1>t, <2>1, <2>2, <2>3, DescendsByRank
<1>7. QED
  BY <1>1, <1>2, <1>3, <1>4, <1>5, <1>6 DEF CoordinatorStep, StartRun, ResolveGate,
     RecoverArchitecture, RecoverSupervision, RecoverExecution, Callback

\* execute_run works off its batches, and what precedes and follows it leads
\* down the ranks.
LEMMA OrchestratorDescends ==
  ASSUME WellFormed, TypeOK', NEW h \in Handlers, pc[h] # "idle", OrchestratorStep(h)
  PROVE  Descends(h)
<1>t. pc \in [Handlers -> Steps] /\ job \in [Handlers -> Job] /\ TypeOK /\ job[h] \in Job
  BY DEF WellFormed, TypeOK
<1>g. ASSUME NEW step, NEW j, Goto(h, step, j)
      PROVE  pc'[h] = step /\ (step # "idle" => job'[h] = j)
  BY <1>g, <1>t DEF Goto
<1>b. \A j : AfterBatch(j) \in {"pause", "dispatch", "supervise"}
  BY DEF AfterBatch
<1>a. \A j : AfterAuthorization(j) \in {"authorize", "running", "pause", "dispatch", "supervise"}
  BY <1>b DEF AfterAuthorization
<1>c. \A j : AfterThread(j) \in {"running", "idle", "writeOutputs"}
  BY DEF AfterThread
<1>d. ASSUME pc[h] \in LoopWork, pc'[h] \in {"pause", "supervise", "idle"} PROVE Descends(h)
  <2>1. Rank[pc'[h]] < Rank[pc[h]] /\ pc'[h] \notin RevisionPath
    BY <1>d DEF Rank, LoopWork, RevisionPath, RevisionSection
  <2>2. QED
    BY <1>t, <2>1, DescendsByRank
<1>1. CASE ExecuteRun(h) \/ \E d \in HumanDecisions : ResolveToolGate(h, d)
  <2>1. \/ pc[h] = "execute" /\ pc'[h] \in {"dispatch", "idle"}
        \/ pc[h] = "resolveToolGate" /\ pc'[h] \in {"toolOutput", "idle"}
    BY <1>1, <1>g DEF ExecuteRun, ResolveToolGate
  <2>2. Rank[pc'[h]] < Rank[pc[h]] /\ pc'[h] \notin RevisionPath
    BY <2>1 DEF Rank, RevisionPath, RevisionSection
  <2>3. QED
    BY <1>t, <2>2, DescendsByRank
<1>2. CASE WriteToolDecision(h)
  <2>1. pc[h] = "toolOutput" /\ pc'[h] \in {"beginExecution", "revise"}
    BY <1>2, <1>g DEF WriteToolDecision
  <2>2. \/ Rank[pc'[h]] < Rank[pc[h]] /\ pc'[h] \notin RevisionPath
        \/ pc'[h] \in RevisionPath /\ pc[h] \notin RevisionPath /\ Rank[pc[h]] > 15
    BY <2>1 DEF Rank, RevisionPath, RevisionSection
  <2>3. QED
    BY <1>t, <2>2, DescendsByRank
<1>3. CASE PreparationRaises(h)
  <2>1. pc[h] \in LoopWork /\ pc'[h] = "idle"
    BY <1>3, <1>g DEF PreparationRaises, LoopWork
  <2>2. QED
    BY <1>d, <2>1
<1>4. CASE NextBatch(h)
  <2>1. PICK batch \in (SUBSET job[h].todo) \ {{}} :
          Goto(h, "authorize", [job[h] EXCEPT !.batch = batch, !.todo = @ \ batch])
    BY <1>4 DEF NextBatch
  <2> DEFINE j == [job[h] EXCEPT !.batch = batch, !.todo = @ \ batch]
  <2>2. Goto(h, "authorize", j) /\ j.todo = job[h].todo \ batch
    BY <1>t, <2>1 DEF Job
  <2> HIDE DEF j
  <2>3. pc[h] = "dispatch" /\ pc'[h] = "authorize" /\ job'[h].todo = job[h].todo \ batch
    BY <1>4, <2>2, <1>g DEF NextBatch
  <2>4. job'[h].todo \subseteq job[h].todo /\ job'[h].todo # job[h].todo
    <3>1. PICK w \in batch : w \in job[h].todo
      BY <2>1
    <3>2. QED
      BY <2>3, <3>1
  <2>5. QED
    BY <2>3, <2>4, DescendsByLoad DEF LoopWork
<1>5. ASSUME NEW w \in Workers,
             SkipWorker(h, w) \/ AuthorizeWorker(h, w) \/ PlanningError(h, w) \/ NeedToolGate(h, w)
      PROVE  Descends(h)
  <2>1. pc[h] = "authorize" /\ w \in job[h].batch
    BY <1>5 DEF SkipWorker, AuthorizeWorker, PlanningError, NeedToolGate
  <2>2. PICK step, j : /\ Goto(h, step, j)
                       /\ step \in {"pause", "supervise"} \cup LoopWork
                       /\ j.todo = job[h].todo /\ j.batch = job[h].batch \ {w}
    <3>1. CASE SkipWorker(h, w) \/ PlanningError(h, w)
      <4> DEFINE j == [job[h] EXCEPT !.batch = @ \ {w}]
      <4>1. Goto(h, AfterAuthorization(j), j)
        BY <3>1 DEF SkipWorker, PlanningError
      <4>2. j.todo = job[h].todo /\ j.batch = job[h].batch \ {w}
        BY <1>t DEF Job
      <4> HIDE DEF j
      <4>3. QED
        BY <1>a, <4>1, <4>2 DEF LoopWork
    <3>2. CASE AuthorizeWorker(h, w)
      <4> DEFINE j == [job[h] EXCEPT !.batch = @ \ {w}, !.running = @ \cup {w},
                                     !.granted = IF Granted(w) THEN @ \cup {w} ELSE @ \ {w}]
      <4>1. Goto(h, AfterAuthorization(j), j)
        BY <3>2 DEF AuthorizeWorker
      <4>2. j.todo = job[h].todo /\ j.batch = job[h].batch \ {w}
        BY <1>t DEF Job
      <4> HIDE DEF j
      <4>3. QED
        BY <1>a, <4>1, <4>2 DEF LoopWork
    <3>3. CASE NeedToolGate(h, w)
      <4> DEFINE j == [job[h] EXCEPT !.batch = @ \ {w}, !.worker = w]
      <4>1. Goto(h, "requestToolGate", j) \/ Goto(h, "markWaiting", j)
        BY <3>3 DEF NeedToolGate
      <4>2. j.todo = job[h].todo /\ j.batch = job[h].batch \ {w}
        BY <1>t DEF Job
      <4> HIDE DEF j
      <4>3. QED
        BY <4>1, <4>2 DEF LoopWork
    <3>4. QED
      BY <1>5, <3>1, <3>2, <3>3
  <2>3. pc'[h] = step /\ job'[h] = j
    BY <2>2, <1>g DEF LoopWork
  <2>4. CASE step \in LoopWork
    BY <2>1, <2>2, <2>3, <2>4, DescendsByLoad DEF LoopWork
  <2>5. CASE step \in {"pause", "supervise"}
    BY <1>d, <2>1, <2>3, <2>5 DEF LoopWork
  <2>6. QED
    BY <2>2, <2>4, <2>5
<1>6. CASE RequestToolGate(h)
  <2>1. pc[h] = "requestToolGate" /\ pc'[h] = "markWaiting" /\ job'[h] = job[h]
    BY <1>6, <1>g DEF RequestToolGate
  <2>2. QED
    BY <2>1, DescendsByAsking DEF LoopWork
<1>7. CASE MarkWaitingForGate(h)
  <2> DEFINE j == [job[h] EXCEPT !.pending = @ \cup {job[h].worker}, !.worker = None]
  <2>1. Goto(h, AfterAuthorization(j), j) /\ pc[h] = "markWaiting"
    BY <1>7 DEF MarkWaitingForGate
  <2>2. /\ j.todo = job[h].todo /\ j.batch = job[h].batch
        /\ j.running = job[h].running /\ j.done = job[h].done
    BY <1>t DEF Job
  <2> HIDE DEF j
  <2>3. /\ pc'[h] \in {"authorize", "running", "pause", "dispatch", "supervise"}
        /\ job'[h] = j
    BY <2>1, <1>a, <1>g
  <2>4. CASE pc'[h] \in {"pause", "supervise"}
    BY <1>d, <2>1, <2>4 DEF LoopWork
  <2>5. CASE pc'[h] \in {"authorize", "running", "dispatch"}
    BY <2>1, <2>2, <2>3, <2>5, DescendsByAsking DEF LoopWork
  <2>6. QED
    BY <2>3, <2>4, <2>5
<1>8. ASSUME NEW w \in Workers,
             ExecutionRaises(h, w) \/ \E success \in BOOLEAN : FinishExecution(h, w, success)
      PROVE  Descends(h)
  <2>1. pc[h] = "running" /\ w \in job[h].running
    BY <1>8 DEF ExecutionRaises, FinishExecution
  <2>2. PICK j : /\ Goto(h, AfterThread(j), j)
                 /\ j.todo = job[h].todo /\ j.batch = job[h].batch
                 /\ j.running = job[h].running \ {w}
    <3>1. CASE ExecutionRaises(h, w)
      <4> DEFINE j == [job[h] EXCEPT !.running = @ \ {w}, !.raised = TRUE]
      <4>1. Goto(h, AfterThread(j), j)
        BY <3>1 DEF ExecutionRaises
      <4>2. /\ j.todo = job[h].todo /\ j.batch = job[h].batch
            /\ j.running = job[h].running \ {w}
        BY <1>t DEF Job
      <4> HIDE DEF j
      <4>3. QED
        BY <4>1, <4>2
    <3>2. ASSUME NEW success \in BOOLEAN, FinishExecution(h, w, success)
          PROVE  \E j : /\ Goto(h, AfterThread(j), j)
                        /\ j.todo = job[h].todo /\ j.batch = job[h].batch
                        /\ j.running = job[h].running \ {w}
      <4> DEFINE rest == [job[h] EXCEPT !.running = @ \ {w}]
                 good == [rest EXCEPT !.done = @ \cup {<<w, success>>}]
                 bad  == [rest EXCEPT !.raised = TRUE]
      <4>1. Goto(h, AfterThread(good), good) \/ Goto(h, AfterThread(bad), bad)
        BY <3>2 DEF FinishExecution
      <4>2. /\ good.todo = job[h].todo /\ good.batch = job[h].batch
            /\ good.running = job[h].running \ {w}
        BY <1>t DEF Job
      <4>3. /\ bad.todo = job[h].todo /\ bad.batch = job[h].batch
            /\ bad.running = job[h].running \ {w}
        BY <1>t DEF Job
      <4> HIDE DEF good, bad
      <4>4. QED
        BY <4>1, <4>2, <4>3
    <3>3. QED
      BY <1>8, <3>1, <3>2
  <2>3. /\ pc'[h] \in {"running", "idle", "writeOutputs"}
        /\ pc'[h] # "idle" => job'[h] = j
    BY <2>2, <1>c, <1>g
  <2>4. CASE pc'[h] = "idle"
    BY <1>d, <2>1, <2>4 DEF LoopWork
  <2>5. CASE pc'[h] # "idle"
    BY <2>1, <2>2, <2>3, <2>5, DescendsByLoad DEF LoopWork
  <2>6. QED
    BY <2>4, <2>5
<1>9. CASE WriteOutput(h)
  <2>1. PICK result \in job[h].done :
          LET j == [job[h] EXCEPT !.done = @ \ {result}] IN
            Goto(h, IF j.done # {} THEN "writeOutputs" ELSE AfterBatch(j), j)
    BY <1>9 DEF WriteOutput
  <2> DEFINE j == [job[h] EXCEPT !.done = @ \ {result}]
  <2>2. Goto(h, IF j.done # {} THEN "writeOutputs" ELSE AfterBatch(j), j)
    BY <2>1
  <2>3. /\ j.todo = job[h].todo /\ j.batch = job[h].batch /\ j.running = job[h].running
        /\ j.done = job[h].done \ {result}
    BY <1>t DEF Job
  <2> HIDE DEF j
  <2>4. /\ pc[h] = "writeOutputs" /\ job'[h] = j
        /\ pc'[h] \in {"writeOutputs", "pause", "dispatch", "supervise"}
    BY <1>9, <2>2, <1>b, <1>g DEF WriteOutput
  <2>5. CASE pc'[h] \in {"pause", "supervise"}
    BY <1>d, <2>4, <2>5 DEF LoopWork
  <2>6. CASE pc'[h] \in {"writeOutputs", "dispatch"}
    <3>1. j.done \subseteq job[h].done /\ j.done # job[h].done
      BY <2>3
    <3>2. QED
      BY <2>3, <2>4, <2>6, <3>1, DescendsByLoad DEF LoopWork
  <2>7. QED
    BY <2>4, <2>5, <2>6
<1>10. QED
  BY <1>1, <1>2, <1>3, <1>4, <1>5, <1>6, <1>7, <1>8, <1>9
     DEF OrchestratorStep, ResumeAfterToolGate, Callback

\* No handler goes on for ever: whatever other tabs do, and wherever the process
\* dies, each step of one that has started goes down in a well-founded order, so
\* that it returns unless it has to wait (orchestration/service.py:102-385,
\* runtime/service.py:79-364, revision/service.py:44-98).
THEOREM HandlersCannotLoop == Spec => HandlersDescend
<1>1. IInv /\ [Next]_vars =>
        [\A h \in Handlers : pc[h] # "idle" /\ Step(h) => Descends(h)]_vars
  <2> SUFFICES ASSUME IInv, NEW h \in Handlers, pc[h] # "idle", Step(h) PROVE Descends(h)
    OBVIOUS
  <2>1. WellFormed /\ TypeOK'
    BY StepInv DEF IInv, WellFormed
  <2>2. QED
    BY <2>1, CoordinatorDescends, OrchestratorDescends DEF Step
<1>2. QED
  BY <1>1, Invariance, PTL DEF Spec, HandlersDescend
-------------------------------------------------------------------------------
(* Every worker of a plan that was executed has an output.                 *)

\* The steps between the execution of a plan and its Gate D.
QASteps ==
  {"supervise", "evaluate", "record", "recompute", "recordQA", "awaitFinal", "requestFinalGate"}

InHand(j, w) ==
  \/ w \in j.todo \cup j.batch \cup j.running
  \/ w = j.worker
  \/ \E ok \in BOOLEAN : <<w, ok>> \in j.done

\* Each worker of the plan has an output among out, or is still in the handler's
\* hands.
Covers(j, out) == j.plan # None => \A w \in PlanWorkers[j.plan] : w \in out \/ InHand(j, w)

\* What the handler has worked off by the time it comes to a step.
LoopShape(step, j) ==
  /\ step # "running" => ~j.raised
  /\ step \in {"dispatch", "running", "writeOutputs"} => j.batch = {}
  /\ step \in {"dispatch", "writeOutputs"} => j.running = {}
  /\ step \notin {"running", "writeOutputs"} => j.done = {}
  /\ step \notin {"requestToolGate", "markWaiting"} => j.worker = None

\* Nothing goes from a plan of the handler to a recovery.
PlanlessSteps ==
  {"reconcile", "superviseFailure", "applyDecision", "resolveToolGate", "toolOutput"}

Covered(step, j, out) ==
  /\ step \in LoopWork => LoopShape(step, j) /\ (~j.raised => Covers(j, out))
  /\ step \in QASteps /\ j.plan # None => PlanWorkers[j.plan] \subseteq out
  /\ step \in PlanlessSteps => j.plan = None
  /\ step \in RevisionPath /\ j.reviser = "recovery" => j.plan = None

CoverInv == \A h \in Handlers : Covered(pc[h], job[h], Reported)

\* Where the handler goes on from a batch, a worker or a thread, it keeps that.
LEMMA AfterBatchCovers ==
  ASSUME NEW j \in Job, NEW out, Covers(j, out), ~j.raised, j.worker = None,
         j.batch = {}, j.running = {}, j.done = {}
  PROVE  Covered(AfterBatch(j), j, out)
<1>1. CASE j.pending # {}
  BY <1>1 DEF AfterBatch, Covered, LoopWork, QASteps, PlanlessSteps, RevisionPath, RevisionSection
<1>2. CASE j.pending = {} /\ j.todo # {}
  BY <1>2 DEF AfterBatch, Covered, LoopShape, LoopWork, QASteps, PlanlessSteps, RevisionPath,
     RevisionSection
<1>3. CASE j.pending = {} /\ j.todo = {}
  <2>1. ASSUME j.plan # None, NEW w \in PlanWorkers[j.plan] PROVE w \in out
    <3>1. w \in Workers /\ w # None
      BY <2>1, PlanWorkersAssumption, NoneIsFresh DEF Job
    <3>2. QED
      BY <1>3, <2>1, <3>1 DEF Covers, InHand
  <2>2. AfterBatch(j) = "supervise"
    BY <1>3 DEF AfterBatch
  <2>3. QED
    BY <2>1, <2>2 DEF Covered, LoopWork, QASteps, PlanlessSteps, RevisionPath, RevisionSection
<1>4. QED
  BY <1>1, <1>2, <1>3

LEMMA AfterAuthorizationCovers ==
  ASSUME NEW j \in Job, NEW out, Covers(j, out), ~j.raised, j.worker = None, j.done = {}
  PROVE  Covered(AfterAuthorization(j), j, out)
<1>1. CASE j.batch = {} /\ j.running = {}
  BY <1>1, AfterBatchCovers DEF AfterAuthorization
<1>2. CASE ~(j.batch = {} /\ j.running = {})
  <2>1. \/ AfterAuthorization(j) = "authorize"
        \/ AfterAuthorization(j) = "running" /\ j.batch = {}
    BY <1>2 DEF AfterAuthorization
  <2>2. QED
    BY <2>1 DEF Covered, LoopShape, LoopWork, QASteps, PlanlessSteps, RevisionPath,
       RevisionSection
<1>3. QED
  BY <1>1, <1>2

LEMMA AfterThreadCovers ==
  ASSUME NEW j \in Job, NEW out, ~j.raised => Covers(j, out), j.worker = None, j.batch = {}
  PROVE  Covered(AfterThread(j), j, out)
<1>1. \/ AfterThread(j) = "running" \/ AfterThread(j) = "idle"
      \/ AfterThread(j) = "writeOutputs" /\ j.running = {} /\ ~j.raised
  BY DEF AfterThread, Job
<1>2. QED
  BY <1>1 DEF Covered, LoopShape, LoopWork, QASteps, PlanlessSteps, RevisionPath, RevisionSection

\* An output is overwritten, and never taken away (session/manager.py).
LEMMA OutputsStay ==
  ASSUME WellFormed, NEW h \in Handlers, Step(h)
  PROVE  Reported \subseteq Reported'
<1>t. outputs \in [Workers -> OutputStatus] /\ job[h] \in Job
  BY DEF WellFormed, TypeOK, SessionTypeOK
<1>o. ASSUME NEW w, NEW status, SetWorkerOutput(w, status), status # "none"
      PROVE  Reported \subseteq Reported'
  BY <1>t, <1>o DEF SetWorkerOutput, Reported
<1>u. UNCHANGED outputs => Reported' = Reported
  BY DEF Reported
<1>1. CASE CoordinatorStep(h)
  <2>1. UNCHANGED outputs
    <3>1. CASE UNCHANGED evidenceVars
      BY <3>1 DEF evidenceVars
    <3>2. CASE pc[h] \in {"authorize", "markWaiting", "running", "writeOutputs", "toolOutput",
                          "reconcile"}
      <4>1. ReconcileLocal(h) \/ ReconcileBackend(h) \/ ReconcileNothing(h)
        BY <1>1, <3>2 DEF CoordinatorStep, StartRun, BuildArchitecture, StorePlan, PlanFails,
           RequestPlanGate, ResolveGate, ApplyArchitectureDecision, ApplyFinalDecision, Finalize,
           RequestRevision, EnterRevision, RecordRevision, Evaluate, RecordSupervisorResult,
           RecomputeEvidence, RecordQA, RequestFinalGate, RecoverArchitecture,
           RecoverSupervision, RecoverExecution, MoveState, Callback, Transitions
      <4>2. QED
        BY <4>1 DEF ReconcileLocal, ReconcileBackend, ReconcileNothing, AddExecutionResult,
           sessionVars, evidenceVars
    <3>3. QED
      BY <1>1, <3>1, <3>2, PlanWrites DEF Step
  <2>2. QED
    BY <1>u, <2>1
<1>2. CASE OrchestratorStep(h)
  <2>1. CASE \/ ExecuteRun(h) \/ PreparationRaises(h) \/ NextBatch(h) \/ RequestToolGate(h)
             \/ \E g \in Gates : ResumeAfterToolGate(h, g)
             \/ \E d \in HumanDecisions : ResolveToolGate(h, d)
             \/ \E w \in Workers : \/ SkipWorker(h, w) \/ AuthorizeWorker(h, w)
                                   \/ NeedToolGate(h, w) \/ ExecutionRaises(h, w)
                                   \/ \E success \in BOOLEAN : FinishExecution(h, w, success)
    <3>1. UNCHANGED outputs
      BY <2>1 DEF ExecuteRun, PreparationRaises, NextBatch, RequestToolGate, ResumeAfterToolGate,
         ResolveToolGate, SkipWorker, AuthorizeWorker, NeedToolGate, ExecutionRaises,
         FinishExecution, AddExecutionResult, AddApprovalGate, ResolveApprovalGate, sessionVars,
         evidenceVars
    <3>2. QED
      BY <1>u, <3>1
  <2>2. CASE \E w \in Workers : PlanningError(h, w)
    BY <1>o, <2>2 DEF PlanningError
  <2>3. CASE MarkWaitingForGate(h) \/ WriteToolDecision(h)
    BY <1>o, <2>3 DEF MarkWaitingForGate, WriteToolDecision
  <2>4. CASE WriteOutput(h)
    BY <1>o, <2>4 DEF WriteOutput
  <2>5. QED
    BY <1>2, <2>1, <2>2, <2>3, <2>4 DEF OrchestratorStep
<1>3. QED
  BY <1>1, <1>2 DEF Step

\* What a handler at rest has covered stays covered.
LEMMA OthersCovered ==
  ASSUME NEW step, NEW j, NEW out, NEW more, out \subseteq more, Covered(step, j, out)
  PROVE  Covered(step, j, more)
BY DEF Covered, Covers

\* The coordinator takes no plan into a recovery, and asks for Gate D only on
\* the way from a QA that was asked for with all of it.
LEMMA CoordinatorCovers ==
  ASSUME WellFormed, NEW h \in Handlers, CoordinatorStep(h), Covered(pc[h], job[h], Reported)
  PROVE  Covered(pc'[h], job'[h], Reported)
<1> USE DEF QASteps, PlanlessSteps, RevisionPath, RevisionSection, LoopWork
<1>t. pc \in [Handlers -> Steps] /\ job \in [Handlers -> Job] /\ job[h] \in Job
  BY DEF WellFormed, TypeOK
<1>g. ASSUME NEW step, NEW j, Goto(h, step, j)
      PROVE  pc'[h] = step /\ job'[h] = IF step = "idle" THEN NoJob ELSE j
  BY <1>g, <1>t DEF Goto
<1>i. ASSUME pc'[h] \in { "idle", "build", "planning", "awaitPlanDecision", "requestPlanGate",
                          "finalize", "fail", "reject", "beginExecution", "execute", "pause",
                          "complete" }
      PROVE  Covered(pc'[h], job'[h], Reported)
  BY <1>i DEF Covered
<1>1. CASE StartRun(h) \/ RecoverArchitecture(h) \/ BuildArchitecture(h) \/ StorePlan(h)
           \/ PlanFails(h) \/ RequestPlanGate(h) \/ RequestFinalGate(h) \/ Finalize(h)
           \/ ReconcileNothing(h)
  <2>1. pc'[h] \in {"build", "planning", "awaitPlanDecision", "complete", "idle"}
    BY <1>1, <1>g DEF StartRun, RecoverArchitecture, BuildArchitecture, StorePlan, PlanFails,
       RequestPlanGate, RequestFinalGate, Finalize, ReconcileNothing
  <2>2. QED
    BY <1>i, <2>1
<1>2. ASSUME NEW g \in Gates, NEW d \in HumanDecisions, ResolveGate(h, g, d)
      PROVE  Covered(pc'[h], job'[h], Reported)
  <2>1. pc'[h] = "applyDecision" /\ job'[h].plan = None
    BY <1>2, <1>t DEF ResolveGate, NoJob
  <2>2. QED
    BY <2>1 DEF Covered
<1>3. CASE ApplyArchitectureDecision(h) \/ ApplyFinalDecision(h)
  <2>1. job[h].plan = None
    BY <1>3 DEF ApplyArchitectureDecision, ApplyFinalDecision, Covered
  <2>2. PICK step, j : /\ Goto(h, step, j) /\ j.plan = None
                       /\ step \in {"idle", "beginExecution", "reject", "finalize", "revise"}
    <3>1. CASE ApplyArchitectureDecision(h)
      <4> DEFINE j == [job[h] EXCEPT !.rebuilds = TRUE]
      <4>1. \E step \in {"idle", "beginExecution", "reject", "revise"} : Goto(h, step, j)
        BY <3>1 DEF ApplyArchitectureDecision
      <4>2. j.plan = None
        BY <1>t, <2>1 DEF Job
      <4> HIDE DEF j
      <4>3. QED
        BY <4>1, <4>2
    <3>2. CASE ApplyFinalDecision(h)
      <4> DEFINE j == [job[h] EXCEPT !.evidence = qa]
      <4>1. \E step \in {"idle", "finalize", "reject", "revise"} : Goto(h, step, j)
        BY <3>2 DEF ApplyFinalDecision
      <4>2. j.plan = None
        BY <1>t, <2>1 DEF Job
      <4> HIDE DEF j
      <4>3. QED
        BY <4>1, <4>2
    <3>3. QED
      BY <1>3, <3>1, <3>2
  <2>3. QED
    BY <1>g, <1>i, <2>2 DEF Covered
<1>4. CASE RequestRevision(h) \/ EnterRevision(h)
  <2>1. /\ pc[h] \in RevisionPath
        /\ \/ pc'[h] = "idle"
           \/ pc'[h] \in {"revision", "enterRevision", "rearchitect", "recordRevision"}
              /\ job'[h] = job[h]
    BY <1>4, <1>g DEF RequestRevision, EnterRevision
  <2>2. QED
    BY <1>i, <2>1 DEF Covered
<1>5. CASE RecordRevision(h)
  <2>1. /\ pc[h] \in RevisionPath
        /\ \/ pc'[h] \in {"build", "idle"}
           \/ pc'[h] = "evaluate" /\ job[h].reviser = "recovery" /\ job'[h] = job[h]
    BY <1>5, <1>g DEF RecordRevision
  <2>2. QED
    BY <1>i, <2>1 DEF Covered
<1>6. CASE Evaluate(h)
  <2> DEFINE j == [job[h] EXCEPT !.evidence = Evidence, !.reviser = "coordinator"]
  <2>1. pc[h] = "evaluate" /\ \E step \in {"record", "revise", "fail"} : Goto(h, step, j)
    BY <1>6 DEF Evaluate, QAStatus
  <2>2. j.plan = job[h].plan /\ j.reviser = "coordinator"
    BY <1>t DEF Job
  <2> HIDE DEF j
  <2>3. pc'[h] \in {"record", "revise", "fail"} /\ job'[h] = j
    BY <1>g, <2>1
  <2>4. QED
    BY <2>1, <2>2, <2>3 DEF Covered
<1>7. CASE RecordSupervisorResult(h) \/ RecomputeEvidence(h) \/ RecordQA(h)
  <2>1. /\ pc[h] \in QASteps
        /\ \/ pc'[h] = "idle"
           \/ pc'[h] \in {"recompute", "recordQA", "awaitFinal"} /\ job'[h] = job[h]
    BY <1>7, <1>g DEF RecordSupervisorResult, RecomputeEvidence, RecordQA
  <2>2. QED
    BY <1>i, <2>1 DEF Covered
<1>8. CASE RecoverSupervision(h) \/ \E w \in Workers : RecoverExecution(h, w)
  <2>1. CASE RecoverSupervision(h)
    <3>1. pc'[h] = "evaluate" /\ job'[h] = [NoJob EXCEPT !.rebuilds = TRUE]
      BY <2>1, <1>g DEF RecoverSupervision
    <3>2. QED
      BY <3>1 DEF Covered, NoJob
  <2>2. ASSUME NEW w \in Workers, RecoverExecution(h, w)
        PROVE  Covered(pc'[h], job'[h], Reported)
    <3>1. /\ pc'[h] = "reconcile"
          /\ job'[h] = [NoJob EXCEPT !.worker = w, !.reviser = "recovery", !.rebuilds = TRUE]
      BY <2>2, <1>g DEF RecoverExecution
    <3>2. QED
      BY <3>1 DEF Covered, NoJob
  <2>3. QED
    BY <1>8, <2>1, <2>2
<1>9. CASE ReconcileLocal(h) \/ ReconcileBackend(h)
  <2>1. /\ pc[h] = "reconcile" /\ job'[h] = job[h]
        /\ pc'[h] \in {"supervise", "superviseFailure"}
    BY <1>9, <1>g DEF ReconcileLocal, ReconcileBackend, AfterReconciliation
  <2>2. QED
    BY <2>1 DEF Covered
<1>10. CASE MoveState(h)
  <2>1. /\ pc[h] \in DOMAIN Transitions
        /\ \/ pc'[h] = "idle"
           \/ pc'[h] = Transitions[pc[h]].next /\ job'[h] = job[h]
    BY <1>10, <1>g DEF MoveState
  <2>2. \A step \in DOMAIN Transitions :
          \/ Transitions[step].next \in {"idle", "requestPlanGate", "execute"}
          \/ step \in QASteps /\ Transitions[step].next \in QASteps
          \/ step = "superviseFailure" /\ Transitions[step].next = "revise"
          \/ step \in RevisionPath /\ Transitions[step].next \in RevisionPath
    BY DEF Transitions
  <2>3. QED
    BY <1>i, <2>1, <2>2 DEF Covered
<1>11. QED
  BY <1>1, <1>2, <1>3, <1>4, <1>5, <1>6, <1>7, <1>8, <1>9, <1>10 DEF CoordinatorStep

\* execute_run lets go of a worker when it has an output of it.
LEMMA OrchestratorCovers ==
  ASSUME WellFormed, NEW h \in Handlers, OrchestratorStep(h), Covered(pc[h], job[h], Reported)
  PROVE  Covered(pc'[h], job'[h], Reported')
<1> DEFINE old == job[h]
<1>t. /\ pc \in [Handlers -> Steps] /\ job \in [Handlers -> Job] /\ old \in Job
      /\ outputs \in [Workers -> OutputStatus]
  BY DEF WellFormed, TypeOK, SessionTypeOK
<1>g. ASSUME NEW step, NEW j, Goto(h, step, j), Covered(step, j, Reported')
      PROVE  Covered(pc'[h], job'[h], Reported')
  <2>1. pc'[h] = step /\ job'[h] = IF step = "idle" THEN NoJob ELSE j
    BY <1>g, <1>t DEF Goto
  <2>2. CASE step = "idle"
    BY <2>1, <2>2 DEF Covered, LoopWork, QASteps, PlanlessSteps, RevisionPath, RevisionSection
  <2>3. CASE step # "idle"
    BY <1>g, <2>1, <2>3
  <2>4. QED
    BY <2>2, <2>3
<1>m. Reported \subseteq Reported'
  BY OutputsStay DEF Step
<1>w. ASSUME NEW w \in Workers, NEW status, SetWorkerOutput(w, status), status # "none"
      PROVE  w \in Reported'
  BY <1>t, <1>w DEF SetWorkerOutput, Reported
<1>l. pc[h] \in LoopWork => LoopShape(pc[h], old) /\ (~old.raised => Covers(old, Reported'))
  BY <1>m DEF Covered, Covers
<1>a. ASSUME pc[h] = "authorize"
      PROVE  Covers(old, Reported') /\ ~old.raised /\ old.worker = None /\ old.done = {}
  BY <1>a, <1>l DEF LoopWork, LoopShape
<1>1. CASE ExecuteRun(h)
  <2> DEFINE j == [NoJob EXCEPT !.plan = plan, !.todo = PlanWorkers[plan]]
  <2>1. CASE Goto(h, "idle", NoJob)
    BY <1>g, <2>1 DEF Covered, LoopWork, QASteps, PlanlessSteps, RevisionPath, RevisionSection
  <2>2. CASE Goto(h, "dispatch", j)
    <3>1. /\ j.plan = plan /\ j.todo = PlanWorkers[plan] /\ j.worker = None
          /\ j.batch = {} /\ j.running = {} /\ j.done = {} /\ ~j.raised
      BY DEF NoJob
    <3> HIDE DEF j
    <3>2. Covered("dispatch", j, Reported')
      BY <3>1 DEF Covered, Covers, InHand, LoopShape, QASteps, PlanlessSteps, RevisionPath,
         RevisionSection
    <3>3. QED
      BY <1>g, <2>2, <3>2
  <2>3. QED
    BY <1>1, <2>1, <2>2 DEF ExecuteRun
<1>2. CASE PreparationRaises(h)
  <2>1. Covered("idle", NoJob, Reported')
    BY DEF Covered, LoopWork, QASteps, PlanlessSteps, RevisionPath, RevisionSection
  <2>2. QED
    BY <1>2, <1>g, <2>1 DEF PreparationRaises
<1>3. CASE NextBatch(h)
  <2>1. PICK batch \in (SUBSET old.todo) \ {{}} :
          Goto(h, "authorize", [job[h] EXCEPT !.batch = batch, !.todo = @ \ batch])
    BY <1>3 DEF NextBatch
  <2> DEFINE j == [job[h] EXCEPT !.batch = batch, !.todo = @ \ batch]
  <2>2. Goto(h, "authorize", j)
    BY <2>1
  <2>3. /\ j.plan = old.plan /\ j.todo = old.todo \ batch /\ j.batch = batch
        /\ j.running = old.running /\ j.done = old.done /\ j.worker = old.worker
        /\ j.raised = old.raised
    BY <1>t DEF Job
  <2> HIDE DEF j
  <2>4. pc[h] = "dispatch"
    BY <1>3 DEF NextBatch
  <2>5. LoopShape("dispatch", old) /\ Covers(old, Reported') /\ ~old.raised
    BY <1>l, <2>4 DEF LoopWork, LoopShape
  <2>6. Covered("authorize", j, Reported')
    BY <2>1, <2>3, <2>5 DEF Covered, Covers, InHand, LoopShape, QASteps, PlanlessSteps,
       RevisionPath, RevisionSection
  <2>7. QED
    BY <1>g, <2>2, <2>6
<1>4. ASSUME NEW w \in Workers, SkipWorker(h, w) \/ PlanningError(h, w)
      PROVE  Covered(pc'[h], job'[h], Reported')
  <2> DEFINE j == [job[h] EXCEPT !.batch = @ \ {w}]
  <2>1. Goto(h, AfterAuthorization(j), j) /\ pc[h] = "authorize"
    BY <1>4 DEF SkipWorker, PlanningError
  <2>2. /\ j \in Job
        /\ j.plan = old.plan /\ j.todo = old.todo /\ j.batch = old.batch \ {w}
        /\ j.running = old.running /\ j.done = old.done /\ j.worker = old.worker
        /\ j.raised = old.raised
    BY <1>t DEF Job
  <2> HIDE DEF j
  <2>3. w \in Reported'
    <3>1. CASE SkipWorker(h, w)
      BY <1>m, <3>1 DEF SkipWorker, Reported
    <3>2. CASE PlanningError(h, w)
      BY <1>w, <3>2 DEF PlanningError
    <3>3. QED
      BY <1>4, <3>1, <3>2
  <2>4. Covers(j, Reported')
    BY <1>a, <2>1, <2>2, <2>3 DEF Covers, InHand
  <2>5. QED
    BY <1>a, <1>g, <2>1, <2>2, <2>4, AfterAuthorizationCovers
<1>5. ASSUME NEW w \in Workers, AuthorizeWorker(h, w)
      PROVE  Covered(pc'[h], job'[h], Reported')
  <2> DEFINE j == [job[h] EXCEPT !.batch = @ \ {w}, !.running = @ \cup {w},
                                 !.granted = IF Granted(w) THEN @ \cup {w} ELSE @ \ {w}]
  <2>1. Goto(h, AfterAuthorization(j), j) /\ pc[h] = "authorize"
    BY <1>5 DEF AuthorizeWorker
  <2>2. /\ j \in Job
        /\ j.plan = old.plan /\ j.todo = old.todo /\ j.batch = old.batch \ {w}
        /\ j.running = old.running \cup {w} /\ j.done = old.done /\ j.worker = old.worker
        /\ j.raised = old.raised
    BY <1>t DEF Job
  <2> HIDE DEF j
  <2>3. Covers(j, Reported')
    BY <1>a, <2>1, <2>2 DEF Covers, InHand
  <2>4. QED
    BY <1>a, <1>g, <2>1, <2>2, <2>3, AfterAuthorizationCovers
<1>6. ASSUME NEW w \in Workers, NeedToolGate(h, w)
      PROVE  Covered(pc'[h], job'[h], Reported')
  <2> DEFINE j == [job[h] EXCEPT !.batch = @ \ {w}, !.worker = w]
  <2>1. Goto(h, "requestToolGate", j) \/ Goto(h, "markWaiting", j)
    BY <1>6 DEF NeedToolGate
  <2>2. /\ j.plan = old.plan /\ j.todo = old.todo /\ j.batch = old.batch \ {w}
        /\ j.running = old.running /\ j.done = old.done /\ j.worker = w
        /\ j.raised = old.raised
    BY <1>t DEF Job
  <2> HIDE DEF j
  <2>3. pc[h] = "authorize"
    BY <1>6 DEF NeedToolGate
  <2>4. old.plan # None => \A k \in PlanWorkers[old.plan] : k # None
    BY <1>t, PlanWorkersAssumption, NoneIsFresh DEF Job
  <2>5. \A step \in {"requestToolGate", "markWaiting"} : Covered(step, j, Reported')
    BY <1>a, <2>2, <2>3, <2>4 DEF Covered, Covers, InHand, LoopShape, QASteps, PlanlessSteps,
       RevisionPath, RevisionSection
  <2>6. QED
    BY <1>g, <2>1, <2>5
<1>7. CASE RequestToolGate(h)
  <2>1. pc[h] = "requestToolGate" /\ Goto(h, "markWaiting", old)
    BY <1>7 DEF RequestToolGate
  <2>2. Covered("markWaiting", old, Reported')
    BY <1>l, <2>1 DEF Covered, LoopShape, LoopWork, QASteps, PlanlessSteps, RevisionPath,
       RevisionSection
  <2>3. QED
    BY <1>g, <2>1, <2>2
<1>8. CASE MarkWaitingForGate(h)
  <2> DEFINE j == [job[h] EXCEPT !.pending = @ \cup {job[h].worker}, !.worker = None]
  <2>1. Goto(h, AfterAuthorization(j), j) /\ pc[h] = "markWaiting"
    BY <1>8 DEF MarkWaitingForGate
  <2>2. old.worker \in Workers /\ old.worker \in Reported'
    BY <1>8, <1>w, <2>1 DEF WellFormed, LocalsOK, MarkWaitingForGate
  <2>3. /\ j \in Job
        /\ j.plan = old.plan /\ j.todo = old.todo /\ j.batch = old.batch
        /\ j.running = old.running /\ j.done = old.done /\ j.worker = None
        /\ j.raised = old.raised
    BY <1>t, <2>2 DEF Job
  <2> HIDE DEF j
  <2>4. LoopShape("markWaiting", old) /\ Covers(old, Reported')
    BY <1>l, <2>1 DEF LoopWork, LoopShape
  <2>5. Covers(j, Reported') /\ ~j.raised /\ j.done = {}
    BY <2>2, <2>3, <2>4 DEF Covers, InHand, LoopShape
  <2>6. QED
    BY <1>g, <2>1, <2>3, <2>5, AfterAuthorizationCovers
<1>9. ASSUME NEW w \in Workers, ExecutionRaises(h, w)
      PROVE  Covered(pc'[h], job'[h], Reported')
  <2> DEFINE j == [job[h] EXCEPT !.running = @ \ {w}, !.raised = TRUE]
  <2>1. Goto(h, AfterThread(j), j) /\ pc[h] = "running"
    BY <1>9 DEF ExecutionRaises
  <2>2. j \in Job /\ j.batch = old.batch /\ j.worker = old.worker /\ j.raised
    BY <1>t DEF Job
  <2> HIDE DEF j
  <2>3. old.batch = {} /\ old.worker = None
    BY <1>l, <2>1 DEF LoopWork, LoopShape
  <2>4. QED
    BY <1>g, <2>1, <2>2, <2>3, AfterThreadCovers
<1>10. ASSUME NEW w \in Workers, NEW success \in BOOLEAN, FinishExecution(h, w, success)
       PROVE  Covered(pc'[h], job'[h], Reported')
  <2> DEFINE rest == [job[h] EXCEPT !.running = @ \ {w}]
             good == [rest EXCEPT !.done = @ \cup {<<w, success>>}]
             bad  == [rest EXCEPT !.raised = TRUE]
  <2>1. Goto(h, AfterThread(good), good) \/ Goto(h, AfterThread(bad), bad)
    BY <1>10 DEF FinishExecution
  <2>r. /\ rest \in Job
        /\ rest.plan = old.plan /\ rest.todo = old.todo /\ rest.batch = old.batch
        /\ rest.running = old.running \ {w} /\ rest.done = old.done
        /\ rest.worker = old.worker /\ rest.raised = old.raised
    BY <1>t DEF Job
  <2> HIDE DEF rest
  <2>2. /\ good \in Job
        /\ good.plan = old.plan /\ good.todo = old.todo /\ good.batch = old.batch
        /\ good.running = old.running \ {w} /\ good.done = old.done \cup {<<w, success>>}
        /\ good.worker = old.worker /\ good.raised = old.raised
    BY <2>r DEF Job
  <2>3. bad \in Job /\ bad.batch = old.batch /\ bad.worker = old.worker /\ bad.raised
    BY <2>r DEF Job
  <2> HIDE DEF good, bad
  <2>4. pc[h] = "running"
    BY <1>10 DEF FinishExecution
  <2>5. /\ old.batch = {} /\ old.worker = None
        /\ ~old.raised => Covers(old, Reported')
    BY <1>l, <2>4 DEF LoopWork, LoopShape
  <2>6. ~good.raised => Covers(good, Reported')
    BY <2>2, <2>5 DEF Covers, InHand
  <2>7. QED
    BY <1>g, <2>1, <2>2, <2>3, <2>5, <2>6, AfterThreadCovers
<1>11. CASE WriteOutput(h)
  <2>1. PICK result \in old.done :
          /\ SetWorkerOutput(result[1], IF result[2] THEN "success" ELSE "error")
          /\ LET j == [job[h] EXCEPT !.done = @ \ {result}] IN
               Goto(h, IF j.done # {} THEN "writeOutputs" ELSE AfterBatch(j), j)
    BY <1>11 DEF WriteOutput
  <2> DEFINE j == [job[h] EXCEPT !.done = @ \ {result}]
  <2>2. Goto(h, IF j.done # {} THEN "writeOutputs" ELSE AfterBatch(j), j)
    BY <2>1
  <2>3. /\ j \in Job
        /\ j.plan = old.plan /\ j.todo = old.todo /\ j.batch = old.batch
        /\ j.running = old.running /\ j.done = old.done \ {result} /\ j.worker = old.worker
        /\ j.raised = old.raised
    BY <1>t DEF Job
  <2> HIDE DEF j
  <2>4. result \in Workers \X BOOLEAN /\ pc[h] = "writeOutputs"
    BY <1>t, <1>11 DEF Job, WriteOutput
  <2>5. result[1] \in Reported'
    BY <1>w, <2>1, <2>4
  <2>6. LoopShape("writeOutputs", old) /\ Covers(old, Reported') /\ ~old.raised
    BY <1>l, <2>4 DEF LoopWork, LoopShape
  <2>7. Covers(j, Reported')
    <3>1. ASSUME NEW w, NEW ok \in BOOLEAN, <<w, ok>> \in old.done, <<w, ok>> \notin j.done
          PROVE  w \in Reported'
      BY <2>3, <2>5, <3>1
    <3>2. QED
      BY <2>3, <2>6, <3>1 DEF Covers, InHand
  <2>8. CASE j.done # {}
    <3>1. Covered("writeOutputs", j, Reported')
      BY <2>3, <2>6, <2>7 DEF Covered, LoopShape, QASteps, PlanlessSteps, RevisionPath,
         RevisionSection
    <3>2. QED
      BY <1>g, <2>2, <2>8, <3>1
  <2>9. CASE j.done = {}
    <3>1. Covered(AfterBatch(j), j, Reported')
      BY <2>3, <2>6, <2>7, <2>9, AfterBatchCovers DEF LoopShape
    <3>2. QED
      BY <1>g, <2>2, <2>9, <3>1
  <2>10. QED
    BY <2>8, <2>9
<1>12. ASSUME NEW g \in Gates, ResumeAfterToolGate(h, g)
       PROVE  Covered(pc'[h], job'[h], Reported')
  <2> DEFINE j == [NoJob EXCEPT !.gate = g, !.worker = gates[g].subject]
  <2>1. Goto(h, "resolveToolGate", j) /\ j.plan = None
    BY <1>12 DEF ResumeAfterToolGate, NoJob
  <2> HIDE DEF j
  <2>2. Covered("resolveToolGate", j, Reported')
    BY <2>1 DEF Covered, LoopWork, QASteps, PlanlessSteps, RevisionPath, RevisionSection
  <2>3. QED
    BY <1>g, <2>1, <2>2
<1>13. CASE WriteToolDecision(h) \/ \E d \in HumanDecisions : ResolveToolGate(h, d)
  <2>1. old.plan = None
    BY <1>13 DEF WriteToolDecision, ResolveToolGate, Covered, PlanlessSteps
  <2>2. PICK step \in {"toolOutput", "idle", "beginExecution", "revise"}, j \in {old, NoJob} :
          Goto(h, step, j)
    BY <1>13 DEF WriteToolDecision, ResolveToolGate
  <2>3. j.plan = None
    BY <2>1 DEF NoJob
  <2>4. Covered(step, j, Reported')
    BY <2>3 DEF Covered, LoopWork, QASteps, PlanlessSteps, RevisionPath, RevisionSection
  <2>5. QED
    BY <1>g, <2>2, <2>4
<1>14. QED
  BY <1>1, <1>2, <1>3, <1>4, <1>5, <1>6, <1>7, <1>8, <1>9, <1>10, <1>11, <1>12, <1>13
     DEF OrchestratorStep

\* CoverInv holds throughout.
LEMMA CoverInvariance == Spec => [](WellFormed /\ CoverInv)
<1>1. Init => CoverInv
  BY DEF Init, CoordinatorInit, CoverInv, Covered, NoJob, LoopWork, QASteps, PlanlessSteps,
     RevisionPath, RevisionSection
<1>2. WellFormed /\ CoverInv /\ [Next]_vars => CoverInv'
  <2> SUFFICES ASSUME WellFormed, CoverInv, [Next]_vars PROVE CoverInv'
    OBVIOUS
  <2>1. ASSUME NEW h \in Handlers, Step(h) PROVE CoverInv'
    <3> SUFFICES ASSUME NEW k \in Handlers PROVE Covered(pc'[k], job'[k], Reported')
      BY DEF CoverInv
    <3>1. Covered(pc[k], job[k], Reported) /\ Reported \subseteq Reported'
      BY <2>1, OutputsStay DEF CoverInv
    <3>2. CASE k # h
      <4>1. pc'[k] = pc[k] /\ job'[k] = job[k]
        BY <2>1, <3>2, OthersStay DEF WellFormed
      <4>2. QED
        BY <3>1, <4>1, OthersCovered
    <3>3. CASE k = h /\ CoordinatorStep(h)
      <4>1. Covered(pc'[k], job'[k], Reported)
        BY <3>1, <3>3, CoordinatorCovers
      <4>2. QED
        BY <3>1, <4>1, OthersCovered
    <3>4. CASE k = h /\ OrchestratorStep(h)
      BY <3>1, <3>4, OrchestratorCovers
    <3>5. QED
      BY <2>1, <3>2, <3>3, <3>4 DEF Step
  <2>2. CASE Crash
    BY <2>2 DEF Crash, CoverInv, Covered, LoopWork, QASteps, PlanlessSteps, RevisionPath,
       RevisionSection
  <2>3. CASE UNCHANGED vars
    BY <2>3 DEF vars, handlerVars, sessionVars, evidenceVars, CoverInv, Reported
  <2>4. QED
    BY <2>1, <2>2, <2>3 DEF Next
<1>3. IInv => WellFormed
  BY DEF IInv
<1>4. QED
  BY <1>1, <1>2, <1>3, Invariance, PTL DEF Spec

\* However many tabs there are, and wherever the process dies, a plan that was
\* executed gets to QA and to Gate D with an output of each of its workers
\* (orchestration/service.py:128-283).
THEOREM PlansAreCovered == Spec => []NoWorkerIsDropped
<1>1. CoverInv => NoWorkerIsDropped
  BY DEF CoverInv, Covered, QASteps, NoWorkerIsDropped
<1>2. QED
  BY <1>1, CoverInvariance, PTL
===============================================================================

------------------------- MODULE AgentOneTab_proofs -------------------------
(***************************************************************************)
(* What one user in one tab can rely on: that what a human approved is     *)
(* what is executed and delivered, the exact RunContract, and that final   *)
(* answers are carried out.  The code has no exclusion between tabs, so    *)
(* all of this is under the assumption that there is one handler; the      *)
(* process may die at any of its steps.                                    *)
(***************************************************************************)
EXTENDS AgentContract_proofs

OneTab == \A h, k \in Handlers : h = k

ApprovedAt(kind, subject) ==
  \E g \in Gates : /\ gates[g].kind = kind
                   /\ gates[g].decision = "APPROVE"
                   /\ gates[g].subject = subject

Clean == failed = {} /\ Unsatisfied = {}

-------------------------------------------------------------------------------
(* The inductive invariant.                                                *)

\* Whether a handler may be at a step in a state.
Fits(step, s) ==
  /\ step = "build" => s \in {"INTAKE", "ARCHITECTING"}
  /\ step \in {"planning", "awaitPlanDecision", "recordRevision"} => s = "ARCHITECTING"
  /\ step = "requestPlanGate" => s = "WAITING_ARCHITECT_APPROVAL"
  /\ step \in {"applyDecision", "reject"} =>
       s \in {"WAITING_ARCHITECT_APPROVAL", "WAITING_FINAL_APPROVAL"}
  /\ step = "beginExecution" => s \in {"WAITING_ARCHITECT_APPROVAL", "WORKER_WAITING_HUMAN"}
  /\ step \in { "execute", "dispatch", "authorize", "requestToolGate", "markWaiting", "running",
                "writeOutputs", "pause", "supervise", "superviseFailure", "reconcile" } =>
       s = "EXECUTING"
  /\ step \in {"resolveToolGate", "toolOutput"} => s = "WORKER_WAITING_HUMAN"
  /\ step \in {"evaluate", "record", "recompute", "recordQA", "awaitFinal", "fail"} =>
       s = "SUPERVISING"
  /\ step \in {"requestFinalGate", "finalize", "complete"} => s = "WAITING_FINAL_APPROVAL"
  /\ step = "revise" => s \in RevisableStates \cup {"WAITING_ARCHITECT_APPROVAL"}
  /\ step = "revision" => s \in RevisableStates
  /\ step = "enterRevision" => s \in RevisableStates \ {"REVISION"}
  /\ step = "rearchitect" => s = "REVISION"

StateOfStep == \A h \in Handlers : Fits(pc[h], state)

\* An open gate is about what is in the session, and while it is open nothing
\* goes on.
OpenGateIsCurrent ==
  \A g \in Gates :
    /\ gates[g].status = "ABSENT" => gates[g].kind = None
    /\ HumanGate(g) /\ gates[g].status = "OPEN" =>
         /\ gates[g].subject = IF gates[g].kind = "FINAL" THEN qa ELSE plan
         /\ Idle

\* The decision that is being applied is the one on the gate of this state.
DecisionIsCurrent ==
  \A h \in Handlers :
    LET gate == gates[job[h].gate] IN
      /\ pc[h] = "applyDecision" =>
           \/ /\ gate.kind = "ARCHITECTURE"
              /\ gate.subject = plan
              /\ state = "WAITING_ARCHITECT_APPROVAL"
           \/ /\ gate.kind = "FINAL"
              /\ gate.subject = qa
              /\ state = "WAITING_FINAL_APPROVAL"
      /\ pc[h] \in {"resolveToolGate", "toolOutput"} => gate.kind = "TOOL_RISK"

\* The plan in the session is the approved one, wherever it is about to be read.
PlanIsApproved ==
  /\ state \in {"EXECUTING", "WORKER_WAITING_HUMAN"} => ApprovedAt("ARCHITECTURE", plan)
  /\ \A h \in Handlers :
       /\ pc[h] \in {"awaitPlanDecision", "requestPlanGate"} => job[h].plan = plan
       /\ pc[h] = "beginExecution" => ApprovedAt("ARCHITECTURE", plan)

\* From the QA PASS on the session is clean, and its evidence is the recorded
\* one, the one at Gate D, and the final result.
EvidenceIsApproved ==
  /\ state \in {"WAITING_FINAL_APPROVAL", "COMPLETED"} => Clean
  /\ state = "COMPLETED" => ApprovedAt("FINAL", final)
  /\ \A h \in Handlers :
       /\ pc[h] \in {"recordQA", "awaitFinal"} => Clean
       /\ pc[h] \in {"awaitFinal", "requestFinalGate"} => job[h].evidence = qa
       /\ pc[h] \in {"finalize", "complete"} => ApprovedAt("FINAL", job[h].evidence)
       /\ pc[h] = "complete" => final = job[h].evidence

OneTabInv ==
  /\ StateOfStep
  /\ OpenGateIsAwaited /\ OpenGateIsCurrent
  /\ DecisionIsCurrent
  /\ PlanIsApproved /\ ExecutedPlanApproved
  /\ EvidenceIsApproved

-------------------------------------------------------------------------------
(* The states.                                                             *)

\* Every action leaves its handler at a step that fits the state of the run.
LEMMA StatesStay ==
  ASSUME OneTab, WellFormed, StateOfStep, OpenGateIsAwaited, NEW h \in Handlers, Step(h)
  PROVE  StateOfStep'
<1> USE DEF sessionVars
<1>t. pc \in [Handlers -> Steps] /\ job \in [Handlers -> Job]
  BY DEF WellFormed, TypeOK
<1>f. Fits(pc[h], state) /\ (\A s : Fits("idle", s))
  BY DEF StateOfStep, Fits
<1>g. ASSUME NEW step, NEW j, Goto(h, step, j) PROVE pc'[h] = step
  BY <1>g, <1>t DEF Goto
<1>b. \A j : AfterBatch(j) \in {"pause", "dispatch", "supervise"}
  BY DEF AfterBatch
<1>a. \A j : AfterAuthorization(j) \in {"authorize", "running", "pause", "dispatch", "supervise"}
  BY <1>b DEF AfterAuthorization
<1>c. \A j : AfterThread(j) \in {"running", "idle", "writeOutputs"}
  BY DEF AfterThread
<1> SUFFICES Fits(pc'[h], state')
  BY DEF OneTab, StateOfStep
<1>1. CASE StartRun(h) \/ BuildArchitecture(h) \/ RecoverArchitecture(h)
  <2>1. CASE UNCHANGED sessionVars /\ Goto(h, "idle", NoJob)
    BY <2>1, <1>f, <1>g
  <2>2. CASE state' = "INTAKE" /\ \E j : Goto(h, "build", j)
    BY <2>2, <1>g DEF Fits
  <2>3. CASE state' = "ARCHITECTING" /\ \E j : Goto(h, "planning", j) \/ Goto(h, "build", j)
    BY <2>3, <1>g DEF Fits
  <2>4. QED
    BY <1>1, <2>1, <2>2, <2>3 DEF StartRun, BuildArchitecture, RecoverArchitecture, SetState
<1>2. CASE PlanFails(h) \/ RequestPlanGate(h) \/ RequestFinalGate(h) \/ ReconcileNothing(h)
           \/ PreparationRaises(h)
  BY <1>2, <1>f, <1>g DEF PlanFails, RequestPlanGate, RequestFinalGate, ReconcileNothing,
     PreparationRaises
<1>3. CASE StorePlan(h)
  <2>1. state = "ARCHITECTING" /\ state' = state
    BY <1>3, <1>f DEF StorePlan, SetArchitecturePlan, Fits
  <2>2. pc'[h] = "awaitPlanDecision"
    BY <1>3, <1>g DEF StorePlan
  <2>3. QED
    BY <2>1, <2>2 DEF Fits
<1>4. ASSUME NEW g \in Gates, NEW d \in HumanDecisions, ResolveGate(h, g, d)
      PROVE  Fits(pc'[h], state')
  <2>1. state \in {"WAITING_ARCHITECT_APPROVAL", "WAITING_FINAL_APPROVAL"} /\ state' = state
    BY <1>4 DEF ResolveGate, ResolveApprovalGate, OpenGateIsAwaited
  <2>2. pc'[h] = "applyDecision"
    BY <1>4, <1>t DEF ResolveGate
  <2>3. QED
    BY <2>1, <2>2 DEF Fits
<1>5. CASE ApplyArchitectureDecision(h)
  <2>1. state' = state
    BY <1>5 DEF ApplyArchitectureDecision
  <2>2. \/ pc'[h] = "idle"
        \/ state = "WAITING_ARCHITECT_APPROVAL" /\ pc'[h] \in {"beginExecution", "reject", "revise"}
    BY <1>5, <1>g DEF ApplyArchitectureDecision
  <2>3. QED
    BY <1>f, <2>1, <2>2 DEF Fits
<1>6. CASE ApplyFinalDecision(h)
  <2>1. state' = state
    BY <1>6 DEF ApplyFinalDecision
  <2>2. \/ pc'[h] = "idle"
        \/ state = "WAITING_FINAL_APPROVAL" /\ pc'[h] \in {"finalize", "reject", "revise"}
    BY <1>6, <1>g DEF ApplyFinalDecision
  <2>3. QED
    BY <1>f, <2>1, <2>2 DEF Fits, RevisableStates
<1>7. CASE Finalize(h)
  BY <1>7, <1>f, <1>g DEF Finalize, SetFinalResult, Fits
<1>8. CASE RequestRevision(h)
  BY <1>8, <1>f, <1>g DEF RequestRevision, Fits
<1>9. CASE EnterRevision(h)
  <2>1. state \in RevisableStates /\ state' = state
    BY <1>9, <1>f DEF EnterRevision, Fits, sessionVars
  <2>2. \/ state # "REVISION" /\ pc'[h] = "enterRevision"
        \/ state = "REVISION" /\ pc'[h] = "rearchitect"
    BY <1>9, <2>1, <1>g DEF EnterRevision
  <2>3. QED
    BY <2>1, <2>2 DEF Fits
<1>10. CASE RecordRevision(h)
  <2>1. state = "ARCHITECTING" /\ state' = state
    BY <1>10, <1>f DEF RecordRevision, AddRevisionMessage, Fits
  <2>2. pc'[h] \in {"build", "idle"}
    BY <1>10, <2>1, <1>g DEF RecordRevision
  <2>3. QED
    BY <2>1, <2>2 DEF Fits
<1>11. CASE Evaluate(h) \/ RecordSupervisorResult(h) \/ RecomputeEvidence(h) \/ RecordQA(h)
  <2>1. state = "SUPERVISING" /\ state' = state
    BY <1>11, <1>f DEF Evaluate, RecordSupervisorResult, RecomputeEvidence, RecordQA,
       AddQAMessage, Fits
  <2>2. pc'[h] \in {"record", "revise", "fail", "recompute", "recordQA", "idle", "awaitFinal"}
    BY <1>11, <1>g DEF Evaluate, QAStatus, RecordSupervisorResult, RecomputeEvidence, RecordQA
  <2>3. QED
    BY <2>1, <2>2 DEF Fits, RevisableStates
<1>12. CASE MoveState(h)
  <2>1. CASE UNCHANGED sessionVars /\ Goto(h, "idle", NoJob)
    BY <2>1, <1>f, <1>g
  <2>2. CASE /\ pc[h] \in DOMAIN Transitions
             /\ SetState(Transitions[pc[h]].target)
             /\ Goto(h, Transitions[pc[h]].next, job[h])
    <3>1. \A step \in DOMAIN Transitions : Fits(Transitions[step].next, Transitions[step].target)
      BY DEF Transitions, Fits, RevisableStates
    <3>2. QED
      BY <2>2, <3>1, <1>g DEF SetState
  <2>3. QED
    BY <1>12, <2>1, <2>2 DEF MoveState
<1>13. CASE RecoverSupervision(h)
  BY <1>13, <1>g DEF RecoverSupervision, Fits
<1>14. ASSUME NEW w \in Workers, RecoverExecution(h, w) PROVE Fits(pc'[h], state')
  BY <1>14, <1>g DEF RecoverExecution, Fits
<1>15. CASE ReconcileLocal(h) \/ ReconcileBackend(h)
  <2>1. state = "EXECUTING" /\ state' = state
    BY <1>15, <1>f DEF ReconcileLocal, ReconcileBackend, AddExecutionResult, Fits
  <2>2. pc'[h] \in {"supervise", "superviseFailure"}
    BY <1>15, <1>g DEF ReconcileLocal, ReconcileBackend, AfterReconciliation
  <2>3. QED
    BY <2>1, <2>2 DEF Fits
<1>16. CASE OrchestratorStep(h)
  <2>1. CASE ExecuteRun(h)
    BY <2>1, <1>f, <1>g DEF ExecuteRun, Fits
  <2>2. CASE NextBatch(h)
    <3>1. pc'[h] = "authorize"
      BY <2>2, <1>g DEF NextBatch
    <3>2. QED
      BY <2>2, <3>1, <1>f DEF NextBatch, Fits
  <2>3. ASSUME NEW w \in Workers,
               \/ SkipWorker(h, w) \/ AuthorizeWorker(h, w) \/ PlanningError(h, w)
               \/ NeedToolGate(h, w)
        PROVE  Fits(pc'[h], state')
    <3>1. state = "EXECUTING" /\ state' = state
      BY <2>3, <1>f DEF SkipWorker, AuthorizeWorker, PlanningError, NeedToolGate,
         SetWorkerOutput, Fits
    <3>2. pc'[h] \in {"authorize", "running", "pause", "dispatch", "supervise", "requestToolGate",
                      "markWaiting"}
      BY <2>3, <1>a, <1>g DEF SkipWorker, AuthorizeWorker, PlanningError, NeedToolGate
    <3>3. QED
      BY <3>1, <3>2 DEF Fits
  <2>4. ASSUME NEW w \in Workers, NEW success \in BOOLEAN,
               FinishExecution(h, w, success) \/ ExecutionRaises(h, w)
        PROVE  Fits(pc'[h], state')
    <3>1. state = "EXECUTING" /\ state' = state
      BY <2>4, <1>f DEF FinishExecution, ExecutionRaises, AddExecutionResult, Fits
    <3>2. pc'[h] \in {"running", "idle", "writeOutputs"}
      BY <2>4, <1>c, <1>g DEF FinishExecution, ExecutionRaises
    <3>3. QED
      BY <3>1, <3>2 DEF Fits
  <2>5. CASE RequestToolGate(h) \/ MarkWaitingForGate(h) \/ WriteOutput(h)
    <3>1. state = "EXECUTING" /\ state' = state
      BY <2>5, <1>f DEF RequestToolGate, MarkWaitingForGate, WriteOutput, AddApprovalGate,
         SetWorkerOutput, Fits
    <3>2. pc'[h] \in {"markWaiting", "authorize", "running", "pause", "dispatch", "supervise",
                      "writeOutputs"}
      <4>1. CASE RequestToolGate(h)
        BY <4>1, <1>g DEF RequestToolGate
      <4>2. CASE MarkWaitingForGate(h)
        BY <4>2, <1>a, <1>g DEF MarkWaitingForGate
      <4>3. CASE WriteOutput(h)
        BY <4>3, <1>b, <1>g DEF WriteOutput
      <4>4. QED
        BY <2>5, <4>1, <4>2, <4>3
    <3>3. QED
      BY <3>1, <3>2 DEF Fits
  <2>6. ASSUME NEW g \in Gates, ResumeAfterToolGate(h, g) PROVE Fits(pc'[h], state')
    BY <2>6, <1>g DEF ResumeAfterToolGate, Fits
  <2>7. ASSUME NEW d \in HumanDecisions, ResolveToolGate(h, d) PROVE Fits(pc'[h], state')
    <3>1. state = "WORKER_WAITING_HUMAN" /\ state' = state
      BY <2>7, <1>f DEF ResolveToolGate, ResolveApprovalGate, Fits
    <3>2. pc'[h] \in {"idle", "toolOutput"}
      BY <2>7, <1>g DEF ResolveToolGate
    <3>3. QED
      BY <3>1, <3>2 DEF Fits
  <2>8. CASE WriteToolDecision(h)
    <3>1. state = "WORKER_WAITING_HUMAN" /\ state' = state
      BY <2>8, <1>f DEF WriteToolDecision, SetWorkerOutput, Fits
    <3>2. pc'[h] \in {"beginExecution", "revise"}
      BY <2>8, <1>g DEF WriteToolDecision
    <3>3. QED
      BY <3>1, <3>2 DEF Fits, RevisableStates
  <2>9. QED
    BY <1>2, <1>16, <2>1, <2>2, <2>3, <2>4, <2>5, <2>6, <2>7, <2>8 DEF OrchestratorStep
<1>17. QED
  BY <1>1, <1>2, <1>3, <1>4, <1>5, <1>6, <1>7, <1>8, <1>9, <1>10, <1>11, <1>12, <1>13, <1>14,
     <1>15, <1>16 DEF Step, CoordinatorStep

-------------------------------------------------------------------------------
(* The gates.                                                              *)

\* What was approved stays approved.
LEMMA ApprovedAtStays ==
  ASSUME WellFormed, NEW h \in Handlers, Step(h), NEW kind, NEW subject,
         ApprovedAt(kind, subject)
  PROVE  \E g \in Gates : /\ gates'[g].kind = kind
                          /\ gates'[g].decision = "APPROVE"
                          /\ gates'[g].subject = subject
<1>1. PICK g \in Gates :
        gates[g].kind = kind /\ gates[g].decision = "APPROVE" /\ gates[g].subject = subject
  BY DEF ApprovedAt
<1>2. gates'[g] = gates[g]
  BY <1>1, DecisionsStay, NoneIsFresh DEF HumanDecisionType
<1>3. QED
  BY <1>1, <1>2

\* From a state that offers neither work nor a recovery, an idle handler starts
\* with nothing but the answer of a gate.
LEMMA OnlyAnswers ==
  ASSUME NEW h \in Handlers, Step(h), pc[h] = "idle",
         state \in {"WAITING_ARCHITECT_APPROVAL", "WAITING_FINAL_APPROVAL"} \cup TerminalStates
  PROVE  \E g \in Gates, d \in HumanDecisions : ResolveGate(h, g, d)
<1>1. /\ pc[h] = "idle"
      /\ state \notin { "IDLE", "ARCHITECTING", "REVISION", "SUPERVISING", "EXECUTING",
                        "WORKER_WAITING_HUMAN" }
  BY DEF TerminalStates
<1>2. ~(\/ StartRun(h) \/ BuildArchitecture(h) \/ StorePlan(h) \/ PlanFails(h)
        \/ RequestPlanGate(h) \/ ApplyArchitectureDecision(h) \/ ApplyFinalDecision(h)
        \/ Finalize(h) \/ RequestRevision(h) \/ EnterRevision(h) \/ RecordRevision(h))
  BY <1>1 DEF StartRun, BuildArchitecture, StorePlan, PlanFails, RequestPlanGate,
     ApplyArchitectureDecision, ApplyFinalDecision, Finalize, RequestRevision, EnterRevision,
     RecordRevision
<1>3. ~(\/ Evaluate(h) \/ RecordSupervisorResult(h) \/ RecomputeEvidence(h) \/ RecordQA(h)
        \/ RequestFinalGate(h)
        \/ RecoverArchitecture(h) \/ RecoverSupervision(h)
        \/ \E w \in Workers : RecoverExecution(h, w)
        \/ ReconcileLocal(h) \/ ReconcileBackend(h) \/ ReconcileNothing(h))
  BY <1>1 DEF Evaluate, RecordSupervisorResult, RecomputeEvidence, RecordQA, RequestFinalGate,
     RecoverArchitecture, RecoverSupervision, RecoverExecution, ReconcileLocal,
     ReconcileBackend, ReconcileNothing
<1>4. ~MoveState(h)
  BY <1>1 DEF MoveState, Transitions
<1>5. ~OrchestratorStep(h)
  BY <1>1 DEF OrchestratorStep, ExecuteRun, PreparationRaises, NextBatch, SkipWorker,
     AuthorizeWorker, PlanningError, NeedToolGate, RequestToolGate, MarkWaitingForGate,
     FinishExecution, ExecutionRaises, WriteOutput, ResumeAfterToolGate, ResolveToolGate,
     WriteToolDecision
<1>6. QED
  BY <1>2, <1>3, <1>4, <1>5 DEF Step, CoordinatorStep

\* One open gate at a time: the state tells its kind, and of a kind one is open.
LEMMA OneOpenGate ==
  ASSUME OpenGateIsAwaited, NEW g \in Gates, HumanGate(g), gates[g].status = "OPEN",
         NEW k \in Gates, HumanGate(k), gates[k].status = "OPEN"
  PROVE  g = k
BY DEF OpenGateIsAwaited, HumanGate

\* A gate is opened when no other one is, by the step that brings the handler
\* to its end, and about what the session holds.
LEMMA GateOpens ==
  ASSUME OneTab, WellFormed, OpenGateIsCurrent, NEW h \in Handlers, pc[h] # "idle",
         NEW kind \in {"ARCHITECTURE", "FINAL"}, NEW subject, AddApprovalGate(kind, subject),
         state = IF kind = "FINAL" THEN "WAITING_FINAL_APPROVAL" ELSE "WAITING_ARCHITECT_APPROVAL",
         subject = IF kind = "FINAL" THEN qa ELSE plan,
         pc'[h] = "idle"
  PROVE  OpenGateIsAwaited' /\ OpenGateIsCurrent'
<1>t. gates \in [Gates -> ApprovalGate]
  BY DEF WellFormed, TypeOK, SessionTypeOK
<1>1. \A g \in Gates : HumanGate(g) => gates[g].status = "RESOLVED"
  <2>1. ~Idle
    BY DEF Idle
  <2>2. \A g \in Gates : gates[g].status \in {"ABSENT", "OPEN", "RESOLVED"}
    BY <1>t DEF ApprovalGate
  <2>3. QED
    BY <2>1, <2>2, NoneIsFresh DEF OpenGateIsCurrent, HumanGate, GateKind
<1>2. PICK g \in Gates :
        /\ gates'[g].kind = kind /\ gates'[g].status = "OPEN" /\ gates'[g].subject = subject
        /\ \A k \in Gates : k # g => gates'[k] = gates[k]
  BY <1>t DEF AddApprovalGate
<1>3. state' = state /\ plan' = plan /\ qa' = qa
  BY DEF AddApprovalGate
<1>4. Idle'
  BY DEF Idle, OneTab
<1>5. OpenGateIsAwaited'
  BY <1>1, <1>2, <1>3 DEF OpenGateIsAwaited, HumanGate
<1>6. OpenGateIsCurrent'
  BY <1>1, <1>2, <1>3, <1>4 DEF OpenGateIsCurrent, HumanGate
<1>7. QED
  BY <1>5, <1>6

\* An open gate is the one the run waits for, and nothing goes on beside it.
LEMMA GatesStay ==
  ASSUME OneTab, WellFormed, OneTabInv, NEW h \in Handlers, Step(h)
  PROVE  OpenGateIsAwaited' /\ OpenGateIsCurrent'
<1> USE DEF OneTabInv
<1>t. /\ gates \in [Gates -> ApprovalGate]
      /\ pc \in [Handlers -> Steps]
  BY DEF WellFormed, TypeOK, SessionTypeOK
<1>f. Fits(pc[h], state)
  BY DEF StateOfStep
<1>1. CASE RequestPlanGate(h)
  <2>1. pc[h] = "requestPlanGate" /\ AddApprovalGate("ARCHITECTURE", job[h].plan)
    BY <1>1 DEF RequestPlanGate
  <2>2. pc'[h] = "idle"
    BY <1>1, <1>t DEF RequestPlanGate, Goto
  <2>3. state = "WAITING_ARCHITECT_APPROVAL" /\ job[h].plan = plan
    BY <1>f, <2>1 DEF Fits, PlanIsApproved
  <2>4. QED
    BY <2>1, <2>2, <2>3, GateOpens
<1>2. CASE RequestFinalGate(h)
  <2>1. pc[h] = "requestFinalGate" /\ AddApprovalGate("FINAL", job[h].evidence)
    BY <1>2 DEF RequestFinalGate
  <2>2. pc'[h] = "idle"
    BY <1>2, <1>t DEF RequestFinalGate, Goto
  <2>3. state = "WAITING_FINAL_APPROVAL" /\ job[h].evidence = qa
    BY <1>f, <2>1 DEF Fits, EvidenceIsApproved
  <2>4. QED
    BY <2>1, <2>2, <2>3, GateOpens
<1>3. ASSUME NEW g \in Gates, NEW d \in HumanDecisions, ResolveGate(h, g, d)
      PROVE  OpenGateIsAwaited' /\ OpenGateIsCurrent'
  <2>1. HumanGate(g) /\ ResolveApprovalGate(g, d)
    BY <1>3 DEF ResolveGate, HumanGate
  <2>2. gates[g] \in ApprovalGate
    BY <1>t
  <2>3. gates'[g].status = "RESOLVED" /\ \A k \in Gates : k # g => gates'[k] = gates[k]
    BY <1>t, <2>1, <2>2 DEF ResolveApprovalGate, ApprovalGate
  <2>4. \A k \in Gates : k # g /\ HumanGate(k) => gates[k].status # "OPEN"
    BY <2>1, OneOpenGate DEF ResolveApprovalGate
  <2>5. \A k \in Gates : gates'[k].kind \in {"ARCHITECTURE", "FINAL"} => gates'[k].status # "OPEN"
    BY <2>3, <2>4 DEF HumanGate
  <2>6. \A k \in Gates : gates'[k].status = "ABSENT" => gates'[k].kind = None
    BY <2>3 DEF OpenGateIsCurrent
  <2>7. QED
    BY <2>5, <2>6 DEF OpenGateIsAwaited, OpenGateIsCurrent, HumanGate
<1>4. CASE /\ ~ \E g \in Gates, d \in HumanDecisions : ResolveGate(h, g, d)
           /\ \A g \in Gates : \/ gates'[g] = gates[g]
                               \/ /\ gates'[g].kind = "TOOL_RISK" /\ gates'[g].status # "ABSENT"
                                  /\ ~HumanGate(g)
  <2>1. ASSUME NEW g \in Gates, HumanGate(g), gates[g].status = "OPEN" PROVE FALSE
    <3>1. pc[h] = "idle"
      BY <2>1 DEF OpenGateIsCurrent, Idle
    <3>2. state \in {"WAITING_ARCHITECT_APPROVAL", "WAITING_FINAL_APPROVAL"}
      BY <2>1 DEF OpenGateIsAwaited, HumanGate
    <3>3. QED
      BY <1>4, <3>1, <3>2, OnlyAnswers
  <2>2. \A g \in Gates : gates'[g].kind \in {"ARCHITECTURE", "FINAL"} => gates'[g].status # "OPEN"
    BY <1>4, <2>1 DEF HumanGate
  <2>3. \A g \in Gates : gates'[g].status = "ABSENT" => gates'[g].kind = None
    BY <1>4 DEF OpenGateIsCurrent
  <2>4. QED
    BY <2>2, <2>3 DEF OpenGateIsAwaited, OpenGateIsCurrent, HumanGate
<1>5. GateShapes
  BY DEF GateShapes, OpenGateIsCurrent, DecisionIsCurrent
<1>6. QED
  BY <1>1, <1>2, <1>3, <1>4, <1>5, HumanGateWrites

-------------------------------------------------------------------------------
(* The plan that a handler works from.                                     *)

\* A handler's copy of the plan is the one execute_run took.
LEMMA PlanCopies ==
  ASSUME WellFormed, NEW h \in Handlers, Step(h),
         pc'[h] \in OrchestratorSteps \ {"execute"}, job'[h].plan # None
  PROVE  \/ ExecuteRun(h)
         \/ pc[h] \in OrchestratorSteps \ {"execute"} /\ job'[h].plan = job[h].plan
<1>t. pc \in [Handlers -> Steps] /\ job \in [Handlers -> Job] /\ job[h] \in Job
  BY DEF WellFormed, TypeOK
<1>g. ASSUME NEW step, NEW j, Goto(h, step, j)
      PROVE  pc'[h] = step /\ (step # "idle" => job'[h] = j)
  BY <1>g, <1>t DEF Goto
<1>i. pc'[h] # "idle"
  BY DEF OrchestratorSteps
<1>1. CASE CoordinatorStep(h)
  <2>1. \/ \E g \in Gates, d \in HumanDecisions : ResolveGate(h, g, d)
        \/ \E j : \E step \in CoordinatorSteps \cup {"execute"} : Goto(h, step, j)
    <3>1. CASE \/ StartRun(h) \/ BuildArchitecture(h) \/ StorePlan(h) \/ PlanFails(h)
               \/ RequestPlanGate(h) \/ ApplyArchitectureDecision(h) \/ ApplyFinalDecision(h)
               \/ Finalize(h)
      BY <3>1 DEF StartRun, BuildArchitecture, StorePlan, PlanFails, RequestPlanGate,
         ApplyArchitectureDecision, ApplyFinalDecision, Finalize, CoordinatorSteps, Transitions
    <3>2. CASE \/ RequestRevision(h) \/ EnterRevision(h) \/ RecordRevision(h)
               \/ RecordSupervisorResult(h) \/ RecomputeEvidence(h) \/ RecordQA(h)
               \/ RequestFinalGate(h)
      BY <3>2 DEF RequestRevision, EnterRevision, RecordRevision, RecordSupervisorResult,
         RecomputeEvidence, RecordQA, RequestFinalGate, CoordinatorSteps, Transitions
    <3>3. CASE Evaluate(h)
      BY <3>3 DEF Evaluate, QAStatus, CoordinatorSteps, Transitions
    <3>4. CASE MoveState(h)
      <4>1. \A step \in DOMAIN Transitions :
              Transitions[step].next \in CoordinatorSteps \cup {"execute"}
        BY DEF Transitions, CoordinatorSteps
      <4>2. QED
        BY <3>4, <4>1 DEF MoveState, CoordinatorSteps
    <3>5. CASE RecoverArchitecture(h) \/ RecoverSupervision(h) \/ ReconcileNothing(h)
      BY <3>5 DEF RecoverArchitecture, RecoverSupervision, ReconcileNothing, CoordinatorSteps
    <3>6. CASE ReconcileLocal(h) \/ ReconcileBackend(h)
      BY <3>6 DEF ReconcileLocal, ReconcileBackend, AfterReconciliation, CoordinatorSteps,
         Transitions
    <3>7. ASSUME NEW w \in Workers, RecoverExecution(h, w)
          PROVE  \E j : Goto(h, "reconcile", j)
      BY <3>7 DEF RecoverExecution
    <3>8. QED
      BY <1>1, <3>1, <3>2, <3>3, <3>4, <3>5, <3>6, <3>7 DEF CoordinatorStep, CoordinatorSteps
  <2>2. (CoordinatorSteps \cup {"execute"}) \cap (OrchestratorSteps \ {"execute"}) = {}
    BY DEF CoordinatorSteps, OrchestratorSteps, Transitions
  <2>3. \A g \in Gates, d \in HumanDecisions : ResolveGate(h, g, d) => pc'[h] = "applyDecision"
    BY <1>t DEF ResolveGate
  <2>4. "applyDecision" \in CoordinatorSteps
    BY DEF CoordinatorSteps
  <2>5. pc'[h] \in CoordinatorSteps \cup {"execute"}
    BY <2>1, <2>3, <2>4, <1>g
  <2>6. QED
    BY <2>2, <2>5
<1>2. CASE PreparationRaises(h)
  BY <1>2, <1>g, <1>i DEF PreparationRaises
<1>3. CASE NextBatch(h) \/ RequestToolGate(h) \/ WriteToolDecision(h)
  <2>1. CASE NextBatch(h)
    <3>1. PICK batch \in (SUBSET job[h].todo) \ {{}} :
            Goto(h, "authorize", [job[h] EXCEPT !.batch = batch, !.todo = @ \ batch])
      BY <2>1 DEF NextBatch
    <3> DEFINE j == [job[h] EXCEPT !.batch = batch, !.todo = @ \ batch]
    <3>2. Goto(h, "authorize", j) /\ j.plan = job[h].plan
      BY <3>1, <1>t DEF Job
    <3> HIDE DEF j
    <3>3. job'[h] = j
      BY <3>2, <1>g
    <3>4. QED
      BY <2>1, <3>2, <3>3 DEF NextBatch, OrchestratorSteps
  <2>2. CASE RequestToolGate(h)
    BY <2>2, <1>g DEF RequestToolGate, OrchestratorSteps
  <2>3. CASE WriteToolDecision(h)
    BY <2>3, <1>g DEF WriteToolDecision, OrchestratorSteps
  <2>4. QED
    BY <1>3, <2>1, <2>2, <2>3
<1>4. CASE MarkWaitingForGate(h) \/ WriteOutput(h)
  <2>1. pc[h] \in OrchestratorSteps \ {"execute"}
    BY <1>4 DEF MarkWaitingForGate, WriteOutput, OrchestratorSteps
  <2>2. CASE MarkWaitingForGate(h)
    <3> DEFINE j == [job[h] EXCEPT !.pending = @ \cup {job[h].worker}, !.worker = None]
    <3>1. Goto(h, AfterAuthorization(j), j)
      BY <2>2 DEF MarkWaitingForGate
    <3>2. j.plan = job[h].plan
      BY <1>t DEF Job
    <3>3. QED
      BY <2>1, <3>1, <3>2, <1>g, <1>i
  <2>3. CASE WriteOutput(h)
    <3> DEFINE j(result) == [job[h] EXCEPT !.done = @ \ {result}]
    <3>1. PICK result \in job[h].done :
            Goto(h, IF j(result).done # {} THEN "writeOutputs" ELSE AfterBatch(j(result)), j(result))
      BY <2>3 DEF WriteOutput
    <3>2. j(result).plan = job[h].plan
      BY <1>t DEF Job
    <3>3. QED
      BY <2>1, <3>1, <3>2, <1>g, <1>i
  <2>4. QED
    BY <1>4, <2>2, <2>3
<1>5. ASSUME NEW w \in Workers,
             \/ SkipWorker(h, w) \/ AuthorizeWorker(h, w) \/ PlanningError(h, w)
             \/ NeedToolGate(h, w) \/ ExecutionRaises(h, w)
      PROVE  pc[h] \in OrchestratorSteps \ {"execute"} /\ job'[h].plan = job[h].plan
  <2>1. pc[h] \in OrchestratorSteps \ {"execute"}
    BY <1>5 DEF SkipWorker, AuthorizeWorker, PlanningError, NeedToolGate, ExecutionRaises,
       OrchestratorSteps
  <2>2. CASE SkipWorker(h, w) \/ PlanningError(h, w)
    <3> DEFINE j == [job[h] EXCEPT !.batch = @ \ {w}]
    <3>1. Goto(h, AfterAuthorization(j), j)
      BY <2>2 DEF SkipWorker, PlanningError
    <3>2. j.plan = job[h].plan
      BY <1>t DEF Job
    <3>3. QED
      BY <2>1, <3>1, <3>2, <1>g, <1>i
  <2>3. CASE AuthorizeWorker(h, w)
    <3> DEFINE j == [job[h] EXCEPT !.batch = @ \ {w}, !.running = @ \cup {w},
                                   !.granted = IF Granted(w) THEN @ \cup {w} ELSE @ \ {w}]
    <3>1. Goto(h, AfterAuthorization(j), j)
      BY <2>3 DEF AuthorizeWorker
    <3>2. j.plan = job[h].plan
      BY <1>t DEF Job
    <3>3. QED
      BY <2>1, <3>1, <3>2, <1>g, <1>i
  <2>4. CASE NeedToolGate(h, w)
    <3> DEFINE j == [job[h] EXCEPT !.batch = @ \ {w}, !.worker = w]
    <3>1. Goto(h, IF ToolGates(w) = {} THEN "requestToolGate" ELSE "markWaiting", j)
      BY <2>4 DEF NeedToolGate
    <3>2. j.plan = job[h].plan
      BY <1>t DEF Job
    <3>3. QED
      BY <2>1, <3>1, <3>2, <1>g, <1>i
  <2>5. CASE ExecutionRaises(h, w)
    <3> DEFINE j == [job[h] EXCEPT !.running = @ \ {w}, !.raised = TRUE]
    <3>1. Goto(h, AfterThread(j), j)
      BY <2>5 DEF ExecutionRaises
    <3>2. j.plan = job[h].plan
      BY <1>t DEF Job
    <3>3. QED
      BY <2>1, <3>1, <3>2, <1>g, <1>i
  <2>6. QED
    BY <1>5, <2>2, <2>3, <2>4, <2>5
<1>6. ASSUME NEW w \in Workers, NEW success \in BOOLEAN, FinishExecution(h, w, success)
      PROVE  pc[h] \in OrchestratorSteps \ {"execute"} /\ job'[h].plan = job[h].plan
  <2> DEFINE rest == [job[h] EXCEPT !.running = @ \ {w}]
             j(completed) == IF completed THEN [rest EXCEPT !.done = @ \cup {<<w, success>>}]
                                          ELSE [rest EXCEPT !.raised = TRUE]
  <2>1. PICK completed \in BOOLEAN : Goto(h, AfterThread(j(completed)), j(completed))
    BY <1>6 DEF FinishExecution
  <2> DEFINE k == j(completed)
  <2>2. Goto(h, AfterThread(k), k) /\ k.plan = job[h].plan
    <3>1. rest \in Job /\ rest.plan = job[h].plan
      BY <1>t DEF Job
    <3> HIDE DEF rest
    <3>2. k.plan = rest.plan
      BY <3>1 DEF Job
    <3>3. QED
      BY <2>1, <3>1, <3>2
  <2> HIDE DEF k
  <2>3. job'[h].plan = job[h].plan
    <3>1. AfterThread(k) # "idle" => job'[h] = k
      BY <2>2, <1>g
    <3>2. AfterThread(k) # "idle"
      BY <2>2, <1>g, <1>i
    <3>3. QED
      BY <2>2, <3>1, <3>2
  <2>4. QED
    BY <1>6, <2>3 DEF FinishExecution, OrchestratorSteps
<1>7. ASSUME NEW g \in Gates, ResumeAfterToolGate(h, g) PROVE FALSE
  <2> DEFINE j == [NoJob EXCEPT !.gate = g, !.worker = gates[g].subject]
  <2>1. Goto(h, "resolveToolGate", j)
    BY <1>7 DEF ResumeAfterToolGate
  <2>2. j.plan = None
    BY DEF NoJob
  <2>3. job'[h] = j
    BY <2>1, <1>g
  <2>4. QED
    BY <2>2, <2>3
<1>8. ASSUME NEW d \in HumanDecisions, ResolveToolGate(h, d)
      PROVE  pc[h] \in OrchestratorSteps \ {"execute"} /\ job'[h].plan = job[h].plan
  BY <1>8, <1>g, <1>i DEF ResolveToolGate, OrchestratorSteps
<1>9. QED
  BY <1>1, <1>2, <1>3, <1>4, <1>5, <1>6, <1>7, <1>8 DEF Step, OrchestratorStep

-------------------------------------------------------------------------------
(* What is decided, executed and delivered.                                *)

\* The decision a handler comes to apply was given on the gate of this state.
LEMMA DecisionStays ==
  ASSUME OneTab, WellFormed, OneTabInv, NEW h \in Handlers, Step(h)
  PROVE  DecisionIsCurrent'
<1> USE DEF OneTabInv
<1>t. /\ gates \in [Gates -> ApprovalGate]
      /\ pc \in [Handlers -> Steps] /\ job \in [Handlers -> Job]
  BY DEF WellFormed, TypeOK, SessionTypeOK
<1>1. ASSUME pc'[h] = "applyDecision"
      PROVE  LET gate == gates'[job'[h].gate] IN
               \/ /\ gate.kind = "ARCHITECTURE" /\ gate.subject = plan'
                  /\ state' = "WAITING_ARCHITECT_APPROVAL"
               \/ /\ gate.kind = "FINAL" /\ gate.subject = qa'
                  /\ state' = "WAITING_FINAL_APPROVAL"
  <2>1. PICK g \in Gates, d \in HumanDecisions : ResolveGate(h, g, d)
    BY <1>1, CompletionSteps
  <2>2. HumanGate(g) /\ gates[g].status = "OPEN" /\ UNCHANGED <<state, plan, qa>>
    BY <2>1 DEF ResolveGate, ResolveApprovalGate, HumanGate
  <2>3. gates[g] \in ApprovalGate
    BY <1>t
  <2>4. gates'[g].kind = gates[g].kind /\ gates'[g].subject = gates[g].subject
    BY <1>t, <2>1, <2>3 DEF ResolveGate, ResolveApprovalGate, ApprovalGate
  <2>5. job'[h].gate = g
    BY <1>t, <2>1 DEF ResolveGate, NoJob
  <2>6. /\ gates[g].subject = IF gates[g].kind = "FINAL" THEN qa ELSE plan
        /\ state = IF gates[g].kind = "FINAL" THEN "WAITING_FINAL_APPROVAL"
                                              ELSE "WAITING_ARCHITECT_APPROVAL"
    BY <2>2 DEF OpenGateIsCurrent, OpenGateIsAwaited, HumanGate
  <2>7. QED
    BY <2>2, <2>4, <2>5, <2>6 DEF HumanGate
<1>2. ASSUME pc'[h] = "resolveToolGate" PROVE gates'[job'[h].gate].kind = "TOOL_RISK"
  <2>1. PICK g \in Gates : ResumeAfterToolGate(h, g)
    BY <1>2, Arrivals
  <2>2. job'[h].gate = g
    BY <1>t, <2>1 DEF ResumeAfterToolGate, Goto, NoJob
  <2>3. QED
    BY <2>1, <2>2 DEF ResumeAfterToolGate, sessionVars
<1>3. ASSUME pc'[h] = "toolOutput" PROVE gates'[job'[h].gate].kind = "TOOL_RISK"
  <2>1. PICK d \in HumanDecisions : ResolveToolGate(h, d)
    BY <1>3, Arrivals
  <2>2. /\ job'[h] = job[h] /\ job[h].gate \in Gates
        /\ gates[job[h].gate].kind = "TOOL_RISK"
        /\ ResolveApprovalGate(job[h].gate, d)
    BY <1>3, <1>t, <2>1 DEF ResolveToolGate, Goto, WellFormed, LocalsOK, DecisionIsCurrent
  <2>3. gates[job[h].gate] \in ApprovalGate
    BY <1>t, <2>2
  <2>4. QED
    BY <1>t, <2>2, <2>3 DEF ResolveApprovalGate, ApprovalGate
<1>4. QED
  BY <1>1, <1>2, <1>3 DEF OneTab, DecisionIsCurrent

\* The plan in the session is the approved one.
LEMMA PlanStays ==
  ASSUME OneTab, WellFormed, OneTabInv, NEW h \in Handlers, Step(h)
  PROVE  PlanIsApproved'
<1> USE DEF OneTabInv
<1>t. pc \in [Handlers -> Steps] /\ job \in [Handlers -> Job]
  BY DEF WellFormed, TypeOK
<1>f. Fits(pc[h], state)
  BY DEF StateOfStep
<1>s. ASSUME ApprovedAt("ARCHITECTURE", plan), plan' = plan
      PROVE  ApprovedAt("ARCHITECTURE", plan)'
  BY <1>s, ApprovedAtStays DEF ApprovedAt
<1>1. ASSUME state' \in {"EXECUTING", "WORKER_WAITING_HUMAN"}
      PROVE  ApprovedAt("ARCHITECTURE", plan)'
  <2>1. CASE state' = state
    <3>1. ~StorePlan(h)
      BY <1>1, <1>f, <2>1 DEF StorePlan, Fits
    <3>2. plan' = plan
      BY <3>1, PlanWrites
    <3>3. QED
      BY <1>1, <1>s, <2>1, <3>2 DEF PlanIsApproved
  <2>2. CASE Moves(h)
    <3>1. pc[h] \in {"beginExecution", "pause"}
      BY <1>1, <2>2 DEF Moves, SetState, Transitions
    <3>2. ApprovedAt("ARCHITECTURE", plan)
      BY <1>f, <3>1 DEF PlanIsApproved, Fits
    <3>3. QED
      BY <1>s, <2>2, <3>2 DEF Moves, SetState
  <2>3. QED
    BY <1>1, <2>1, <2>2, StateWrites DEF WellFormed
<1>2. ASSUME pc'[h] \in {"awaitPlanDecision", "requestPlanGate"} PROVE job'[h].plan = plan'
  <2>1. CASE pc'[h] = "awaitPlanDecision"
    <3>1. StorePlan(h)
      BY <2>1, Arrivals
    <3>2. PICK p \in Plans : /\ plan' = p
                             /\ Goto(h, "awaitPlanDecision", [job[h] EXCEPT !.plan = p])
      BY <3>1 DEF StorePlan, SetArchitecturePlan
    <3>3. job'[h] = [job[h] EXCEPT !.plan = p] /\ job[h] \in Job
      BY <1>t, <3>2 DEF Goto
    <3>4. QED
      BY <3>2, <3>3 DEF Job
  <2>2. CASE pc'[h] = "requestPlanGate"
    <3>1. Moves(h) /\ pc[h] = "awaitPlanDecision"
      BY <2>2, Arrivals
    <3>2. QED
      BY <2>2, <3>1 DEF Moves, SetState, PlanIsApproved
  <2>3. QED
    BY <1>2, <2>1, <2>2
<1>3. ASSUME pc'[h] = "beginExecution" PROVE ApprovedAt("ARCHITECTURE", plan)'
  <2>1. CASE ApplyArchitectureDecision(h)
    <3> DEFINE gate == job[h].gate
    <3>1. /\ pc[h] = "applyDecision" /\ gate \in Gates /\ plan' = plan
          /\ gates[gate].kind = "ARCHITECTURE" /\ gates[gate].decision = "APPROVE"
      BY <1>3, <1>t, <2>1 DEF ApplyArchitectureDecision, Goto, sessionVars, WellFormed, LocalsOK
    <3>2. gates[gate].subject = plan
      BY <3>1 DEF DecisionIsCurrent
    <3>3. QED
      BY <1>s, <3>1, <3>2 DEF ApprovedAt
  <2>2. CASE WriteToolDecision(h)
    <3>1. state = "WORKER_WAITING_HUMAN" /\ plan' = plan
      BY <1>f, <2>2 DEF WriteToolDecision, SetWorkerOutput, Fits
    <3>2. QED
      BY <1>s, <3>1 DEF PlanIsApproved
  <2>3. QED
    BY <1>3, <2>1, <2>2, Arrivals
<1>4. QED
  BY <1>1, <1>2, <1>3 DEF OneTab, PlanIsApproved

\* The plan a handler executes was taken from the session when it was approved.
LEMMA ExecutedStays ==
  ASSUME OneTab, WellFormed, OneTabInv, NEW h \in Handlers, Step(h)
  PROVE  ExecutedPlanApproved'
<1> USE DEF OneTabInv
<1>t. pc \in [Handlers -> Steps] /\ job \in [Handlers -> Job]
  BY DEF WellFormed, TypeOK
<1> SUFFICES ASSUME pc'[h] \in OrchestratorSteps \ {"execute"}, job'[h].plan # None
             PROVE  \E g \in Gates : /\ gates'[g].kind = "ARCHITECTURE"
                                     /\ gates'[g].decision = "APPROVE"
                                     /\ gates'[g].subject = job'[h].plan
  BY DEF OneTab, ExecutedPlanApproved
<1>1. CASE ExecuteRun(h)
  <2> DEFINE j == [NoJob EXCEPT !.plan = plan, !.todo = PlanWorkers[plan]]
  <2>1. state = "EXECUTING" /\ Goto(h, "dispatch", j)
    BY <1>1, <1>t DEF ExecuteRun, Goto, OrchestratorSteps
  <2>2. job'[h].plan = plan
    BY <1>t, <2>1 DEF Goto, NoJob
  <2>3. ApprovedAt("ARCHITECTURE", plan)
    BY <2>1 DEF PlanIsApproved
  <2>4. QED
    BY <2>2, <2>3, ApprovedAtStays
<1>2. CASE pc[h] \in OrchestratorSteps \ {"execute"} /\ job'[h].plan = job[h].plan
  <2>1. ApprovedAt("ARCHITECTURE", job[h].plan)
    BY <1>2 DEF ExecutedPlanApproved, ApprovedAt
  <2>2. QED
    BY <1>2, <2>1, ApprovedAtStays
<1>3. QED
  BY <1>1, <1>2, PlanCopies

\* The evidence from the QA PASS to the final result.
LEMMA EvidenceStays ==
  ASSUME OneTab, WellFormed, OneTabInv, NEW h \in Handlers, Step(h)
  PROVE  EvidenceIsApproved'
<1> USE DEF OneTabInv
<1>t. pc \in [Handlers -> Steps] /\ job \in [Handlers -> Job]
  BY DEF WellFormed, TypeOK
<1>f. Fits(pc[h], state)
  BY DEF StateOfStep
<1>c. ASSUME Clean, UNCHANGED evidenceVars PROVE Clean'
  BY <1>c DEF Clean, Unsatisfied, Reported, evidenceVars
<1>1. ASSUME state' \in {"WAITING_FINAL_APPROVAL", "COMPLETED"} PROVE Clean'
  <2>1. CASE state' = state
    <3>1. UNCHANGED evidenceVars
      BY <1>1, <1>f, <2>1, PlanWrites DEF Fits
    <3>2. QED
      BY <1>1, <1>c, <2>1, <3>1 DEF EvidenceIsApproved
  <2>2. CASE Moves(h)
    <3>1. pc[h] \in {"awaitFinal", "complete"} /\ UNCHANGED evidenceVars
      BY <1>1, <2>2 DEF Moves, SetState, Transitions
    <3>2. QED
      BY <1>c, <1>f, <3>1 DEF EvidenceIsApproved, Fits
  <2>3. QED
    BY <1>1, <2>1, <2>2, StateWrites DEF WellFormed
<1>2. ASSUME state' = "COMPLETED" PROVE ApprovedAt("FINAL", final)'
  <2>1. ApprovedAt("FINAL", final) /\ final' = final
    <3>1. CASE state = "COMPLETED"
      BY <1>f, <3>1, ResultWrites DEF EvidenceIsApproved, Finalize, Fits
    <3>2. CASE state # "COMPLETED"
      <4>1. pc[h] = "complete"
        BY <1>2, <3>2, CompletionStep
      <4>2. QED
        BY <4>1, ResultWrites DEF EvidenceIsApproved, Finalize
    <3>3. QED
      BY <3>1, <3>2
  <2>2. QED
    BY <2>1, ApprovedAtStays DEF ApprovedAt
<1>3. ASSUME pc'[h] \in {"recordQA", "awaitFinal"} PROVE Clean'
  <2>1. CASE RecomputeEvidence(h)
    <3>1. QAStatus = "PASS" /\ UNCHANGED evidenceVars
      BY <1>3, <1>t, <2>1 DEF RecomputeEvidence, Goto, sessionVars
    <3>2. Clean
      BY <3>1 DEF QAStatus, Clean
    <3>3. QED
      BY <1>c, <3>1, <3>2
  <2>2. CASE RecordQA(h)
    BY <1>c, <2>2 DEF RecordQA, AddQAMessage, EvidenceIsApproved
  <2>3. QED
    BY <1>3, <2>1, <2>2, Arrivals
<1>4. ASSUME pc'[h] \in {"awaitFinal", "requestFinalGate"} PROVE job'[h].evidence = qa'
  <2>1. CASE pc'[h] = "awaitFinal"
    <3>1. RecordQA(h)
      BY <2>1, Arrivals
    <3>2. QED
      BY <1>t, <3>1 DEF RecordQA, AddQAMessage, Goto
  <2>2. CASE pc'[h] = "requestFinalGate"
    <3>1. Moves(h) /\ pc[h] = "awaitFinal"
      BY <2>2, Arrivals
    <3>2. QED
      BY <2>2, <3>1 DEF Moves, SetState, EvidenceIsApproved
  <2>3. QED
    BY <1>4, <2>1, <2>2
<1>5. ASSUME pc'[h] = "finalize" PROVE ApprovedAt("FINAL", job[h].evidence)'
  <2> DEFINE gate == job[h].gate
  <2>1. ApplyFinalDecision(h)
    BY <1>5, CompletionSteps
  <2>2. /\ pc[h] = "applyDecision" /\ gate \in Gates
        /\ gates[gate].kind = "FINAL" /\ gates[gate].decision = "APPROVE"
    BY <1>5, <1>t, <2>1 DEF ApplyFinalDecision, Goto, WellFormed, LocalsOK
  <2>3. gates[gate].subject = qa
    BY <2>2 DEF DecisionIsCurrent
  <2>4. job'[h] = [job[h] EXCEPT !.evidence = qa] /\ job[h] \in Job
    BY <1>5, <1>t, <2>1 DEF ApplyFinalDecision, Goto
  <2>5. job'[h].evidence = qa
    BY <2>4 DEF Job
  <2>6. ApprovedAt("FINAL", qa)
    BY <2>2, <2>3 DEF ApprovedAt
  <2>7. QED
    BY <2>5, <2>6, ApprovedAtStays DEF ApprovedAt
<1>6. ASSUME pc'[h] = "complete"
      PROVE  ApprovedAt("FINAL", job[h].evidence)' /\ final' = job'[h].evidence
  <2>1. Finalize(h)
    BY <1>6, CompletionSteps
  <2>2. /\ pc[h] = "finalize" /\ job'[h] = job[h] /\ final' = job[h].evidence
    BY <1>t, <2>1 DEF Finalize, SetFinalResult, Goto
  <2>3. ApprovedAt("FINAL", job[h].evidence)
    BY <2>2 DEF EvidenceIsApproved
  <2>4. QED
    BY <2>2, <2>3, ApprovedAtStays DEF ApprovedAt
<1>7. QED
  BY <1>1, <1>2, <1>3, <1>4, <1>5, <1>6 DEF OneTab, EvidenceIsApproved

-------------------------------------------------------------------------------
(* The invariant, and what it gives.                                       *)

Inv == IInv /\ OneTabInv

\* A new session has it,
LEMMA OneTabInit == Init => Inv
<1> SUFFICES ASSUME Init PROVE OneTabInv
  BY InitInv DEF Inv
<1> USE DEF Init, CoordinatorInit, CreateSession
<1>1. StateOfStep
  BY DEF StateOfStep, Fits
<1>2. \A g \in Gates : gates[g].kind = None /\ gates[g].status = "ABSENT"
  BY DEF NoGate
<1>3. OpenGateIsAwaited /\ OpenGateIsCurrent
  BY <1>2 DEF OpenGateIsAwaited, OpenGateIsCurrent, HumanGate
<1>4. DecisionIsCurrent /\ PlanIsApproved /\ EvidenceIsApproved
  BY DEF DecisionIsCurrent, PlanIsApproved, EvidenceIsApproved
<1>5. ExecutedPlanApproved
  BY DEF ExecutedPlanApproved, OrchestratorSteps
<1>6. QED
  BY <1>1, <1>3, <1>4, <1>5 DEF OneTabInv

\* a crash keeps it, since an idle handler suits every state,
LEMMA OneTabCrash ==
  ASSUME Inv, Crash
  PROVE  Inv'
<1> USE DEF Inv, OneTabInv
<1>s. UNCHANGED <<state, plan, gates, outputs, passed, failed, qa, final>>
  BY DEF Crash, sessionVars, evidenceVars
<1>p. \A h \in Handlers : pc'[h] = "idle"
  BY DEF Crash
<1>1. StateOfStep'
  BY <1>p DEF StateOfStep, Fits
<1>2. OpenGateIsAwaited' /\ OpenGateIsCurrent'
  BY <1>s, <1>p DEF OpenGateIsAwaited, OpenGateIsCurrent, HumanGate, Idle
<1>3. DecisionIsCurrent' /\ PlanIsApproved'
  BY <1>s, <1>p DEF DecisionIsCurrent, PlanIsApproved, ApprovedAt
<1>4. EvidenceIsApproved'
  BY <1>s, <1>p DEF EvidenceIsApproved, ApprovedAt, Clean, Unsatisfied, Reported
<1>5. ExecutedPlanApproved'
  BY <1>p DEF ExecutedPlanApproved, OrchestratorSteps
<1>6. QED
  BY <1>1, <1>2, <1>3, <1>4, <1>5, CrashInv

\* every step of the one handler does,
LEMMA OneTabStep ==
  ASSUME OneTab, Inv, NEW h \in Handlers, Step(h)
  PROVE  Inv'
<1>1. WellFormed /\ OneTabInv /\ StateOfStep /\ OpenGateIsAwaited
  BY DEF Inv, IInv, OneTabInv
<1>2. QED
  BY <1>1, StepInv, StatesStay, GatesStay, DecisionStays, PlanStays, ExecutedStays,
     EvidenceStays DEF Inv, OneTabInv

\* and a step that changes nothing.
LEMMA OneTabStutter ==
  ASSUME Inv, UNCHANGED vars
  PROVE  Inv'
BY StutterInv DEF Inv, OneTabInv, vars, sessionVars, evidenceVars, handlerVars, StateOfStep,
   OpenGateIsAwaited, OpenGateIsCurrent, HumanGate, Idle, DecisionIsCurrent, PlanIsApproved,
   ApprovedAt, ExecutedPlanApproved, EvidenceIsApproved, Clean, Unsatisfied, Reported

\* With one tab the invariant holds throughout, whenever the process dies.
LEMMA OneTabInvariance ==
  ASSUME OneTab
  PROVE  Spec => []Inv
<1>1. Inv /\ [Next]_vars => Inv'
  BY OneTabStep, OneTabCrash, OneTabStutter DEF Next
<1>2. QED
  BY <1>1, OneTabInit, PTL DEF Spec

\* With one tab, the final result of a completed run carries the evidence of
\* the Gate D its human approved (runtime/service.py:202-223, 238-260).
THEOREM FinalIsApproved ==
  ASSUME OneTab
  PROVE  Spec => []FinalBindsApproval
<1>1. Inv => FinalBindsApproval
  BY DEF Inv, OneTabInv, EvidenceIsApproved, ApprovedAt, FinalBindsApproval
<1>2. QED
  BY <1>1, OneTabInvariance, PTL

\* With one tab, a run reaches and passes Gate D with successes only
\* (supervisor/service.py:24-187).
THEOREM DeliveryIsClean ==
  ASSUME OneTab
  PROVE  Spec => []CleanAtGateD
<1>1. Inv => CleanAtGateD
  BY DEF Inv, OneTabInv, EvidenceIsApproved, Clean, CleanAtGateD
<1>2. QED
  BY <1>1, OneTabInvariance, PTL

\* With one tab, no revision, recovery or crash leaves a stale Gate A or Gate D
\* behind for a human to answer (runtime/service.py:79-134, 166-223).
THEOREM NoStaleGate ==
  ASSUME OneTab
  PROVE  Spec => []OpenGateIsAwaited
<1>1. Inv => OpenGateIsAwaited
  BY DEF Inv, OneTabInv
<1>2. QED
  BY <1>1, OneTabInvariance, PTL

\* With one tab, workers only ever run for a plan that a human approved at Gate
\* A (runtime/service.py:120-134, orchestration/service.py:111).
THEOREM OnlyApprovedPlansRun ==
  ASSUME OneTab
  PROVE  Spec => []ExecutedPlanApproved
<1>1. Inv => ExecutedPlanApproved
  BY DEF Inv, OneTabInv
<1>2. QED
  BY <1>1, OneTabInvariance, PTL

\* No handler of a single tab does anything in a run that has ended: it is
\* back, and no gate is open for it to answer.
LEMMA NothingAfterEnd ==
  ASSUME Inv, NEW h \in Handlers, Step(h)
  PROVE  state \notin TerminalStates
<1> SUFFICES ASSUME state \in TerminalStates PROVE FALSE
  OBVIOUS
<1>1. pc[h] \in Steps /\ Fits(pc[h], state)
  BY DEF Inv, IInv, WellFormed, TypeOK, OneTabInv, StateOfStep
<1>2. pc[h] = "idle"
  BY <1>1 DEF Fits, TerminalStates, RevisableStates, Steps, CoordinatorSteps,
     OrchestratorSteps, Transitions
<1>3. PICK g \in Gates, d \in HumanDecisions : ResolveGate(h, g, d)
  BY <1>2, OnlyAnswers
<1>4. HumanGate(g) /\ gates[g].status = "OPEN"
  BY <1>3 DEF ResolveGate, ResolveApprovalGate, HumanGate
<1>5. QED
  BY <1>4 DEF Inv, OneTabInv, OpenGateIsAwaited, HumanGate, TerminalStates

\* With one tab, nothing is written to a run that has ended
\* (session/manager.py, whose writes do not look at the state).
THEOREM EndedIsFrozen ==
  ASSUME OneTab
  PROVE  Spec => EndedRunIsFrozen
<1>1. Inv /\ [Next]_vars => [(state \in TerminalStates) => UNCHANGED sessionVars]_vars
  BY NothingAfterEnd DEF Next, Crash
<1>2. QED
  BY <1>1, OneTabInvariance, PTL DEF EndedRunIsFrozen, Spec
-------------------------------------------------------------------------------
(* The exact contract, for one tab.                                        *)

\* What the session holds is what was approved, recorded and shown.
ExactInv ==
  /\ state = "SUPERVISING" => ApprovedAt("ARCHITECTURE", plan)
  /\ state = "WAITING_FINAL_APPROVAL" => qa = Evidence
  /\ \A h \in Handlers :
       /\ pc[h] = "recordQA" => job[h].evidence = Evidence
       /\ pc[h] = "awaitFinal" => qa = Evidence
       /\ pc[h] \in {"finalize", "complete"} => job[h].evidence = qa
       /\ pc[h] = "fail" => Reported = {}

\* A transition leaves everything but the state, and brings the run to a state
\* with something to show from one step alone.
LEMMA ExactStays ==
  ASSUME OneTab, Inv, ExactInv, NEW h \in Handlers, Step(h)
  PROVE  ExactInv'
<1>t. TypeOK /\ pc \in [Handlers -> Steps] /\ job \in [Handlers -> Job] /\ job[h] \in Job
  BY DEF Inv, IInv, WellFormed, TypeOK
<1>i. WellFormed /\ OneTabInv
  BY DEF Inv, IInv
<1>f. Fits(pc[h], state)
  BY <1>i DEF OneTabInv, StateOfStep
<1>e. UNCHANGED evidenceVars => Evidence' = Evidence /\ Reported' = Reported
  BY DEF Evidence, Reported, evidenceVars
<1>1. ASSUME state' = "SUPERVISING" PROVE ApprovedAt("ARCHITECTURE", plan)'
  <2>1. ApprovedAt("ARCHITECTURE", plan) /\ plan' = plan
    <3>1. CASE state' = state
      <4>1. ~StorePlan(h)
        BY <1>1, <1>f, <3>1 DEF StorePlan, Fits
      <4>2. QED
        BY <1>1, <3>1, <4>1, PlanWrites DEF ExactInv
    <3>2. CASE Moves(h)
      <4>1. pc[h] \in {"supervise", "superviseFailure"} /\ plan' = plan
        BY <1>1, <3>2 DEF Moves, SetState, Transitions
      <4>2. state = "EXECUTING"
        BY <1>f, <4>1 DEF Fits
      <4>3. QED
        BY <1>i, <4>1, <4>2 DEF OneTabInv, PlanIsApproved
    <3>3. QED
      BY <1>1, <1>t, <3>1, <3>2, StateWrites
  <2>2. QED
    BY <1>i, <2>1, ApprovedAtStays DEF ApprovedAt
<1>2. ASSUME state' = "WAITING_FINAL_APPROVAL" PROVE qa' = Evidence'
  <2>1. CASE state' = state
    <3>1. UNCHANGED evidenceVars
      BY <1>2, <1>f, <2>1, PlanWrites DEF Fits
    <3>2. ~RecordQA(h)
      BY <1>2, <1>f, <2>1 DEF RecordQA, Fits
    <3>3. QED
      BY <1>2, <1>e, <2>1, <3>1, <3>2, QAWrites DEF ExactInv
  <2>2. CASE Moves(h)
    <3>1. pc[h] = "awaitFinal" /\ UNCHANGED <<qa, evidenceVars>>
      BY <1>2, <2>2 DEF Moves, SetState, Transitions
    <3>2. QED
      BY <1>e, <3>1 DEF ExactInv
  <2>3. QED
    BY <1>2, <1>t, <2>1, <2>2, StateWrites
<1>3. ASSUME pc'[h] = "recordQA" PROVE job'[h].evidence = Evidence'
  <2>1. RecomputeEvidence(h)
    BY <1>3, <1>i, Arrivals
  <2>2. Evidence = job[h].evidence /\ job'[h] = job[h] /\ UNCHANGED evidenceVars
    BY <1>3, <1>t, <2>1 DEF RecomputeEvidence, Goto, sessionVars
  <2>3. QED
    BY <1>e, <2>2
<1>4. ASSUME pc'[h] = "awaitFinal" PROVE qa' = Evidence'
  <2>1. RecordQA(h)
    BY <1>4, <1>i, Arrivals
  <2>2. pc[h] = "recordQA" /\ qa' = job[h].evidence /\ UNCHANGED evidenceVars
    BY <2>1 DEF RecordQA, AddQAMessage
  <2>3. QED
    BY <1>e, <2>2 DEF ExactInv
<1>5. ASSUME pc'[h] = "finalize" PROVE job'[h].evidence = qa'
  <2>1. ApplyFinalDecision(h)
    BY <1>5, <1>i, CompletionSteps
  <2>2. job'[h] = [job[h] EXCEPT !.evidence = qa] /\ qa' = qa
    BY <1>5, <1>t, <2>1 DEF ApplyFinalDecision, Goto, sessionVars
  <2>3. QED
    BY <1>t, <2>2 DEF Job
<1>6. ASSUME pc'[h] = "complete" PROVE job'[h].evidence = qa'
  <2>1. Finalize(h)
    BY <1>6, <1>i, CompletionSteps
  <2>2. pc[h] = "finalize" /\ job'[h] = job[h] /\ qa' = qa
    BY <1>t, <2>1 DEF Finalize, SetFinalResult, Goto
  <2>3. QED
    BY <2>2 DEF ExactInv
<1>7. ASSUME pc'[h] = "fail" PROVE Reported' = {}
  <2>1. Evaluate(h)
    BY <1>7, <1>i, Arrivals
  <2>2. QAStatus = "FAIL" /\ UNCHANGED evidenceVars
    BY <1>7, <1>t, <2>1 DEF Evaluate, Goto, sessionVars, QAStatus
  <2>3. QED
    BY <1>e, <2>2 DEF QAStatus
<1>8. QED
  BY <1>1, <1>2, <1>3, <1>4, <1>5, <1>6, <1>7 DEF OneTab, ExactInv

\* The one tab of the exact contract has both invariants throughout.
LEMMA ExactInvariance ==
  ASSUME OneTab
  PROVE  Spec => [](Inv /\ ExactInv)
<1>1. Init => ExactInv
  BY DEF Init, CoordinatorInit, CreateSession, ExactInv
<1>2. Inv /\ ExactInv /\ [Next]_vars => ExactInv'
  <2> SUFFICES ASSUME Inv, ExactInv, [Next]_vars PROVE ExactInv'
    OBVIOUS
  <2>1. ASSUME NEW h \in Handlers, Step(h) PROVE ExactInv'
    BY <2>1, ExactStays
  <2>2. CASE Crash
    BY <2>2 DEF Crash, ExactInv, ApprovedAt, Evidence, Reported, sessionVars, evidenceVars
  <2>3. CASE UNCHANGED vars
    BY <2>3 DEF vars, handlerVars, sessionVars, evidenceVars, ExactInv, ApprovedAt, Evidence,
       Reported
  <2>4. QED
    BY <2>1, <2>2, <2>3 DEF Next
<1>3. QED
  BY <1>1, <1>2, OneTabInvariance, PTL DEF Spec

\* An approval of a subject is an approved question about it.
LEMMA ApprovalAtView ==
  ASSUME WellFormed, NEW kind, NEW subject, ApprovedAt(kind, subject)
  PROVE  ExactContract!Approved(kind, subject)
<1>1. PICK g \in Gates :
        gates[g].kind = kind /\ gates[g].decision = "APPROVE" /\ gates[g].subject = subject
  BY DEF ApprovedAt
<1>2. gates[g].decision # None
  BY <1>1, NoneIsFresh DEF HumanDecisionType
<1>3. answers[g] = "APPROVE" /\ questions[g].kind = kind /\ questions[g].subject = subject
  BY <1>1, <1>2, AnswerView
<1>4. QED
  BY <1>3 DEF ExactContract!Approved, ExactContract!Bound

\* A human is asked about the plan, or the evidence, that is there: the gate is
\* open after the step, and an open gate is current.
LEMMA GateShowsPresent ==
  ASSUME OneTab, Inv, ExactInv, NEW h \in Handlers, Step(h),
         NEW kind \in GateKind, NEW subject \in GateSubject, AddApprovalGate(kind, subject)
  PROVE  /\ kind = "ARCHITECTURE" => subject = plan
         /\ kind = "FINAL" => subject = Evidence
<1>t. gates \in [Gates -> ApprovalGate]
  BY DEF Inv, IInv, WellFormed, TypeOK, SessionTypeOK
<1>1. PICK g \in Gates :
        gates'[g].kind = kind /\ gates'[g].subject = subject /\ gates'[g].status = "OPEN"
  BY <1>t DEF AddApprovalGate
<1>2. /\ UNCHANGED <<plan, qa>> /\ Evidence' = Evidence
  BY DEF AddApprovalGate, Evidence, Reported, evidenceVars
<1>3. (OpenGateIsCurrent /\ OpenGateIsAwaited)' /\ ExactInv'
  BY OneTabStep, ExactStays DEF Inv, OneTabInv
<1>4. ASSUME kind = "ARCHITECTURE" PROVE subject = plan
  BY <1>1, <1>2, <1>3, <1>4 DEF OpenGateIsCurrent, HumanGate
<1>5. ASSUME kind = "FINAL" PROVE subject = Evidence
  <2>1. subject = qa'
    BY <1>1, <1>3, <1>5 DEF OpenGateIsCurrent, HumanGate
  <2>2. state' = "WAITING_FINAL_APPROVAL"
    BY <1>1, <1>3, <1>5 DEF OpenGateIsAwaited
  <2>3. QED
    BY <1>2, <1>3, <2>1, <2>2 DEF ExactInv
<1>6. QED
  BY <1>4, <1>5

\* A step of the handler is a step of the exact contract or none.
LEMMA ExactStep ==
  ASSUME OneTab, Inv, ExactInv, EndingInv, NEW h \in Handlers, Step(h)
  PROVE  [ExactContract!Next]_view
<1> USE DEF view
<1>i. IInv /\ WellFormed /\ TypeOK /\ OneTabInv /\ Fits(pc[h], state)
  BY DEF Inv, IInv, WellFormed, OneTabInv, StateOfStep
<1>o. outcome = "open"
  BY NothingAfterEnd DEF outcome
<1>1. CASE Hidden
  BY <1>1, HiddenView
<1>2. ASSUME NEW s \in WorkflowState, SetState(s) PROVE [ExactContract!Next]_view
  <2>1. UNCHANGED <<plan, questions, answers, Evidence, final>>
    BY <1>2 DEF SetState, questions, answers, Evidence, Reported, evidenceVars
  <2>2. CASE pc[h] = "complete" /\ outcome' = "COMPLETED"
    <3>1. state = "WAITING_FINAL_APPROVAL"
      BY <1>i, <2>2 DEF Fits
    <3>2. final = Evidence /\ ApprovedAt("FINAL", Evidence)
      BY <1>i, <2>2, <3>1 DEF OneTabInv, EvidenceIsApproved, ExactInv
    <3>3. final # None
      BY <1>i, <2>2 DEF IInv, GateDInv
    <3>4. ExactContract!Complete
      BY <1>i, <1>o, <2>1, <2>2, <3>2, <3>3, ApprovalAtView
      DEF ExactContract!Complete, ExactContract!End, ExactContract!Open, ExactContract!Bound
    <3>5. QED
      BY <3>4 DEF ExactContract!Next
  <2>3. CASE pc[h] = "reject" /\ outcome' = "REJECTED"
    <3>1. PICK g \in Gates : HumanGate(g) /\ gates[g].decision = "REJECT"
      BY <2>3 DEF EndingInv, RejectedGate
    <3>2. gates[g].decision # None
      BY <3>1, NoneIsFresh DEF HumanDecisionType
    <3>3. answers[g] = "REJECT" /\ questions[g].kind \in {"ARCHITECTURE", "FINAL"}
      BY <1>i, <3>1, <3>2, AnswerView DEF HumanGate
    <3>4. ExactContract!Reject
      BY <1>o, <2>1, <2>3, <3>3
      DEF ExactContract!Reject, ExactContract!Rejected, ExactContract!End, ExactContract!Open
    <3>5. QED
      BY <3>4 DEF ExactContract!Next
  <2>4. CASE pc[h] = "fail" /\ outcome' = "FAILED"
    <3>1. state = "SUPERVISING" /\ Reported = {}
      BY <1>i, <2>4 DEF Fits, ExactInv
    <3>2. ExactContract!Approved("ARCHITECTURE", plan) /\ Evidence.workers = {}
      BY <1>i, <3>1, ApprovalAtView DEF ExactInv, Evidence
    <3>3. ExactContract!Fail
      BY <1>o, <2>1, <2>4, <3>2 DEF ExactContract!Fail, ExactContract!End, ExactContract!Open
    <3>4. QED
      BY <3>3 DEF ExactContract!Next
  <2>5. QED
    BY <1>i, <2>1, <2>2, <2>3, <2>4, Endings
<1>3. CASE StorePlan(h)
  <2>1. PICK p \in Plans : SetArchitecturePlan(p)
    BY <1>3 DEF StorePlan
  <2>2. /\ plan' # None
        /\ UNCHANGED <<questions, answers, Evidence, final, outcome>>
    BY <2>1, NoneIsFresh DEF SetArchitecturePlan, questions, answers, Evidence, Reported,
       evidenceVars, outcome
  <2>3. QED
    BY <1>o, <2>2 DEF ExactContract!Replan, ExactContract!Open, ExactContract!Next
<1>4. ASSUME NEW kind \in GateKind, NEW subject \in GateSubject, AddApprovalGate(kind, subject)
      PROVE  [ExactContract!Next]_view
  <2>1. PICK g \in Gates :
          /\ questions[g] = None
          /\ questions' = [questions EXCEPT ![g] = questions'[g]]
          /\ questions'[g] = [kind |-> kind, subject |-> subject]
    BY <1>i, <1>4, OpeningView
  <2>2. UNCHANGED <<plan, answers, Evidence, final, outcome>>
    BY <1>i, <1>4, OpeningView
  <2>3. questions'[g] # None
    BY <2>1, NoneIsNoQuestion DEF Question
  <2>4. /\ kind = "ARCHITECTURE" => subject = plan
        /\ kind = "FINAL" => subject = Evidence
    BY <1>4, GateShowsPresent
  <2>5. ExactContract!Ask(g)
    BY <1>o, <2>1, <2>2, <2>3, <2>4
    DEF ExactContract!Ask, ExactContract!Bound, ExactContract!Open
  <2>6. QED
    BY <2>5 DEF ExactContract!Next
<1>5. ASSUME NEW g \in Gates, NEW d \in HumanDecisionType, ResolveApprovalGate(g, d)
      PROVE  [ExactContract!Next]_view
  BY <1>i, <1>o, <1>5, ResolvingView
  DEF ExactContract!Answer, ExactContract!Open, ExactContract!Next
<1>6. CASE WorkerWrites
  <2>1. /\ Evidence.workers \subseteq Evidence'.workers
        /\ Evidence.executions <= Evidence'.executions
        /\ UNCHANGED <<plan, questions, answers, final, outcome>>
    BY <1>i, <1>6, WorkerView
  <2>2. CASE UNCHANGED evidenceVars
    BY <2>1, <2>2 DEF Evidence, Reported, evidenceVars
  <2>3. CASE pc[h] \in {"authorize", "markWaiting", "running", "writeOutputs", "toolOutput",
                        "reconcile"}
    <3>1. ApprovedAt("ARCHITECTURE", plan)
      BY <1>i, <2>3 DEF Fits, OneTabInv, PlanIsApproved
    <3>2. ExactContract!Work
      BY <1>i, <1>o, <2>1, <3>1, ApprovalAtView DEF ExactContract!Work, ExactContract!Open
    <3>3. QED
      BY <3>2 DEF ExactContract!Next
  <2>4. QED
    BY <2>2, <2>3, PlanWrites
<1>7. CASE Finalize(h)
  <2>1. /\ pc[h] = "finalize" /\ final' = job[h].evidence
        /\ UNCHANGED <<state, plan, gates, evidenceVars>>
    BY <1>7 DEF Finalize, SetFinalResult
  <2>2. UNCHANGED <<plan, questions, answers, Evidence, outcome>>
    BY <2>1 DEF questions, answers, Evidence, Reported, evidenceVars, outcome
  <2>3. state = "WAITING_FINAL_APPROVAL"
    BY <1>i, <2>1 DEF Fits
  <2>4. final' = Evidence /\ final' # None /\ ApprovedAt("FINAL", Evidence)
    BY <1>i, <2>1, <2>3 DEF ExactInv, OneTabInv, EvidenceIsApproved, WellFormed, LocalsOK
  <2>5. ExactContract!Deliver
    BY <1>i, <1>o, <2>2, <2>4, ApprovalAtView
    DEF ExactContract!Deliver, ExactContract!Open, ExactContract!Bound
  <2>6. QED
    BY <2>5 DEF ExactContract!Next
<1>8. QED
  BY <1>i, <1>1, <1>2, <1>3, <1>4, <1>5, <1>6, <1>7, OneOperation

\* With one tab the runtime keeps the exact contract, wherever the process dies:
\* what is worked for and delivered is what a human approved, and is all there
\* is (runtime/service.py:44-272, supervisor/service.py:24-187,
\* revision/service.py:44-98).
THEOREM OneTabKeepsExactContract ==
  ASSUME OneTab
  PROVE  Spec => KeepsExactContract
<1>1. Inv /\ ExactInv /\ ContractInv /\ [Next]_vars => [ExactContract!Next]_ExactContract!vars
  <2>1. Inv /\ ExactInv /\ ContractInv /\ [Next]_vars => [ExactContract!Next]_view
    BY ExactStep, CrashView DEF Next, ContractInv
  <2>2. QED
    BY <2>1 DEF view, ExactContract!vars
<1>2. QED
  BY <1>1, ContractInit, ExactInvariance, ContractInvariance, PTL DEF Spec, KeepsExactContract,
     ExactContract!Spec
-------------------------------------------------------------------------------
(* Answers that end the run are carried out.                               *)

AppliesDecision(h, decision) ==
  pc[h] = "applyDecision" /\ gates[job[h].gate].decision = decision

Completing(h) ==
  \/ pc[h] \in {"finalize", "complete"}
  \/ AppliesDecision(h, "APPROVE") /\ state = "WAITING_FINAL_APPROVAL" /\ qa # None

ApprovalIsCarriedOut ==
  ApprovedGate("FINAL") => state = "COMPLETED" \/ \E h \in Handlers : Completing(h)

RejectionIsCarriedOut ==
  RejectedGate =>
    state = "REJECTED" \/ \E h \in Handlers : pc[h] = "reject" \/ AppliesDecision(h, "REJECT")

\* A decision that was not there before has just been given, and its handler
\* is about to apply it.
LEMMA NewDecision ==
  ASSUME WellFormed, GateShapes, NEW h \in Handlers, Step(h), NEW g \in Gates, HumanGate(g)',
         gates'[g].decision # None, gates'[g] # gates[g]
  PROVE  /\ gates[g].status = "OPEN" /\ gates'[g].kind = gates[g].kind
         /\ state' = state /\ qa' = qa
         /\ pc'[h] = "applyDecision" /\ job'[h].gate = g
<1>t. /\ gates \in [Gates -> ApprovalGate] /\ pc \in [Handlers -> Steps]
      /\ job \in [Handlers -> Job]
  BY DEF WellFormed, TypeOK, SessionTypeOK
<1>1. PICK d \in HumanDecisions : ResolveGate(h, g, d)
  <2>1. ~(RequestPlanGate(h) \/ RequestFinalGate(h))
    BY <1>t DEF RequestPlanGate, RequestFinalGate, AddApprovalGate
  <2>2. ASSUME NEW k \in Gates, NEW d \in HumanDecisions, ResolveGate(h, k, d) PROVE k = g
    BY <1>t, <2>2 DEF ResolveGate, ResolveApprovalGate
  <2>3. QED
    BY <2>1, <2>2, HumanGateWrites DEF HumanGate
<1>2. gates[g] \in ApprovalGate
  BY <1>t
<1>3. gates'[g].kind = gates[g].kind /\ gates[g].status = "OPEN" /\ state' = state /\ qa' = qa
  BY <1>t, <1>1, <1>2 DEF ResolveGate, ResolveApprovalGate, ApprovalGate
<1>4. pc'[h] = "applyDecision" /\ job'[h] = [NoJob EXCEPT !.gate = g]
  BY <1>t, <1>1 DEF ResolveGate
<1>5. job'[h].gate = g
  BY <1>4 DEF NoJob
<1>6. QED
  BY <1>3, <1>4, <1>5 DEF AppliesDecision

LEMMA ApprovalStaysCarriedOut ==
  ASSUME OneTab, Inv, GateShapes, QAOnRecord, ApprovalIsCarriedOut, NEW h \in Handlers, Step(h)
  PROVE  ApprovalIsCarriedOut'
<1> USE DEF Inv, IInv, OneTabInv
<1> SUFFICES ASSUME ApprovedGate("FINAL")'
             PROVE  state' = "COMPLETED" \/ Completing(h)'
  BY DEF ApprovalIsCarriedOut
<1>t. /\ gates \in [Gates -> ApprovalGate] /\ pc \in [Handlers -> Steps]
      /\ job \in [Handlers -> Job]
  BY DEF WellFormed, TypeOK, SessionTypeOK
<1>f. Fits(pc[h], state)
  BY DEF StateOfStep
<1>n. "APPROVE" # None
  BY NoneIsFresh DEF HumanDecisionType
<1>1. CASE ~ApprovedGate("FINAL")
  <2>1. PICK g \in Gates : gates'[g].kind = "FINAL" /\ gates'[g].decision = "APPROVE"
    BY DEF ApprovedGate
  <2>2. gates'[g] # gates[g]
    BY <1>1, <2>1 DEF ApprovedGate
  <2>3. /\ gates[g].status = "OPEN" /\ gates'[g].kind = gates[g].kind
        /\ state' = state /\ qa' = qa
        /\ pc'[h] = "applyDecision" /\ job'[h].gate = g
    BY <1>n, <2>1, <2>2, NewDecision DEF HumanGate
  <2>4. state = "WAITING_FINAL_APPROVAL" /\ qa # None
    BY <2>1, <2>3 DEF OpenGateIsAwaited, QAOnRecord
  <2>5. QED
    BY <2>1, <2>3, <2>4 DEF Completing, AppliesDecision
<1>2. CASE state = "COMPLETED"
  BY <1>2, EndedStateStays DEF TerminalStates
<1>3. CASE pc[h] = "finalize"
  BY <1>t, <1>3, StepAt DEF Finalize, Goto, Completing
<1>4. CASE pc[h] = "complete"
  <2>1. state = "WAITING_FINAL_APPROVAL" /\ MoveState(h)
    BY <1>f, <1>4, StepAt DEF Fits, Transitions
  <2>2. Transitions[pc[h]].target = "COMPLETED"
    BY <1>4 DEF Transitions
  <2>3. TransitionAllowed(state, Transitions[pc[h]].target)
    BY <2>1, <2>2 DEF TransitionAllowed, Allowed
  <2>4. SetState(Transitions[pc[h]].target)
    BY <2>1, <2>3 DEF MoveState
  <2>5. QED
    BY <2>2, <2>4 DEF SetState
<1>5. CASE /\ AppliesDecision(h, "APPROVE")
           /\ state = "WAITING_FINAL_APPROVAL" /\ qa # None
  <2>1. gates[job[h].gate].kind = "FINAL"
    BY <1>5 DEF AppliesDecision, DecisionIsCurrent
  <2>2. ApplyFinalDecision(h)
    BY <1>5, <2>1, StepAt DEF AppliesDecision, ApplyArchitectureDecision
  <2>3. pc'[h] = "finalize"
    BY <1>t, <1>5, <2>2 DEF ApplyFinalDecision, Goto, AppliesDecision
  <2>4. QED
    BY <2>3 DEF Completing
<1>6. QED
  BY <1>1, <1>2, <1>3, <1>4, <1>5 DEF ApprovalIsCarriedOut, Completing, OneTab

LEMMA RejectionStaysCarriedOut ==
  ASSUME OneTab, Inv, GateShapes, RejectionIsCarriedOut, NEW h \in Handlers, Step(h)
  PROVE  RejectionIsCarriedOut'
<1> USE DEF Inv, IInv, OneTabInv
<1> SUFFICES ASSUME RejectedGate'
             PROVE  state' = "REJECTED" \/ pc'[h] = "reject" \/ AppliesDecision(h, "REJECT")'
  BY DEF RejectionIsCarriedOut
<1>t. /\ gates \in [Gates -> ApprovalGate] /\ pc \in [Handlers -> Steps]
      /\ job \in [Handlers -> Job]
  BY DEF WellFormed, TypeOK, SessionTypeOK
<1>f. Fits(pc[h], state)
  BY DEF StateOfStep
<1>n. "REJECT" # None
  BY NoneIsFresh DEF HumanDecisionType
<1>1. CASE ~RejectedGate
  <2>1. PICK g \in Gates : HumanGate(g)' /\ gates'[g].decision = "REJECT"
    BY DEF RejectedGate
  <2>2. gates'[g] # gates[g]
    BY <1>1, <2>1 DEF RejectedGate, HumanGate
  <2>3. pc'[h] = "applyDecision" /\ job'[h].gate = g
    BY <1>n, <2>1, <2>2, NewDecision
  <2>4. QED
    BY <2>1, <2>3 DEF AppliesDecision
<1>2. CASE state = "REJECTED"
  BY <1>2, EndedStateStays DEF TerminalStates
<1>3. CASE pc[h] = "reject"
  <2>1. state \in {"WAITING_ARCHITECT_APPROVAL", "WAITING_FINAL_APPROVAL"} /\ MoveState(h)
    BY <1>f, <1>3, StepAt DEF Fits, Transitions
  <2>2. Transitions[pc[h]].target = "REJECTED"
    BY <1>3 DEF Transitions
  <2>3. TransitionAllowed(state, Transitions[pc[h]].target)
    BY <2>1, <2>2 DEF TransitionAllowed, Allowed
  <2>4. SetState(Transitions[pc[h]].target)
    BY <2>1, <2>3 DEF MoveState
  <2>5. QED
    BY <2>2, <2>4 DEF SetState
<1>4. CASE AppliesDecision(h, "REJECT")
  <2>1. ApplyArchitectureDecision(h) \/ ApplyFinalDecision(h)
    BY <1>4, StepAt DEF AppliesDecision
  <2>2. CASE ApplyArchitectureDecision(h)
    <3>1. state = "WAITING_ARCHITECT_APPROVAL"
      BY <2>2 DEF ApplyArchitectureDecision, DecisionIsCurrent
    <3>2. QED
      BY <1>t, <1>4, <2>2, <3>1 DEF ApplyArchitectureDecision, Goto, AppliesDecision
  <2>3. CASE ApplyFinalDecision(h)
    <3>1. state = "WAITING_FINAL_APPROVAL"
      BY <2>3 DEF ApplyFinalDecision, DecisionIsCurrent
    <3>2. QED
      BY <1>t, <1>4, <2>3, <3>1 DEF ApplyFinalDecision, Goto, AppliesDecision
  <2>4. QED
    BY <2>1, <2>2, <2>3
<1>5. QED
  BY <1>1, <1>2, <1>3, <1>4 DEF RejectionIsCarriedOut, OneTab

\* With one tab and no crash, an approved Gate D has completed the run and a
\* rejected Gate A or D has ended it once no handler is under way
\* (runtime/service.py:136-164, 225-272).
THEOREM FinalAnswersAreCarriedOut ==
  ASSUME OneTab
  PROVE  Spec => []AnswersAreCarriedOut
<1> DEFINE CarryInv == crashes = 0 => ApprovalIsCarriedOut /\ RejectionIsCarriedOut
<1>1. Init => CarryInv
  BY NoneIsFresh DEF Init, CoordinatorInit, CreateSession, NoGate, ApprovalIsCarriedOut,
     RejectionIsCarriedOut, ApprovedGate, RejectedGate, HumanDecisionType
<1>2. Inv /\ WellFormed /\ WaitingInv /\ CarryInv /\ [Next]_vars => CarryInv'
  <2> SUFFICES ASSUME Inv, WellFormed, WaitingInv, CarryInv, [Next]_vars PROVE CarryInv'
    OBVIOUS
  <2>1. ASSUME NEW h \in Handlers, Step(h) PROVE CarryInv'
    BY <2>1, CrashesStay, ApprovalStaysCarriedOut, RejectionStaysCarriedOut DEF WaitingInv
  <2>2. CASE Crash
    BY <2>2, MaxCrashesAssumption DEF Crash, WellFormed, TypeOK
  <2>3. CASE UNCHANGED vars
    BY <2>3 DEF vars, handlerVars, sessionVars, hostVars, ApprovalIsCarriedOut,
       RejectionIsCarriedOut, ApprovedGate, RejectedGate, HumanGate, Completing, AppliesDecision
  <2>4. QED
    BY <2>1, <2>2, <2>3 DEF Next
<1>3. CarryInv => AnswersAreCarriedOut
  BY DEF ApprovalIsCarriedOut, RejectionIsCarriedOut, AnswersAreCarriedOut, Idle, RejectedGate,
     HumanGate, Completing, AppliesDecision
<1>4. QED
  BY <1>1, <1>2, <1>3, OneTabInvariance, WaitingInvariance, PTL DEF Spec
===============================================================================

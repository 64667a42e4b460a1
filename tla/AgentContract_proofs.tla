------------------------- MODULE AgentContract_proofs -------------------------
(***************************************************************************)
(* AgentRuntime implements RunContract, with any number of tabs.  Every    *)
(* step of a handler is one operation of the session manager, and each     *)
(* operation is a step of the contract or none.                            *)
(***************************************************************************)
EXTENDS AgentRuntime_proofs

-------------------------------------------------------------------------------
(* What a step does to the session.                                        *)

\* The operations that the contract does not see.
Hidden ==
  \/ UNCHANGED sessionVars
  \/ \E e \in EvidenceSummary \cup {None} : AddQAMessage(e)
  \/ AddRevisionMessage

\* A worker leaves evidence.
WorkerWrites ==
  \/ \E w \in Workers, s \in OutputStatus \ {"none"} : SetWorkerOutput(w, s)
  \/ \E w \in Workers, success \in BOOLEAN : AddExecutionResult(w, success)

\* A step of a handler is one operation of the session manager at most: the
\* atomicity the code has, and all of it (session/manager.py).
LEMMA OneOperation ==
  ASSUME WellFormed, NEW h \in Handlers, Step(h)
  PROVE  \/ Hidden
         \/ \E s \in WorkflowState : SetState(s)
         \/ StorePlan(h)
         \/ \E kind \in GateKind, subject \in GateSubject : AddApprovalGate(kind, subject)
         \/ \E g \in Gates, d \in HumanDecisionType : ResolveApprovalGate(g, d)
         \/ WorkerWrites
         \/ Finalize(h)
<1>j. job[h] \in Job
  BY DEF WellFormed, TypeOK
<1>1. CASE \/ StartRun(h) \/ BuildArchitecture(h) \/ RecoverArchitecture(h)
  BY <1>1 DEF StartRun, BuildArchitecture, RecoverArchitecture, Hidden, WorkflowState
<1>2. CASE MoveState(h)
  BY <1>2, TransitionsType DEF MoveState, Hidden
<1>3. CASE \/ PlanFails(h) \/ ApplyArchitectureDecision(h) \/ ApplyFinalDecision(h)
           \/ RequestRevision(h) \/ EnterRevision(h) \/ Evaluate(h)
           \/ RecordSupervisorResult(h) \/ RecomputeEvidence(h)
           \/ RecoverSupervision(h) \/ ReconcileLocal(h) \/ ReconcileNothing(h)
           \/ \E w \in Workers : RecoverExecution(h, w)
  BY <1>3 DEF PlanFails, ApplyArchitectureDecision, ApplyFinalDecision, RequestRevision,
     EnterRevision, Evaluate, RecordSupervisorResult, RecomputeEvidence, RecoverSupervision,
     ReconcileLocal, ReconcileNothing, RecoverExecution, Hidden
<1>4. CASE RecordRevision(h) \/ RecordQA(h)
  BY <1>4, <1>j DEF RecordRevision, RecordQA, Job, Hidden
<1>5. CASE ReconcileBackend(h)
  <2>1. job[h].worker \in Workers
    BY <1>5 DEF ReconcileBackend, WellFormed, TypeOK
  <2>2. QED
    BY <1>5, <2>1 DEF ReconcileBackend, WorkerWrites
<1>6. CASE \/ RequestPlanGate(h) \/ RequestFinalGate(h) \/ RequestToolGate(h)
           \/ \E g \in Gates, d \in HumanDecisions : ResolveGate(h, g, d)
           \/ \E d \in HumanDecisions : ResolveToolGate(h, d)
  <2>1. CASE RequestPlanGate(h) \/ RequestFinalGate(h)
    BY <2>1, <1>j DEF RequestPlanGate, RequestFinalGate, GateKind, GateSubject, Job
  <2>2. CASE RequestToolGate(h)
    BY <2>2 DEF RequestToolGate, WellFormed, LocalsOK, GateKind, GateSubject
  <2>3. CASE \E g \in Gates, d \in HumanDecisions : ResolveGate(h, g, d)
    BY <2>3, DecisionsAssumption DEF ResolveGate
  <2>4. CASE \E d \in HumanDecisions : ResolveToolGate(h, d)
    BY <2>4, DecisionsAssumption DEF ResolveToolGate, WellFormed, LocalsOK, Hidden
  <2>5. QED
    BY <1>6, <2>1, <2>2, <2>3, <2>4
<1>7. CASE OrchestratorStep(h) /\ ~RequestToolGate(h) /\ ~\E d \in HumanDecisions : ResolveToolGate(h, d)
  <2>1. CASE \/ ExecuteRun(h) \/ PreparationRaises(h) \/ NextBatch(h)
             \/ \E g \in Gates : ResumeAfterToolGate(h, g)
             \/ \E w \in Workers : \/ SkipWorker(h, w) \/ AuthorizeWorker(h, w)
                                   \/ NeedToolGate(h, w) \/ ExecutionRaises(h, w)
    BY <2>1 DEF ExecuteRun, PreparationRaises, NextBatch, ResumeAfterToolGate, SkipWorker,
       AuthorizeWorker, NeedToolGate, ExecutionRaises, Hidden
  <2>2. CASE \E w \in Workers : \/ PlanningError(h, w)
                                \/ \E success \in BOOLEAN : FinishExecution(h, w, success)
    BY <2>2 DEF PlanningError, FinishExecution, WorkerWrites, OutputStatus
  <2>3. CASE MarkWaitingForGate(h)
    BY <2>3 DEF MarkWaitingForGate, WorkerWrites, OutputStatus, WellFormed, LocalsOK
  <2>4. CASE WriteOutput(h)
    <3>1. PICK result \in job[h].done :
            SetWorkerOutput(result[1], IF result[2] THEN "success" ELSE "error")
      BY <2>4 DEF WriteOutput
    <3>2. result \in Workers \X BOOLEAN
      BY <1>j DEF Job
    <3>3. QED
      BY <3>1, <3>2 DEF WorkerWrites, OutputStatus
  <2>5. CASE WriteToolDecision(h)
    BY <2>5 DEF WriteToolDecision, WorkerWrites, OutputStatus, WellFormed, LocalsOK
  <2>6. QED
    BY <1>7, <2>1, <2>2, <2>3, <2>4, <2>5 DEF OrchestratorStep
<1>8. QED
  BY <1>1, <1>2, <1>3, <1>4, <1>5, <1>6, <1>7 DEF Step, CoordinatorStep, OrchestratorStep

-------------------------------------------------------------------------------
(* How the operations look to the humans.                                  *)

view == <<plan, questions, answers, Evidence, final, outcome>>

\* An operation of which the contract sees nothing.
LEMMA HiddenView ==
  ASSUME Hidden
  PROVE  UNCHANGED view
BY DEF Hidden, view, questions, answers, Evidence, Reported, outcome, sessionVars, evidenceVars,
   AddQAMessage, AddRevisionMessage

\* A gate that was answered shows its question and the answer.
LEMMA AnswerView ==
  ASSUME WellFormed, NEW g \in Gates, gates[g].decision # None
  PROVE  /\ questions[g].kind = gates[g].kind
         /\ questions[g].subject = gates[g].subject
         /\ answers[g] = gates[g].decision
BY DEF WellFormed, DecisionsAreAnswers, questions, answers

\* add_approval_gate puts one question, which nobody has answered.
LEMMA OpeningView ==
  ASSUME WellFormed, NEW kind \in GateKind, NEW subject \in GateSubject,
         AddApprovalGate(kind, subject)
  PROVE  /\ \E g \in Gates : /\ questions[g] = None
                             /\ questions' = [questions EXCEPT ![g] = questions'[g]]
                             /\ questions'[g] = [kind |-> kind, subject |-> subject]
         /\ UNCHANGED <<plan, answers, Evidence, final, outcome>>
<1>t. gates \in [Gates -> ApprovalGate] /\ DecisionsAreAnswers
  BY DEF WellFormed, TypeOK, SessionTypeOK
<1>1. PICK g \in Gates :
        /\ gates[g].status = "ABSENT"
        /\ gates' = [gates EXCEPT ![g] = [ kind |-> kind, status |-> "OPEN",
                                           decision |-> None, subject |-> subject ]]
  BY DEF AddApprovalGate
<1>2. gates[g].decision = None
  BY <1>t, <1>1 DEF DecisionsAreAnswers
<1>3. \A k \in Gates : gates'[k].decision = gates[k].decision
  BY <1>t, <1>1, <1>2
<1>4. answers' = answers
  BY <1>3 DEF answers
<1>5. questions[g] = None
  BY <1>1 DEF questions
<1>6. questions'[g] = [kind |-> kind, subject |-> subject]
  BY <1>t, <1>1 DEF questions
<1>7. \A k \in Gates : k # g => questions'[k] = questions[k]
  BY <1>t, <1>1 DEF questions
<1>8. questions' = [questions EXCEPT ![g] = questions'[g]]
  <2>1. /\ questions = [k \in Gates |-> questions[k]]
        /\ questions' = [k \in Gates |-> questions'[k]]
    BY DEF questions
  <2>2. QED
    BY <1>7, <2>1
<1>9. UNCHANGED <<plan, Evidence, final, outcome>>
  BY DEF AddApprovalGate, Evidence, Reported, evidenceVars, outcome
<1>10. QED
  BY <1>4, <1>5, <1>6, <1>8, <1>9

\* resolve_approval_gate answers one question, which stays as it was put.
LEMMA ResolvingView ==
  ASSUME WellFormed, NEW g \in Gates, NEW d \in HumanDecisionType, ResolveApprovalGate(g, d)
  PROVE  /\ questions[g] # None
         /\ answers[g] = None
         /\ answers' = [answers EXCEPT ![g] = answers'[g]]
         /\ UNCHANGED <<plan, questions, Evidence, final, outcome>>
<1>t. gates \in [Gates -> ApprovalGate] /\ DecisionsAreAnswers /\ gates[g] \in ApprovalGate
  BY DEF WellFormed, TypeOK, SessionTypeOK
<1>1. /\ gates[g].status = "OPEN" /\ gates'[g].status = "RESOLVED"
      /\ gates'[g].kind = gates[g].kind /\ gates'[g].subject = gates[g].subject
      /\ \A k \in Gates : k # g => gates'[k] = gates[k]
  BY <1>t DEF ResolveApprovalGate, ApprovalGate
<1>2. answers[g] = None
  BY <1>t, <1>1 DEF DecisionsAreAnswers, answers
<1>3. answers' = [answers EXCEPT ![g] = answers'[g]]
  <2>1. \A k \in Gates : k # g => answers'[k] = answers[k]
    BY <1>1 DEF answers
  <2>2. answers = [k \in Gates |-> answers[k]] /\ answers' = [k \in Gates |-> answers'[k]]
    BY DEF answers
  <2>3. QED
    BY <2>1, <2>2
<1>4. questions[g] = [kind |-> gates[g].kind, subject |-> gates[g].subject]
  BY <1>1 DEF questions
<1>5. questions' = questions
  <2>1. \A k \in Gates : questions'[k] = questions[k]
    BY <1>1 DEF questions
  <2>2. questions = [k \in Gates |-> questions[k]] /\ questions' = [k \in Gates |-> questions'[k]]
    BY DEF questions
  <2>3. QED
    BY <2>1, <2>2
<1>6. UNCHANGED <<plan, Evidence, final, outcome>>
  BY DEF ResolveApprovalGate, Evidence, Reported, evidenceVars, outcome
<1>7. [kind |-> gates[g].kind, subject |-> gates[g].subject] \in Question
  BY <1>t DEF ApprovalGate, Question
<1>8. QED
  BY <1>2, <1>3, <1>4, <1>5, <1>6, <1>7, NoneIsNoQuestion

\* A worker's output or result adds to the evidence and touches nothing else.
LEMMA WorkerView ==
  ASSUME TypeOK, WorkerWrites
  PROVE  /\ Evidence.workers \subseteq Evidence'.workers
         /\ Evidence.executions <= Evidence'.executions
         /\ UNCHANGED <<plan, gates, questions, answers, final, state, outcome>>
<1>1. UNCHANGED <<plan, gates, final, state>>
  BY DEF WorkerWrites, SetWorkerOutput, AddExecutionResult
<1>2. Reported \subseteq Reported' /\ executions <= executions'
  BY DEF WorkerWrites, SetWorkerOutput, AddExecutionResult, Reported, TypeOK, SessionTypeOK,
     OutputStatus
<1>3. UNCHANGED <<questions, answers, outcome>>
  BY <1>1 DEF questions, answers, outcome
<1>4. QED
  BY <1>1, <1>2, <1>3 DEF Evidence

-------------------------------------------------------------------------------
(* The contract, for any number of tabs.                                   *)

RejectedGate == \E g \in Gates : HumanGate(g) /\ gates[g].decision = "REJECT"

\* Whoever is about to end a run has the reason for it.
EndingInv ==
  \A h \in Handlers :
    /\ pc[h] = "reject" => RejectedGate
    /\ pc[h] = "fail" => ApprovedGate("ARCHITECTURE")

ContractInv == EndInv /\ EndingInv

\* Only a rejection leads to "reject", and only QA to "fail".
LEMMA EndingStays ==
  ASSUME IInv, EndingInv, NEW h \in Handlers, Step(h)
  PROVE  EndingInv'
<1>t. WellFormed /\ pc \in [Handlers -> Steps]
  BY DEF IInv, WellFormed, TypeOK
<1>1. ASSUME pc'[h] = "reject" PROVE RejectedGate
  <2>1. ApplyArchitectureDecision(h) \/ ApplyFinalDecision(h)
    BY <1>1, <1>t, Arrivals
  <2>2. job[h].gate \in Gates
    BY <1>t, <2>1 DEF WellFormed, LocalsOK, ApplyArchitectureDecision, ApplyFinalDecision
  <2>3. HumanGate(job[h].gate) /\ gates[job[h].gate].decision = "REJECT"
    BY <1>1, <1>t, <2>1 DEF ApplyArchitectureDecision, ApplyFinalDecision, Goto, HumanGate
  <2>4. QED
    BY <2>2, <2>3 DEF RejectedGate
<1>2. RejectedGate => RejectedGate'
  <2>1. \A g \in Gates : gates[g].decision = "REJECT" => gates'[g] = gates[g]
    BY <1>t, DecisionsStay, NoneIsFresh DEF HumanDecisionType
  <2>2. QED
    BY <2>1 DEF RejectedGate, HumanGate
<1>3. ASSUME pc'[h] = "fail" PROVE ApprovedGate("ARCHITECTURE")
  <2>1. pc[h] = "evaluate"
    BY <1>3, <1>t, Arrivals DEF Evaluate
  <2>2. QED
    BY <2>1 DEF IInv, GateAInv, WorkSteps
<1>4. ApprovedGate("ARCHITECTURE") => ApprovedGate("ARCHITECTURE")'
  BY <1>t, ApprovalsStay
<1>5. QED
  BY <1>1, <1>2, <1>3, <1>4, <1>t, OthersStay DEF EndingInv, WellFormed

\* The run of which the contract speaks has this invariant throughout.
LEMMA ContractInvariance == Spec => []ContractInv
<1>1. Init => EndingInv
  BY DEF Init, CoordinatorInit, EndingInv
<1>2. EndInv /\ EndingInv /\ [Next]_vars => EndingInv'
  <2> SUFFICES ASSUME EndInv, EndingInv, [Next]_vars PROVE EndingInv'
    OBVIOUS
  <2>1. ASSUME NEW h \in Handlers, Step(h) PROVE EndingInv'
    BY <2>1, EndingStays DEF EndInv
  <2>2. CASE Crash
    BY <2>2 DEF Crash, EndingInv
  <2>3. CASE UNCHANGED vars
    BY <2>3 DEF vars, handlerVars, sessionVars, EndingInv, RejectedGate, HumanGate, ApprovedGate
  <2>4. QED
    BY <2>1, <2>2, <2>3 DEF Next
<1>3. QED
  BY <1>1, <1>2, EndInvariance, PTL DEF Spec, ContractInv

\* A step that ends the run is one of three pending transitions.
LEMMA Endings ==
  ASSUME TypeOK, NEW h \in Handlers, Step(h), outcome' # outcome
  PROVE  /\ outcome = "open"
         /\ UNCHANGED <<plan, gates, evidenceVars, final>>
         /\ \/ pc[h] = "complete" /\ outcome' = "COMPLETED"
            \/ pc[h] = "reject" /\ outcome' = "REJECTED"
            \/ pc[h] = "fail" /\ outcome' = "FAILED"
<1>1. state \notin TerminalStates
  <2>1. state \in TerminalStates => state' = state
    BY EndedStateStays
  <2>2. QED
    BY <2>1 DEF outcome
<1>2. state' \in TerminalStates
  BY <1>1 DEF outcome
<1>3. Moves(h)
  BY <1>1, <1>2, StateWrites DEF TerminalStates
<1>4. \/ pc[h] = "complete" /\ state' = "COMPLETED"
      \/ pc[h] = "reject" /\ state' = "REJECTED"
      \/ pc[h] = "fail" /\ state' = "FAILED"
  BY <1>2, <1>3 DEF Moves, SetState, Transitions, TerminalStates
<1>5. UNCHANGED <<plan, gates, evidenceVars, final>>
  BY <1>3 DEF Moves, SetState
<1>6. QED
  BY <1>1, <1>2, <1>4, <1>5 DEF outcome

\* An approved gate is an approved question of the contract.
LEMMA ApprovalView ==
  ASSUME WellFormed, NEW kind, NEW subject, ApprovedGate(kind)
  PROVE  Contract!Approved(kind, subject)
<1>1. PICK g \in Gates : gates[g].kind = kind /\ gates[g].decision = "APPROVE"
  BY DEF ApprovedGate
<1>2. answers[g] = "APPROVE" /\ questions[g].kind = kind
  <2>1. gates[g].decision # None
    BY <1>1, NoneIsFresh DEF HumanDecisionType
  <2>2. QED
    BY <1>1, <2>1, AnswerView
<1>3. QED
  BY <1>2 DEF Contract!Approved, Contract!Bound

\* A step of a handler is a step of the contract or none.
LEMMA ContractStep ==
  ASSUME ContractInv, NEW h \in Handlers, Step(h)
  PROVE  [Contract!Next]_view
<1> USE DEF view
<1>i. IInv /\ WellFormed /\ TypeOK /\ GateAInv /\ GateDInv
  BY DEF ContractInv, EndInv, IInv, WellFormed
<1>1. CASE Hidden
  BY <1>1, HiddenView
<1>2. ASSUME NEW s \in WorkflowState, SetState(s) PROVE [Contract!Next]_view
  <2>1. UNCHANGED <<plan, questions, answers, Evidence, final>>
    BY <1>2 DEF SetState, questions, answers, Evidence, Reported, evidenceVars
  <2>2. CASE pc[h] = "complete" /\ outcome = "open" /\ outcome' = "COMPLETED"
    <3>1. ApprovedGate("FINAL") /\ final # None
      BY <1>i, <2>2 DEF GateDInv
    <3>2. Contract!Approved("FINAL", Evidence)
      BY <1>i, <3>1, ApprovalView
    <3>3. Contract!Complete
      BY <2>1, <2>2, <3>1, <3>2 DEF Contract!Complete, Contract!End, Contract!Open, Contract!Bound
    <3>4. QED
      BY <3>3 DEF Contract!Next
  <2>3. CASE pc[h] = "reject" /\ outcome = "open" /\ outcome' = "REJECTED"
    <3>1. PICK g \in Gates : HumanGate(g) /\ gates[g].decision = "REJECT"
      BY <2>3 DEF ContractInv, EndingInv, RejectedGate
    <3>2. answers[g] = "REJECT" /\ questions[g].kind \in {"ARCHITECTURE", "FINAL"}
      <4>1. gates[g].decision # None
        BY <3>1, NoneIsFresh DEF HumanDecisionType
      <4>2. QED
        BY <1>i, <3>1, <4>1, AnswerView DEF HumanGate
    <3>3. Contract!Reject
      BY <2>1, <2>3, <3>2 DEF Contract!Reject, Contract!Rejected, Contract!End, Contract!Open
    <3>4. QED
      BY <3>3 DEF Contract!Next
  <2>4. CASE pc[h] = "fail" /\ outcome = "open" /\ outcome' = "FAILED"
    <3>1. Contract!Approved("ARCHITECTURE", plan)
      BY <1>i, <2>4, ApprovalView DEF ContractInv, EndingInv
    <3>2. Contract!Fail
      BY <2>1, <2>4, <3>1 DEF Contract!Fail, Contract!End, Contract!Open
    <3>3. QED
      BY <3>2 DEF Contract!Next
  <2>5. QED
    BY <1>i, <2>1, <2>2, <2>3, <2>4, Endings
<1>3. CASE StorePlan(h)
  <2>1. PICK p \in Plans : SetArchitecturePlan(p)
    BY <1>3 DEF StorePlan
  <2>2. /\ plan' # None
        /\ UNCHANGED <<questions, answers, Evidence, final, outcome>>
    BY <2>1, NoneIsFresh DEF SetArchitecturePlan, questions, answers, Evidence, Reported,
       evidenceVars, outcome
  <2>3. QED
    BY <2>2 DEF Contract!Replan, Contract!Next
<1>4. ASSUME NEW kind \in GateKind, NEW subject \in GateSubject, AddApprovalGate(kind, subject)
      PROVE  [Contract!Next]_view
  <2>1. PICK g \in Gates :
          /\ questions[g] = None
          /\ questions' = [questions EXCEPT ![g] = questions'[g]]
          /\ questions'[g] = [kind |-> kind, subject |-> subject]
    BY <1>i, <1>4, OpeningView
  <2>2. UNCHANGED <<plan, answers, Evidence, final, outcome>>
    BY <1>i, <1>4, OpeningView
  <2>3. questions'[g] # None
    BY <2>1, NoneIsNoQuestion DEF Question
  <2>4. Contract!Ask(g)
    BY <2>1, <2>2, <2>3 DEF Contract!Ask, Contract!Bound
  <2>5. QED
    BY <2>4 DEF Contract!Next
<1>5. ASSUME NEW g \in Gates, NEW d \in HumanDecisionType, ResolveApprovalGate(g, d)
      PROVE  [Contract!Next]_view
  BY <1>i, <1>5, ResolvingView DEF Contract!Answer, Contract!Next
<1>6. CASE WorkerWrites
  <2>1. /\ Evidence.workers \subseteq Evidence'.workers
        /\ Evidence.executions <= Evidence'.executions
        /\ UNCHANGED <<plan, gates, questions, answers, final, outcome>>
    BY <1>i, <1>6, WorkerView
  <2>2. ApprovedGate("ARCHITECTURE")
    <3>1. executions' > 0 \/ Reported' # {}
      BY <1>6, <1>i DEF WorkerWrites, SetWorkerOutput, AddExecutionResult, Reported, TypeOK,
         SessionTypeOK, OutputStatus
    <3>2. ApprovedGate("ARCHITECTURE")'
      BY <1>i, <3>1, StepInv DEF IInv, GateAInv
    <3>3. QED
      BY <2>1, <3>2 DEF ApprovedGate
  <2>3. Contract!Work
    BY <1>i, <2>1, <2>2, ApprovalView DEF Contract!Work
  <2>4. QED
    BY <2>3 DEF Contract!Next
<1>7. CASE Finalize(h)
  <2>1. /\ pc[h] = "finalize" /\ final' = job[h].evidence
        /\ UNCHANGED <<state, plan, gates, evidenceVars>>
    BY <1>7 DEF Finalize, SetFinalResult
  <2>2. UNCHANGED <<plan, questions, answers, Evidence, outcome>>
    BY <2>1 DEF questions, answers, Evidence, Reported, evidenceVars, outcome
  <2>3. ApprovedGate("FINAL") /\ final' # None
    BY <1>i, <2>1 DEF GateDInv, WellFormed, LocalsOK
  <2>4. outcome # "COMPLETED"
    BY <2>1 DEF ContractInv, EndInv, DoneInv, outcome
  <2>5. Contract!Deliver
    BY <1>i, <2>2, <2>3, <2>4, ApprovalView DEF Contract!Deliver, Contract!Bound
  <2>6. QED
    BY <2>5 DEF Contract!Next
<1>8. QED
  BY <1>i, <1>1, <1>2, <1>3, <1>4, <1>5, <1>6, <1>7, OneOperation

\* A new session promises nothing yet.
LEMMA ContractInit == Init => Contract!Init /\ ExactContract!Init
BY DEF Init, CoordinatorInit, CreateSession, Contract!Init, Contract!Open, ExactContract!Init,
   ExactContract!Open, questions, answers, Evidence, Reported, outcome, NoGate, TerminalStates

\* A crash takes the handlers, which the contract does not know.
LEMMA CrashView ==
  ASSUME Crash \/ UNCHANGED vars
  PROVE  UNCHANGED view
BY DEF Crash, vars, sessionVars, evidenceVars, view, questions, answers, Evidence, Reported,
   outcome

\* The runtime keeps the contract, however many tabs act on a run and wherever
\* the process dies (runtime/service.py:44-272, orchestration/service.py:98-283,
\* approval/service.py:67-214, session/manager.py:42-220).
THEOREM RuntimeKeepsContract == Spec => KeepsContract
<1>1. ContractInv /\ [Next]_vars => [Contract!Next]_Contract!vars
  <2>1. ContractInv /\ [Next]_vars => [Contract!Next]_view
    BY ContractStep, CrashView DEF Next
  <2>2. QED
    BY <2>1 DEF view, Contract!vars
<1>2. QED
  BY <1>1, ContractInit, ContractInvariance, PTL DEF Spec, KeepsContract, Contract!Spec
===============================================================================

------------------------------ MODULE RunSession ------------------------------
(***************************************************************************)
(* The durable record of one run and the operations SessionManager offers  *)
(* on it (app/session/manager.py).  Each operation reads, changes and      *)
(* saves the record under the manager's lock, so each is one atomic step.  *)
(* Callers compose several of them, and nothing makes a composition atomic *)
(* : the modules that EXTEND this one take each operation in a step of its *)
(* own.                                                                    *)
(*                                                                         *)
(* Execution results are never removed from a session and never changed,   *)
(* so they are kept as what QA asks of them: how many there are, and which *)
(* workers own a successful one and which an unsuccessful one.             *)
(***************************************************************************)
EXTENDS WorkflowStates, Naturals, FiniteSets

CONSTANTS
  Workers,   \* the worker ids plans draw from
  Plans,     \* the architecture plans the LLM may return
  MaxGates,  \* bound on the gates of a run
  None       \* the absence of a plan, a gate, a worker or evidence

\* Gates in the order the record lists them.
Gates == 1..MaxGates

ASSUME MaxGatesAssumption == MaxGates \in Nat

VARIABLES
  state,       \* context.state
  plan,        \* architecture_plan
  gates,       \* approval_gates together with the decision recorded for each
  outputs,     \* worker_outputs, by worker: the status of the last one written
  executions,  \* the number of execution_results
  passed,      \* workers that own a SUCCESS result
  failed,      \* workers that own a result that is not a SUCCESS
  qa,          \* evidence of the last "qa" message that carries an evidence_hash
  revisions,   \* the number of "revision" messages
  final        \* evidence the final_result is bound to

evidenceVars == <<outputs, executions, passed, failed>>
sessionVars  == <<state, plan, gates, evidenceVars, qa, revisions, final>>

HumanDecisionType == {"APPROVE", "MODIFY", "REJECT", "CLARIFY"}
GateKind          == {"ARCHITECTURE", "FINAL", "TOOL_RISK"}
OutputStatus      == {"none", "success", "error", "waiting_human", "approved", "denied"}

\* What the evidence of a QA PASS counts; results only accumulate, so two
\* passing sessions with the same summary hold the same evidence.
EvidenceSummary == [workers : SUBSET Workers, executions : Nat]

ASSUME NoneIsFresh ==
  /\ None \notin Workers \cup Plans
  /\ None \notin Gates
  /\ None \notin HumanDecisionType \cup GateKind
  /\ None \notin EvidenceSummary

\* What the human is shown: the plan, the evidence, or the worker at risk.
GateSubject == Plans \cup EvidenceSummary \cup Workers \cup {None}

NoGate == [kind |-> None, status |-> "ABSENT", decision |-> None, subject |-> None]

ApprovalGate ==
  [ kind     : GateKind \cup {None},
    status   : {"ABSENT", "OPEN", "RESOLVED"},
    decision : HumanDecisionType \cup {None},
    subject  : GateSubject ]

SessionTypeOK ==
  /\ state \in WorkflowState
  /\ plan \in Plans \cup {None}
  /\ gates \in [Gates -> ApprovalGate]
  /\ outputs \in [Workers -> OutputStatus]
  /\ executions \in Nat
  /\ passed \subseteq Workers
  /\ failed \subseteq Workers
  /\ qa \in EvidenceSummary \cup {None}
  /\ revisions \in Nat
  /\ final \in EvidenceSummary \cup {None}

\* create_session: a record in IDLE and nothing else.
CreateSession ==
  /\ state = "IDLE"
  /\ plan = None
  /\ gates = [g \in Gates |-> NoGate]
  /\ outputs = [w \in Workers |-> "none"]
  /\ executions = 0
  /\ passed = {}
  /\ failed = {}
  /\ qa = None
  /\ revisions = 0
  /\ final = None

-------------------------------------------------------------------------------
(* The operations.  Each states what it saves and what it leaves alone.    *)

\* transition, once ensure_transition has let it through.
SetState(target) ==
  /\ state' = target
  /\ UNCHANGED <<plan, gates, evidenceVars, qa, revisions, final>>

\* set_architecture_plan: asks nothing of the state the run is in.
SetArchitecturePlan(p) ==
  /\ plan' = p
  /\ UNCHANGED <<state, gates, evidenceVars, qa, revisions, final>>

\* add_approval_gate: appended to the record's gates, under a fresh id.
AddApprovalGate(kind, subject) ==
  /\ \E g \in Gates :
       /\ gates[g].status = "ABSENT"
       /\ \A k \in 1..(g - 1) : gates[k].status # "ABSENT"
       /\ gates' = [gates EXCEPT ![g] = [ kind |-> kind, status |-> "OPEN",
                                          decision |-> None, subject |-> subject ]]
  /\ UNCHANGED <<state, plan, evidenceVars, qa, revisions, final>>

\* resolve_approval_gate: the resolved gate and its decision in one save, and
\* only over a gate that is still open in the record.
ResolveApprovalGate(g, decision) ==
  /\ gates[g].status = "OPEN"
  /\ gates' = [gates EXCEPT ![g].status = "RESOLVED", ![g].decision = decision]
  /\ UNCHANGED <<state, plan, evidenceVars, qa, revisions, final>>

\* set_worker_output: overwrites whatever the worker had.  The statuses of an
\* execution that did not succeed (error, timeout, denied, unavailable) are one,
\* "error": whoever reads an output only asks whether it is a success.
SetWorkerOutput(w, status) ==
  /\ outputs' = [outputs EXCEPT ![w] = status]
  /\ UNCHANGED <<state, plan, gates, executions, passed, failed, qa, revisions, final>>

\* add_execution_result, for an execution id the session does not hold yet.
AddExecutionResult(w, success) ==
  /\ executions' = executions + 1
  /\ passed' = IF success THEN passed \cup {w} ELSE passed
  /\ failed' = IF success THEN failed ELSE failed \cup {w}
  /\ UNCHANGED <<state, plan, gates, outputs, qa, revisions, final>>

\* Faulty: the first recorded evidence stays the one that is found.
AddQAMessageOnce(evidence) ==
  /\ qa' = IF qa = None THEN evidence ELSE qa
  /\ UNCHANGED <<state, plan, gates, evidenceVars, revisions, final>>

\* add_message with phase "qa" and an evidence_hash.
AddQAMessage(evidence) ==
  /\ qa' = evidence
  /\ UNCHANGED <<state, plan, gates, evidenceVars, revisions, final>>

\* add_message with phase "revision".
AddRevisionMessage ==
  /\ revisions' = revisions + 1
  /\ UNCHANGED <<state, plan, gates, evidenceVars, qa, final>>

\* set_final_result
SetFinalResult(evidence) ==
  /\ final' = evidence
  /\ UNCHANGED <<state, plan, gates, evidenceVars, qa, revisions>>

-------------------------------------------------------------------------------
(* SupervisorService.evaluate over the whole session: every output and     *)
(* every result it has ever held, whatever plan they came from.            *)

Reported == {w \in Workers : outputs[w] # "none"}

Evidence == [workers |-> Reported, executions |-> executions]

\* Workers whose last output is not a success, or is one without its result.
Unsatisfied == {w \in Reported : outputs[w] # "success" \/ w \notin passed}

\* Faulty: only the outputs are looked at.
QAStatusOfOutputs ==
  IF Unsatisfied # {} THEN "REVISE" ELSE IF Reported = {} THEN "FAIL" ELSE "PASS"

QAStatus ==
  IF Unsatisfied # {} \/ failed # {} THEN "REVISE"
  ELSE IF Reported = {} THEN "FAIL"
  ELSE "PASS"

ApprovedGate(kind) ==
  \E g \in Gates : gates[g].kind = kind /\ gates[g].decision = "APPROVE"
===============================================================================

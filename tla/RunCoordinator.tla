---------------------------- MODULE RunCoordinator ----------------------------
(***************************************************************************)
(* RuntimeCoordinator (app/runtime/service.py) with the services it calls: *)
(* architect, approval engine, RevisionService, SupervisorService and      *)
(* RecoveryResumeService, all working on one run.                          *)
(*                                                                         *)
(* A handler is one UI callback or one worker thread that a callback       *)
(* started (app/ui/chainlit_app.py): several browser tabs give several     *)
(* handlers on one run.  pc[h] names what handler h does next and job[h]   *)
(* holds its local variables.  Every step takes at most one SessionManager *)
(* operation that changes the session, so every interleaving of two        *)
(* handlers, and a crash between any two writes, is a behaviour here.      *)
(***************************************************************************)
EXTENDS RunSession

CONSTANTS
  Handlers,        \* callbacks and threads that may be active at once
  HumanDecisions,  \* the decisions humans give in this instance
  MaxRevisions,    \* RevisionService.max_revisions
  Risky            \* workers whose tools or network access need Gate C

ASSUME HandlersAssumption == None \notin Handlers
ASSUME DecisionsAssumption == HumanDecisions \subseteq HumanDecisionType
ASSUME MaxRevisionsAssumption == MaxRevisions \in Nat \ {0}
ASSUME RiskyAssumption == Risky \subseteq Workers

VARIABLES
  pc,       \* pc[h]: the next step of handler h
  job,      \* job[h]: the locals of handler h
  loop,     \* the handler that holds the UI's event loop, or None
  orphans,  \* workers whose granted execution has a RUNNING lease and no executor
  crashes   \* how often the process has died

hostVars    == <<orphans, crashes>>
handlerVars == <<pc, job, loop>>

Reviser == {"coordinator", "recovery"}

Job ==
  [ gate     : Gates \cup {None},
    plan     : Plans \cup {None},
    worker   : Workers \cup {None},
    evidence : EvidenceSummary \cup {None},
    reviser  : Reviser,
    rebuilds : BOOLEAN,
    todo     : SUBSET Workers,
    batch    : SUBSET Workers,
    granted  : SUBSET Workers,
    running  : SUBSET Workers,
    done     : SUBSET (Workers \X BOOLEAN),
    pending  : SUBSET Workers,
    raised   : BOOLEAN ]

NoJob ==
  [ gate |-> None, plan |-> None, worker |-> None, evidence |-> None,
    reviser |-> "coordinator", rebuilds |-> FALSE, todo |-> {}, batch |-> {},
    granted |-> {}, running |-> {}, done |-> {}, pending |-> {}, raised |-> FALSE ]

\* A pending call of SessionManager.transition: the state it asks for and the
\* step that follows when the state machine allows it.
Transitions ==
  [ awaitPlanDecision |-> [target |-> "WAITING_ARCHITECT_APPROVAL", next |-> "requestPlanGate"],
    beginExecution    |-> [target |-> "EXECUTING",                  next |-> "execute"],
    reject            |-> [target |-> "REJECTED",                   next |-> "idle"],
    complete          |-> [target |-> "COMPLETED",                  next |-> "idle"],
    pause             |-> [target |-> "WORKER_WAITING_HUMAN",       next |-> "idle"],
    supervise         |-> [target |-> "SUPERVISING",                next |-> "evaluate"],
    superviseFailure  |-> [target |-> "SUPERVISING",                next |-> "revise"],
    awaitFinal        |-> [target |-> "WAITING_FINAL_APPROVAL",     next |-> "requestFinalGate"],
    fail              |-> [target |-> "FAILED",                     next |-> "idle"],
    enterRevision     |-> [target |-> "REVISION",                   next |-> "rearchitect"],
    rearchitect       |-> [target |-> "ARCHITECTING",               next |-> "recordRevision"] ]

CoordinatorSteps ==
  DOMAIN Transitions \cup
  { "idle", "build", "planning", "requestPlanGate", "applyDecision", "finalize",
    "revise", "revision", "recordRevision", "evaluate", "record", "recompute", "recordQA",
    "requestFinalGate", "reconcile" }

\* Handler h goes on to step with locals j.  A handler that returns forgets
\* its locals, and gives back the event loop if it ran on it; execute_run and
\* build_architecture are awaited in threads, which frees the event loop too.
Goto(h, step, j) ==
  /\ pc' = [pc EXCEPT ![h] = step]
  /\ job' = [job EXCEPT ![h] = IF step = "idle" THEN NoJob ELSE j]
  /\ loop' = IF loop = h /\ step \in {"idle", "execute", "build"} THEN None ELSE loop

\* A callback can start when no other one is holding the event loop.
Callback(h) == pc[h] = "idle" /\ loop = None

\* SessionManager.transition by handler h: an illegal one raises, which ends
\* the handler and leaves the session as it is.
MoveState(h) ==
  /\ pc[h] \in DOMAIN Transitions
  /\ LET call == Transitions[pc[h]] IN
       IF TransitionAllowed(state, call.target)
       THEN SetState(call.target) /\ Goto(h, call.next, job[h])
       ELSE UNCHANGED sessionVars /\ Goto(h, "idle", NoJob)
  /\ UNCHANGED hostVars

-------------------------------------------------------------------------------
(* Intake and architecture.                                                *)

\* on_message: start_run creates the session, moves it to INTAKE and records
\* the objective; only this callback knows the new run, so it is one step.
StartRun(h) ==
  /\ Callback(h)
  /\ state = "IDLE"
  /\ SetState("INTAKE")
  /\ Goto(h, "build", NoJob)
  /\ UNCHANGED hostVars

\* build_architecture up to the call of the LLM.
BuildArchitecture(h) ==
  /\ pc[h] = "build"
  /\ IF state \in {"INTAKE", "ARCHITECTING"}
     THEN SetState("ARCHITECTING") /\ Goto(h, "planning", job[h])
     ELSE UNCHANGED sessionVars /\ Goto(h, "idle", NoJob)
  /\ UNCHANGED hostVars

\* The LLM has answered: the plan is stored whatever happened to the run since.
StorePlan(h) ==
  /\ pc[h] = "planning"
  /\ \E p \in Plans : /\ SetArchitecturePlan(p)
                      /\ Goto(h, "awaitPlanDecision", [job[h] EXCEPT !.plan = p])
  /\ UNCHANGED hostVars

\* The LLM or the validation of its answer raised.
PlanFails(h) ==
  /\ pc[h] = "planning"
  /\ Goto(h, "idle", NoJob)
  /\ UNCHANGED <<sessionVars, hostVars>>

\* Gate A: the human is shown the plan this handler built.
RequestPlanGate(h) ==
  /\ pc[h] = "requestPlanGate"
  /\ AddApprovalGate("ARCHITECTURE", job[h].plan)
  /\ Goto(h, "idle", NoJob)
  /\ UNCHANGED hostVars

-------------------------------------------------------------------------------
(* Gate A and Gate D decisions: on_runtime_gate_decision resolves the gate *)
(* and applies the decision without giving up the event loop in between.   *)

ResolveGate(h, g, decision) ==
  /\ Callback(h)
  /\ gates[g].kind \in {"ARCHITECTURE", "FINAL"}
  /\ ResolveApprovalGate(g, decision)
  /\ pc' = [pc EXCEPT ![h] = "applyDecision"]
  /\ job' = [job EXCEPT ![h] = [NoJob EXCEPT !.gate = g]]
  /\ loop' = h
  /\ UNCHANGED hostVars

\* Faulty: whatever is not a rejection starts the workers.
ApplyArchitectureDecisionLoose(h) ==
  /\ pc[h] = "applyDecision"
  /\ gates[job[h].gate].kind = "ARCHITECTURE"
  /\ Goto(h, IF state # "WAITING_ARCHITECT_APPROVAL" THEN "idle"
             ELSE IF gates[job[h].gate].decision = "REJECT" THEN "reject"
             ELSE "beginExecution", job[h])
  /\ UNCHANGED <<sessionVars, hostVars>>

\* apply_architecture_decision: add_decision finds the decision the gate's
\* resolution already stored and changes nothing.
ApplyArchitectureDecision(h) ==
  /\ pc[h] = "applyDecision"
  /\ gates[job[h].gate].kind = "ARCHITECTURE"
  /\ LET decision == gates[job[h].gate].decision IN
       Goto(h, IF state # "WAITING_ARCHITECT_APPROVAL" THEN "idle"
               ELSE CASE decision = "APPROVE" -> "beginExecution"
                      [] decision = "REJECT"  -> "reject"
                      [] OTHER                -> "revise",
            [job[h] EXCEPT !.rebuilds = TRUE])
  /\ UNCHANGED <<sessionVars, hostVars>>

\* Faulty: recorded evidence is not asked for, and a CLARIFY finalizes as well.
ApplyFinalDecisionLoose(h) ==
  /\ pc[h] = "applyDecision"
  /\ gates[job[h].gate].kind = "FINAL"
  /\ LET decision == gates[job[h].gate].decision IN
       Goto(h, IF state # "WAITING_FINAL_APPROVAL" THEN "idle"
               ELSE CASE decision = "MODIFY" -> "revise"
                      [] decision = "REJECT" -> "reject"
                      [] OTHER               -> "finalize",
            [job[h] EXCEPT !.evidence = qa])
  /\ UNCHANGED <<sessionVars, hostVars>>

\* apply_final_decision up to its first write: APPROVE needs recorded QA
\* evidence, and a CLARIFY the gate accepted is an invalid final decision.
ApplyFinalDecision(h) ==
  /\ pc[h] = "applyDecision"
  /\ gates[job[h].gate].kind = "FINAL"
  /\ LET decision == gates[job[h].gate].decision IN
       Goto(h, IF state # "WAITING_FINAL_APPROVAL" THEN "idle"
               ELSE CASE decision = "APPROVE" /\ qa # None -> "finalize"
                      [] decision = "MODIFY"               -> "revise"
                      [] decision = "REJECT"               -> "reject"
                      [] OTHER                             -> "idle",
            [job[h] EXCEPT !.evidence = qa])
  /\ UNCHANGED <<sessionVars, hostVars>>

\* Faulty: the result is stored and the run is left waiting.
FinalizeOnly(h) ==
  /\ pc[h] = "finalize"
  /\ SetFinalResult(job[h].evidence)
  /\ Goto(h, "idle", NoJob)
  /\ UNCHANGED hostVars

\* set_final_result, bound to the recorded evidence.
Finalize(h) ==
  /\ pc[h] = "finalize"
  /\ SetFinalResult(job[h].evidence)
  /\ Goto(h, "complete", job[h])
  /\ UNCHANGED hostVars

-------------------------------------------------------------------------------
(* RevisionService.request_revision.  The coordinator and the recovery     *)
(* service each hold an instance, and the lock is the instance's own.      *)

RevisionSection == {"revision", "enterRevision", "rearchitect", "recordRevision"}

RevisableStates ==
  {"REVISION", "SUPERVISING", "WAITING_FINAL_APPROVAL", "WORKER_WAITING_HUMAN"}

\* Faulty: no limit.
RequestRevisionUnlimited(h) ==
  /\ pc[h] = "revise"
  /\ Goto(h, IF state \in RevisableStates THEN "revision" ELSE "idle", job[h])
  /\ UNCHANGED <<sessionVars, hostVars>>

\* Faulty: the last revision that the limit allows is refused.
RequestRevisionBelow(h) ==
  /\ pc[h] = "revise"
  /\ \A k \in Handlers \ {h} :
       pc[k] \in RevisionSection => job[k].reviser # job[h].reviser
  /\ Goto(h, IF state \in RevisableStates /\ revisions + 1 < MaxRevisions
             THEN "revision" ELSE "idle", job[h])
  /\ UNCHANGED <<sessionVars, hostVars>>

\* The guards: the state, then the number of revisions so far.
RequestRevision(h) ==
  /\ pc[h] = "revise"
  /\ \A k \in Handlers \ {h} :
       pc[k] \in RevisionSection => job[k].reviser # job[h].reviser
  /\ Goto(h, IF state \in RevisableStates /\ revisions < MaxRevisions
             THEN "revision" ELSE "idle", job[h])
  /\ UNCHANGED <<sessionVars, hostVars>>

\* The state is read again, and the transitions it asks for follow: a run that
\* left the revisable states meanwhile is not moved, and the revision recorded
\* all the same.  One that leaves them after this read makes enterRevision raise.
EnterRevision(h) ==
  /\ pc[h] = "revision"
  /\ Goto(h, CASE state \in RevisableStates \ {"REVISION"} -> "enterRevision"
               [] state = "REVISION"                       -> "rearchitect"
               [] OTHER                                    -> "recordRevision",
          job[h])
  /\ UNCHANGED <<sessionVars, hostVars>>

\* The revision message, and what the callback does then: a recovery, and a
\* Gate A answer, build the new architecture themselves when the run is back
\* in ARCHITECTING; the others leave the run there.
RecordRevision(h) ==
  /\ pc[h] = "recordRevision"
  /\ AddRevisionMessage
  /\ Goto(h, CASE job[h].rebuilds /\ state = "ARCHITECTING" -> "build"
               [] job[h].reviser = "recovery" /\ state = "SUPERVISING" -> "evaluate"
               [] OTHER -> "idle",
          job[h])
  /\ UNCHANGED hostVars

-------------------------------------------------------------------------------
(* Supervision and Gate D.                                                 *)

\* Snapshot and QA, by execute_run or by a resumed recovery.
Evaluate(h) ==
  /\ pc[h] = "evaluate"
  /\ Goto(h, CASE QAStatus = "PASS"   -> "record"
               [] QAStatus = "REVISE" -> "revise"
               [] QAStatus = "FAIL"   -> "fail",
          [job[h] EXCEPT !.evidence = Evidence, !.reviser = "coordinator"])
  /\ UNCHANGED <<sessionVars, hostVars>>

\* record_supervisor_result: the run must still be SUPERVISING.
RecordSupervisorResult(h) ==
  /\ pc[h] = "record"
  /\ Goto(h, IF state = "SUPERVISING" THEN "recompute" ELSE "idle", job[h])
  /\ UNCHANGED <<sessionVars, hostVars>>

\* The PASS is recomputed from a snapshot taken then, and must be the one that
\* was reported.
RecomputeEvidence(h) ==
  /\ pc[h] = "recompute"
  /\ Goto(h, IF plan # None /\ QAStatus = "PASS" /\ Evidence = job[h].evidence
             THEN "recordQA" ELSE "idle", job[h])
  /\ UNCHANGED <<sessionVars, hostVars>>

\* The message that records it, with the hash of its evidence.
RecordQA(h) ==
  /\ pc[h] = "recordQA"
  /\ AddQAMessage(job[h].evidence)
  /\ Goto(h, "awaitFinal", job[h])
  /\ UNCHANGED hostVars

RequestFinalGate(h) ==
  /\ pc[h] = "requestFinalGate"
  /\ AddApprovalGate("FINAL", job[h].evidence)
  /\ Goto(h, "idle", NoJob)
  /\ UNCHANGED hostVars

-------------------------------------------------------------------------------
(* Recovery: on_runtime_recovery_resume.  Any run that is not terminal is  *)
(* offered, running ones included.  The AWAIT_* actions only audit.        *)

\* Faulty: a run that waits for Gate A is rebuilt too.
RecoverArchitectureWaiting(h) ==
  /\ Callback(h)
  /\ state \in {"ARCHITECTING", "REVISION", "WAITING_ARCHITECT_APPROVAL"}
  /\ SetState("ARCHITECTING")
  /\ Goto(h, "build", NoJob)
  /\ UNCHANGED hostVars

RecoverArchitecture(h) ==
  /\ Callback(h)
  /\ state \in {"ARCHITECTING", "REVISION"}
  /\ SetState("ARCHITECTING")
  /\ Goto(h, "build", NoJob)
  /\ UNCHANGED hostVars

RecoverSupervision(h) ==
  /\ Callback(h)
  /\ state = "SUPERVISING"
  /\ Goto(h, "evaluate", [NoJob EXCEPT !.rebuilds = TRUE])
  /\ UNCHANGED <<sessionVars, hostVars>>

\* RECONCILE_EXECUTION, for the key of an execution the user names: one with
\* a result, or one whose executor is gone.  For any other key the action is
\* rejected, as it is while the backend reports the execution as running.
RecoverExecution(h, w) ==
  /\ Callback(h)
  /\ state = "EXECUTING"
  /\ w \in passed \cup failed \cup orphans
  /\ Goto(h, "reconcile",
          [NoJob EXCEPT !.worker = w, !.reviser = "recovery", !.rebuilds = TRUE])
  /\ UNCHANGED <<sessionVars, hostVars>>

\* Where the recovery goes once the outcome of the execution is established.
AfterReconciliation(success) ==
  IF success THEN "supervise" ELSE "superviseFailure"

\* The session already holds a result for the key.
ReconcileLocal(h) ==
  /\ pc[h] = "reconcile"
  /\ \E success \in BOOLEAN :
       /\ job[h].worker \in (IF success THEN passed ELSE failed)
       /\ Goto(h, AfterReconciliation(success), job[h])
  /\ UNCHANGED <<sessionVars, hostVars>>

\* The lease is RUNNING: the backend is asked, and a result it has is stored.
ReconcileBackend(h) ==
  /\ pc[h] = "reconcile"
  /\ job[h].worker \in orphans
  /\ orphans' = orphans \ {job[h].worker}
  /\ UNCHANGED crashes
  /\ \E success \in BOOLEAN :
       /\ AddExecutionResult(job[h].worker, success)
       /\ Goto(h, AfterReconciliation(success), job[h])

\* The backend has no result for the key: the action is rejected.
ReconcileNothing(h) ==
  /\ pc[h] = "reconcile"
  /\ job[h].worker \in orphans
  /\ Goto(h, "idle", NoJob)
  /\ UNCHANGED <<sessionVars, hostVars>>

-------------------------------------------------------------------------------
CoordinatorInit ==
  /\ CreateSession
  /\ pc = [h \in Handlers |-> "idle"]
  /\ job = [h \in Handlers |-> NoJob]
  /\ loop = None
  /\ orphans = {}
  /\ crashes = 0

CoordinatorStep(h) ==
  \/ StartRun(h) \/ BuildArchitecture(h) \/ StorePlan(h) \/ PlanFails(h)
  \/ RequestPlanGate(h)
  \/ \E g \in Gates, decision \in HumanDecisions : ResolveGate(h, g, decision)
  \/ ApplyArchitectureDecision(h) \/ ApplyFinalDecision(h) \/ Finalize(h)
  \/ RequestRevision(h) \/ EnterRevision(h) \/ RecordRevision(h)
  \/ Evaluate(h) \/ RecordSupervisorResult(h) \/ RecomputeEvidence(h)
  \/ RecordQA(h) \/ RequestFinalGate(h)
  \/ MoveState(h)
  \/ RecoverArchitecture(h) \/ RecoverSupervision(h)
  \/ \E w \in Workers : RecoverExecution(h, w)
  \/ ReconcileLocal(h) \/ ReconcileBackend(h) \/ ReconcileNothing(h)
===============================================================================

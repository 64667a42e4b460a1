----------------------------- MODULE AgentRuntime -----------------------------
(***************************************************************************)
(* One run of the runtime: the coordinator and the orchestrator over the   *)
(* durable session, with the process that hosts them crashing and being    *)
(* restarted.                                                              *)
(***************************************************************************)
EXTENDS Orchestrator

CONSTANT MaxCrashes  \* bound on the crashes explored

ASSUME MaxCrashesAssumption == MaxCrashes \in Nat

vars == <<sessionVars, handlerVars, hostVars>>

Steps == CoordinatorSteps \cup OrchestratorSteps

TypeOK ==
  /\ SessionTypeOK
  /\ pc \in [Handlers -> Steps]
  /\ job \in [Handlers -> Job]
  /\ loop \in Handlers \cup {None}
  /\ orphans \subseteq Workers
  /\ crashes \in 0..MaxCrashes

Init == CoordinatorInit

\* The process dies and a new one opens the same repository: every handler is
\* gone, the session is what was saved, and the lease of an execution that was
\* under way stays RUNNING.
Crash ==
  /\ crashes < MaxCrashes
  /\ crashes' = crashes + 1
  /\ orphans' = orphans \cup
       UNION {job[h].running \cap job[h].granted : h \in {k \in Handlers : pc[k] = "running"}}
  /\ pc' = [h \in Handlers |-> "idle"]
  /\ job' = [h \in Handlers |-> NoJob]
  /\ loop' = None
  /\ UNCHANGED sessionVars

Step(h) == CoordinatorStep(h) \/ OrchestratorStep(h)

Next == (\E h \in Handlers : Step(h)) \/ Crash

Spec == Init /\ [][Next]_vars

-------------------------------------------------------------------------------
(* Whatever tabs are open and wherever the process dies.                   *)

\* M10 invariant 2 (runtime/service.py:136-164): nothing a worker did is in
\* the session, and no run is past Gate A, before a human approved an
\* architecture at Gate A.
PastGateA ==
  {"EXECUTING", "WORKER_WAITING_HUMAN", "SUPERVISING", "WAITING_FINAL_APPROVAL", "COMPLETED"}

WorkNeedsGateA ==
  state \in PastGateA \/ executions > 0 \/ Reported # {} => ApprovedGate("ARCHITECTURE")

\* M10 invariants 4 and 5 (runtime/service.py:225-272): a run is COMPLETED, or
\* holds a final result, only with a Gate D approval by a human and with the
\* evidence of a QA PASS on record.
CompletedIsApproved ==
  state = "COMPLETED" \/ final # None =>
    /\ ApprovedGate("FINAL")
    /\ qa # None
    /\ state = "COMPLETED" => final # None

\* M10 invariant 6 (tools/authorization.py:82-162, workers/runtime.py:195-261):
\* a worker that needs Gate C owns a successful result only if a human
\* approved a Gate C of that worker, however its runs were interleaved with
\* the answers, and also when the result came from a reconciliation.
RiskyNeedsGateC ==
  \A w \in passed \cap Risky : \E g \in ToolGates(w) : gates[g].decision = "APPROVE"

\* The final result of a completed run is never replaced, by a second approval
\* or by a handler that was under way (runtime/service.py:225-272).
CompletedIsFinal == [][state = "COMPLETED" => UNCHANGED <<state, final>>]_vars

\* Two RevisionService instances count the same messages under two locks
\* (revision/service.py:44-98): they overrun the limit by one at most.
RevisionBound == revisions <= MaxRevisions + 1

\* Whoever brings the plan it executed to QA has an output of each worker of the
\* plan: none is lost between two batches, in a batch of which some workers
\* wait, are skipped or raise, or when the run is resumed after a Gate C
\* (orchestration/service.py:128-283).  A recovery has executed no plan, and may
\* bring a run to QA before all of its workers have run (recovery/resume.py:126).
NoWorkerIsDropped ==
  \A h \in Handlers :
    /\ job[h].plan # None
    /\ pc[h] \in { "supervise", "evaluate", "record", "recompute", "recordQA",
                   "awaitFinal", "requestFinalGate" }
    => PlanWorkers[job[h].plan] \subseteq Reported

Idle == \A h \in Handlers : pc[h] = "idle"

LastGate(kind, g) ==
  gates[g].kind = kind /\ \A k \in Gates : gates[k].kind = kind => k <= g

\* The last gate of its kind is still to be answered, or its answer left the run
\* where it was: the revision that a MODIFY or CLARIFY of Gate A asks for is
\* refused (revision/service.py:45-49), a CLARIFY of Gate D is no final decision
\* (runtime/service.py:225-272), and neither is a MODIFY beyond the limit.
GateALeft ==
  \E g \in Gates : /\ LastGate("ARCHITECTURE", g)
                   /\ gates[g].status = "OPEN" \/ gates[g].decision \in {"MODIFY", "CLARIFY"}

GateDLeft ==
  \E g \in Gates : /\ LastGate("FINAL", g)
                   /\ \/ gates[g].status = "OPEN"
                      \/ gates[g].decision = "CLARIFY"
                      \/ gates[g].decision = "MODIFY" /\ revisions >= MaxRevisions

\* As long as nothing has crashed, a run is left waiting for a human only with
\* such a gate: no approval, rejection or possible revision is lost between
\* the answer and its application, whatever other tabs do meanwhile
\* (runtime/service.py:120-164, 202-272).
WaitingRunHasGate ==
  crashes = 0 /\ Idle =>
    /\ state = "WAITING_ARCHITECT_APPROVAL" => GateALeft
    /\ state = "WAITING_FINAL_APPROVAL" => GateDLeft

-------------------------------------------------------------------------------
(* One tab, one action of it at a time, and the process may die.           *)

\* A completed run's final result carries the evidence of the Gate D that the
\* human approved, and not that of another QA pass of the run
\* (runtime/service.py:202-223, 238-260).
FinalBindsApproval ==
  state = "COMPLETED" =>
    \E g \in Gates : /\ gates[g].kind = "FINAL"
                     /\ gates[g].decision = "APPROVE"
                     /\ gates[g].subject = final

\* The session of a run that awaits or has passed its final approval holds no
\* unsuccessful result, and no reported worker whose output is not a success
\* with a result of its own: a retry, a revision or a recovery does not hide
\* the failure it followed (supervisor/service.py:24-187).  Whether every
\* worker of the plan has reported is not asked there: see NoWorkerIsDropped.
CleanAtGateD ==
  state \in {"WAITING_FINAL_APPROVAL", "COMPLETED"} => failed = {} /\ Unsatisfied = {}

\* A Gate A or Gate D that is still open is the one the run waits for: no
\* revision, recovery or crash leaves a stale one behind for a human to answer
\* (runtime/service.py:79-134, 166-223).
OpenGateIsAwaited ==
  \A g \in Gates :
    /\ gates[g].kind \in {"ARCHITECTURE", "FINAL"}
    /\ gates[g].status = "OPEN"
    => /\ state = IF gates[g].kind = "FINAL" THEN "WAITING_FINAL_APPROVAL"
                                              ELSE "WAITING_ARCHITECT_APPROVAL"
       /\ \A k \in Gates \ {g} : gates[k].kind = gates[g].kind => gates[k].status = "RESOLVED"

\* M10 invariant 1 (runtime/service.py:120-134, orchestration/service.py:111):
\* the plan that execute_run works from is one a human approved at Gate A.
ExecutedPlanApproved ==
  \A h \in Handlers : pc[h] \in OrchestratorSteps \ {"execute"} /\ job[h].plan # None =>
    \E g \in Gates : /\ gates[g].kind = "ARCHITECTURE"
                     /\ gates[g].decision = "APPROVE"
                     /\ gates[g].subject = job[h].plan

\* Without a crash, an approved Gate D has completed the run, and a rejected
\* Gate A or D has ended it, by the time its handler is done
\* (runtime/service.py:136-164, 225-272).
AnswersAreCarriedOut ==
  crashes = 0 /\ Idle =>
    /\ ApprovedGate("FINAL") => state = "COMPLETED"
    /\ (\E g \in Gates : /\ gates[g].kind \in {"ARCHITECTURE", "FINAL"}
                         /\ gates[g].decision = "REJECT")
         => state = "REJECTED"

\* Nothing is written to a run that has ended: no output, result, plan, gate
\* or revision (session/manager.py, whose writes do not look at the state).
EndedRunIsFrozen == [][(state \in TerminalStates) => UNCHANGED sessionVars]_vars

-------------------------------------------------------------------------------
(* The run as the humans see it.                                           *)

Question == [kind : GateKind \cup {None}, subject : GateSubject]

ASSUME NoneIsNoQuestion == None \notin Question

questions ==
  [ g \in Gates |-> IF gates[g].status = "ABSENT" THEN None
                    ELSE [kind |-> gates[g].kind, subject |-> gates[g].subject] ]

answers == [g \in Gates |-> gates[g].decision]

outcome == IF state \in TerminalStates THEN state ELSE "open"

Contract == INSTANCE RunContract WITH
  Exact <- FALSE, question <- questions, answer <- answers, evidence <- Evidence, result <- final

ExactContract == INSTANCE RunContract WITH
  Exact <- TRUE, question <- questions, answer <- answers, evidence <- Evidence, result <- final

\* However many tabs act on the run and wherever the process dies: a gate is put
\* once and answered once, evidence only accumulates and only past Gate A, a
\* result takes an approved Gate D, and a run ends once, completed with a result,
\* rejected by a human or failed past Gate A (runtime/service.py, session/manager.py).
KeepsContract == Contract!Spec

\* With one tab, all of that about what is there: each gate shows the present
\* plan or evidence, work is for the approved plan, what is delivered is the
\* evidence that was approved and all there is, only a run that no worker has
\* reported to fails, and nothing at all follows the end.
KeepsExactContract == ExactContract!Spec

-------------------------------------------------------------------------------
(* Fairness and liveness.  A handler that has started is a coroutine or a  *)
(* thread of a live process, so it goes on; calls of backends and of the   *)
(* Gemini API time out, and one of an LLM without a time-out is taken to   *)
(* answer or fail.  Nothing makes a human answer or recover a run.         *)

HandlerStep(h) == pc[h] # "idle" /\ Step(h)

FairSpec == Spec /\ \A h \in Handlers : WF_vars(HandlerStep(h))

\* MaxGates cuts a run off where it needs another gate.
GatesLeft == \E g \in Gates : gates[g].status = "ABSENT"

\* Every callback and thread ends: batches, threads, revisions and locks
\* cannot keep one for ever.
HandlersReturn == \A h \in Handlers : pc[h] # "idle" ~> pc[h] = "idle" \/ ~GatesLeft

\* Unless a crash comes in between, approving Gate D completes the run, and
\* rejecting Gate A or Gate D ends it as REJECTED (runtime/service.py:136-164,
\* 225-272).
AnswersTakeEffect ==
  /\ ApprovedGate("FINAL") ~> state = "COMPLETED" \/ crashes > 0
  /\ (\E g \in Gates : /\ gates[g].kind \in {"ARCHITECTURE", "FINAL"}
                      /\ gates[g].decision = "REJECT")
       ~> state = "REJECTED" \/ crashes > 0

-------------------------------------------------------------------------------
(* Why handlers end.  Rank orders the steps as a handler comes to them; a  *)
(* revision that a recovery asks for comes before the evaluation that may  *)
(* ask for another one.  Among the steps of execute_run the handler works  *)
(* off what is left to run, to authorize, to wait for and to write.        *)

Rank ==
  [ idle |-> 0,
    requestPlanGate |-> 1, requestFinalGate |-> 1, pause |-> 1, reject |-> 1, complete |-> 1,
    fail |-> 1,
    awaitPlanDecision |-> 2, awaitFinal |-> 2, finalize |-> 2,
    planning |-> 3, recordQA |-> 3,
    build |-> 4, recompute |-> 4,
    record |-> 5, recordRevision |-> 5, rearchitect |-> 6, enterRevision |-> 7, revision |-> 8,
    revise |-> 9,
    evaluate |-> 10,
    supervise |-> 16, superviseFailure |-> 16,
    dispatch |-> 17, authorize |-> 17, requestToolGate |-> 17, markWaiting |-> 17,
    running |-> 17, writeOutputs |-> 17, reconcile |-> 17,
    execute |-> 18, beginExecution |-> 19, applyDecision |-> 20, toolOutput |-> 20,
    resolveToolGate |-> 21 ]

Level(step, reviser) ==
  Rank[step] + IF step \in {"revise"} \cup RevisionSection /\ reviser = "recovery" THEN 6 ELSE 0

Height(h) == Level(pc[h], job[h].reviser)

Load(h) == <<job[h].todo, job[h].batch, job[h].running, job[h].done>>

\* A worker that needs a Gate C costs two steps more.
Asking(h) == CASE pc[h] = "requestToolGate" -> 2 [] pc[h] = "markWaiting" -> 1 [] OTHER -> 0

Lighter(h) ==
  \E i \in 1..4 : /\ Load(h)'[i] \subseteq Load(h)[i] /\ Load(h)'[i] # Load(h)[i]
                  /\ \A k \in 1..(i - 1) : Load(h)'[k] = Load(h)[k]

Descends(h) ==
  \/ Height(h)' < Height(h)
  \/ Height(h)' = Height(h) /\ Lighter(h)
  \/ Height(h)' = Height(h) /\ Load(h)' = Load(h) /\ Asking(h)' < Asking(h)

\* Every step of a handler that has started goes down in this order, which has
\* no endless way down: no batch, revision, recovery or answer goes round in
\* circles, whatever other tabs write meanwhile (orchestration/service.py:102-385,
\* runtime/service.py:79-364, revision/service.py:44-98).
HandlersDescend == [][\A h \in Handlers : pc[h] # "idle" /\ Step(h) => Descends(h)]_vars

-------------------------------------------------------------------------------
(* What the repository's documents say and the code does not do.           *)

\* "MODIFY / CLARIFY -> ARCHITECTING" (docs/architecture/M10_RUNTIME_COORDINATOR.md:16)
\* and "modify/clarify to re-plan" (runtime/service.py:129-130): a run waits
\* for Gate A only while a Gate A is open, since any answer moves it on.
GateAMovesRun ==
  Idle /\ state = "WAITING_ARCHITECT_APPROVAL" =>
    \E g \in Gates : gates[g].kind = "ARCHITECTURE" /\ gates[g].status = "OPEN"

\* "persisted uncertain execution is reconciled rather than silently replayed"
\* (docs/architecture/M10_RUNTIME_COORDINATOR.md:48): no worker is running
\* while an earlier granted execution of it has an uncertain outcome.
NoSilentReplay ==
  \A h \in Handlers : pc[h] = "running" => job[h].running \cap orphans = {}

\* "A runtime or gateway exception while executing a batch is converted into
\* worker error evidence" (docs/architecture/M18_CONTROLLED_PARALLEL_WORKERS.md:29):
\* with no crash and no handler under way, a worker whose execution raised has
\* an output.
ExceptionIsEvidence == Idle /\ crashes = 0 => orphans \subseteq Reported
===============================================================================

# Universal Agent Runtime: specification and verification

TLA+ models of the runtime in `src/app/`, the TLC instances that check them, and
TLAPS proofs about them. Paths below are relative to `src/app/` unless they start
with `docs/` or `tests/`; `BLUEPRINT_MASTER_v1.md` is at the root of the repository.

## 1. The system

A *run* turns a user's objective into reviewed results. An LLM proposes an architecture
plan, a human approves it (Gate A), workers produce and execute code, risky tools and
network access need a human's consent (Gate C), a supervisor checks the evidence, and a
human accepts the final result (Gate D). Everything a run knows is one durable
`SessionRecord`, and each operation of `SessionManager` reads, changes and saves that
record under one lock. Everything above composes several such operations without a
transaction. The hard behaviour is there: callbacks of several browser tabs, worker
threads, a process that dies between two writes, and a remote executor that goes on
after its client has given up.

| Component | State | Operations | Interacts with |
|---|---|---|---|
| state machine `core/states.py` | none (a table) | `ensure_transition` | session manager |
| session manager `session/manager.py` | one record per run, a lock | `transition`, `add_*`, `set_*`, `resolve_approval_gate` | every service; a repository |
| repositories `session/repository.py`, `session/json_repository.py` | SQLite row with a revision; JSON file; dictionary | `create`, `get`, `save`, `delete`, `list` | session manager |
| approval engine `approval/service.py` | its own copy of gates and decisions, a lock | `request_gate`, `resolve_gate`, `cancel_gate`, hydration at start | session manager; UI |
| coordinator `runtime/service.py` | none beyond the session | start, build, Gate A, QA, Gate D, revision, recovery | architect, approvals, supervisor, revision, recovery |
| orchestrator `orchestration/service.py` | locals of `execute_run` | `execute_run`, `resume_after_tool_gate` | factory, dispatcher, Gate C, worker runtime, coordinator |
| factory and dispatcher `workers/service.py` | locals of `plan_batches` | batches by dependency | orchestrator |
| tool authorization `tools/authorization.py` | gates of the approval engine | find, request, answer a Gate C | orchestrator |
| worker runtime `workers/runtime.py` | a thread pool per batch | `execute_batch`, `_execute_one` | lease, gateway, session |
| lease `execution/lease.py` | table `execution_leases` and session messages | `reserve`, `complete` | worker runtime, reconciliation |
| gateway and Colab client `execution/service.py`, `colab.py` | none | `execute` | worker runtime, server |
| Colab server `execution/colab_service.py` | SQLite table of executions, a thread per request | `POST /execute`, `GET /executions/<id>` | client, reconciliation, bounded processes |
| bounded processes `execution/bounded_process.py` | a child, two reader threads, a deadline | `run_bounded_process` | Colab server, Docker backend |
| reconciliation `execution/reconciliation*.py`, `colab_reconciler.py` | none | `inspect`, `reconcile_backend` | lease, session, server |
| supervisor `supervisor/service.py` | none | `evaluate` | coordinator |
| revision `revision/service.py` | a lock per instance, messages | `request_revision` | coordinator, recovery |
| recovery `recovery/*.py` | none | `inspect`, `resume` | coordinator, reconciliation |
| chat interface `ui/chainlit_app.py` | the event loop | the callbacks | all of the above |
| migrations `persistence/migrations.py` | table `schema_migrations` | `migrate` | every process that boots |
| identity `identity/*.py` | table of users | `authenticate`, `provision_user` | UI |
| intake, LLM providers, tools table, configuration, deployment | none of their own | lookups, parsing, I/O | UI, composition root |

Hard behaviours and the properties that make each part correct:

- **Coordinator, orchestrator, recovery.** Interleaved tabs, writes separated by crashes,
  exceptions half way through a batch, stale plans and stale gates. Nothing may run before
  Gate A, no risky worker may succeed without Gate C, no run may complete without Gate D
  and the evidence its approver saw; a finished run stays finished; handlers return.
- **Lease, gateway, server, reconciliation.** Lost requests, time-outs with a late success,
  two calls with one key, deaths between the row and its audit message. Code goes out once
  at most, and every call that returns reports the one stored outcome.
- **Approval engine and repositories.** Copies of one record in several processes. A gate
  gets one lasting answer, nobody's acknowledged answer is overwritten, and no history of
  saves leaves a record that a restart refuses.
- **Colab server and bounded processes.** Requests sent again, identities reused, deaths
  with the row reserved, code that forks, closes its output, overruns its deadline or
  leaves processes behind that hold its pipes. Code starts once, an answer is what is on
  record, a success is what the code really did, and every request ends.
- **Migrations and identity.** Processes that boot together on one database, and first
  logins whose lookup and insert are two statements. Each migration takes effect once, no
  record is overwritten, nobody is let in on a record that is not there.
- **Dispatcher.** Cycles, repeated dependencies, order. Dependencies come first, nothing
  waits needlessly, exactly the cyclic plans are refused.

Every exposed line is listed under `hazards` in `PROJECT.json`.

## 2. Modules

`EXTENDS` from top to bottom on the left; each module on the right stands alone.

```
WorkflowStates                       RunContract   <--implements-- AgentRuntime
  RunSession                         ExecuteOnce   <--implements-- ExecutionLease
    RunCoordinator                     its server  --implements--> ExecutionRecords
                                     GateLedger    <--implements-- ApprovalStore
      Orchestrator                   WorkerDispatch
        AgentRuntime
          MCAgentRuntime             BoundedProcess
                                       ColabService  --implements--> ExecutionRecords
SchemaMigrations                         MCColabService
  IdentityStore                      AccountBook   <--implements-- IdentityStore
```

`X_proofs` holds the theorems about module `X`. Those about `AgentRuntime` are in three
modules, each of which extends the one before it: `AgentRuntime_proofs` (its properties with
any number of tabs), `AgentContract_proofs` (that it implements `RunContract`) and
`AgentOneTab_proofs` (what one tab adds).

- **WorkflowStates**: the states and the transition table of `core/states.py`.
- **RunSession**: the record of one run as variables and each `SessionManager` operation as
  an atomic operator. Results never change and are never removed, so they are kept as what
  the supervisor asks of them: how many, and who owns a successful or unsuccessful one.
  `QAStatus` and `Evidence` are the supervisor's verdict over them.
- **RunCoordinator**: `RuntimeCoordinator` with architect, approvals, revision, supervisor
  and recovery. A *handler* is a UI callback or the thread it awaits; `pc[h]` is what it
  does next, `job[h]` its locals. Every step contains at most one operation on the
  session, so every interleaving and every crash between writes is a behaviour. `loop` is
  the event loop: a callback that does not await keeps others out until it returns.
- **Orchestrator**: `execute_run` and `resume_after_tool_gate`, batch by batch, worker
  threads included, with the exceptions each part may raise.
- **AgentRuntime**: the whole, plus `Crash`: handlers vanish, the session stays, granted
  executions under way become `orphans` (a lease that says RUNNING and nobody to end it).
- **RunContract**: what a run promises to the humans who answer for it, in questions, answers,
  evidence, result and outcome. `AgentRuntime` reads it off the session (`Contract`); an
  `Exact` contract also says that what is shown, approved and delivered is what is there.
- **ExecutionLease**: `_execute_one` and everything below it for one idempotency key,
  statement by statement: row, audit message, submission, server, time-out, result,
  completion, reconciliation. `rows` tells the SQLite table from leases kept as messages.
- **ExecuteOnce**: what the lease promises, in five actions.
- **ApprovalStore**: engines with copies over one record. A call checks its memory and the
  record it reads (`RequestGate`, `ResolveGate`, `CancelGate`), saves (`Save`, over the
  revision read for SQLite), then updates the memory and returns (`Remember`).
- **GateLedger**: what gates promise over all processes.
- **WorkerDispatch**: Kahn's algorithm of `plan_batches`, one step per batch and worker.
- **BoundedProcess**: `run_bounded_process` as the thread that waits (`stage`), the child,
  the readers, and the processes the code has started (`family`: which kinds live, by
  whether they are still in the child's process group and whether they hold its pipes).
  The code, the readers and the waiter interleave; the deadline may pass at any moment.
- **ColabService**: the server. A call is one `POST` in its thread (`at`, `request`,
  `result`), `rows` is the table, `told` what was sent with 200 OK. `Crash` takes the
  threads and leaves the table and the processes of the code; `Restart` opens the table.
- **ExecutionRecords**: what the store promises: an id and a key are taken once, an outcome
  is final and comes only from an execution that was admitted and not lost. The server
  side of `ExecutionLease` is this promise for one key.
- **SchemaMigrations**: `MigrationRunner.migrate` in every process that boots: the version
  is read once, then each migration with its row is one transaction.
- **IdentityStore**: logins, the first login of the account that the environment names, and
  provisioning, one statement per step, on top of the migrations.
- **AccountBook**: what the user database promises over all processes: the schema grows in
  order, an account is opened in a complete one and stays, a login is let in on what it says.

Operators whose comment begins with `Faulty:` are wrong variants of the definition below
them. No specification uses them. Each one is paired in `PROJECT.json` with the property
that fails when it takes the place of the right definition, which shows that the property
depends on that piece of code.

### What the models assume

- Every plan has acceptance criteria (the architect requires them); without any, the
  supervisor would not ask for outputs.
- The guard and the write of one `transition` are one step: both are under the lock of the
  manager. `StartRun` is one step because no other handler knows the new run.
- The statuses of an execution that did not succeed (`error`, `timeout`, `denied`,
  `unavailable`) are one, `error`, in outputs, results and leases: whoever reads one
  (`supervisor/service.py`, `orchestration/service.py`, `recovery/resume.py`) only asks
  whether it is a success. A Gate C is matched by its worker; the tools and the network
  access that are compared as well are those of the worker.
- `execute_run` reads the session twice at its start; the two reads are merged. Finding
  the gate of a risky worker and requesting a new one are separate steps.
- Decisions on Gates A and D run on the event loop without an `await`
  (`ui/chainlit_app.py:478-487`); execution and planning are awaited in threads.
- `Risky` stands for tool risk and network access together, one gate for each such worker.
- `NextBatch` takes any split of the workers; the batches of `WorkerDispatch` are one.
- Reconciling an execution that is still alive in this process changes nothing.
- The evidence hash is what it is computed from: outputs and the number of results.
- Lease: each call is in a process of its own, which allows more interleavings than
  threads of one process. With leases as messages there is one process, whose lock makes
  find-and-add one step. A local TIMEOUT beside the server's later SUCCESS is by design;
  failures of all kinds are one value. Process and container backends are the special
  case where the client does not give up early.
- Approval: a gate id may be the caller's choice, so two processes may ask for the same
  one. A decision's time and actor are represented by the engine that took it. Of the two
  deployments that `docs/M28_PERSISTENCE_MIGRATIONS.md:20` names for JSON files, "single-process
  or low-contention", the model has the first: its file has no revision to compare, so two
  processes that do save at once overwrite each other, and nothing is claimed of them. The
  in-memory repository is not shared and does not outlive its process, and is left out.
- Colab: the two readers wait for the same end of output and are one. Of the processes the
  code has started only the kinds that live are kept, since no property counts them.
  Authentication, validation of the body and the artifacts are left out; that they may
  raise is in `HandlerRaises`. SQLite makes each of `reserve`, `complete` and `get` one step.
- Identity: a password and its hash are one value; a fresh `user_id` is represented by the
  call that made it. Roles, the flag that disables a user, and the owner check of a run
  are reads that change no state and are left out. SQLite has one writer at a time.
- Dispatch: worker ids are numbers so that they can be sorted; tasks change no batch.

## 3. Runs

| Run | Module | What it asks | Distinct states |
|---|---|---|---|
| `one_tab` | MCAgentRuntime | one user in one tab, one crash: what is approved is what is executed and delivered; handlers return, answers take effect | 279,841 |
| `two_tabs` | MCAgentRuntime | two tabs in every interleaving, one crash: no gate can be got around | 621,071 |
| `lease` | ExecutionLease | three calls with one key, both kinds of lease: once at most, one outcome | 7,228 |
| `dispatch` | WorkerDispatch | every dependency graph over three workers | 7,344 |
| `approval` | ApprovalStore | two engines, two gates, two verdicts, both repositories | 105,337 |
| `service` | MCColabService | two calls out of four requests that share ids and keys, with deaths of the server: once at most, honest answers, calls end | 190,740 |
| `identity` | IdentityStore | two processes that boot and die, two calls with differing environments: migrations once, records kept | 445,604 |

**one_tab.** `FinalBindsApproval`: the result of a completed run carries the evidence of
the approved Gate D. `CleanAtGateD`: a run that awaits or passed final approval holds no
failed result, and of the workers that have reported none whose output is not a success
with a result of its own; recoveries included, but whether all workers of the plan have
reported is not asked there (see the note on recoveries below). That is
`NoWorkerIsDropped`: a plan that `execute_run` itself has brought to QA has an output of each
of its workers, however they were batched, skipped, kept waiting for a Gate C, or raised.
`OpenGateIsAwaited`: an open Gate A or D is
the one the run waits for. `ExecutedPlanApproved`. `KeepsExactContract`: the runtime
implements the exact `RunContract`. These are claimed for one tab only: the code has no
per-run exclusion, and for two tabs one of them is a finding. `WaitingRunHasGate` holds for
any number of tabs: without a crash, a run waits for a human only with an open gate, the last
of its kind, or where the answer to that one asked for what the run refuses (finding
`gate_a_answer`; a Gate D answered CLARIFY, or MODIFY past the limit). `HandlersReturn` and `AnswersTakeEffect` (without a crash in
between) are its liveness.

**two_tabs.** `WorkNeedsGateA`, `RiskyNeedsGateC`, `CompletedIsApproved`, `RevisionBound`
(two revision services count under two locks, so the limit is overrun by one at most) and
`KeepsContract`, the contract without `Exact`, hold in every interleaving.

**lease.** `SubmittedOnce`, `ReturnedIsEvidence`, `SubmittedIsTraceable`, `SuccessIsReal`,
and `KeepsPromise`: the protocol implements `ExecuteOnce`.

**approval.** `Restorable`, `AnswersAreKept`, `MemoryIsBacked`, and `KeepsLedger`: the
engines implement `GateLedger`.

**service.** `RunsOnce`: the code of an id or a key starts once at most. `AnswerIsRecorded`:
what was sent is what is on record, for every retry and after every restart.
`ResultIsHonest`: a recorded success ended by itself, in time, with its output read to the
end. `CallsEnd`: every request is answered, refused or dropped by a death, on the condition
that no process the code left behind holds the pipes for ever, since the joins of the
readers have no time-out. `OnlyPipesBlock` is the other side of that condition: a thread of a
live call that cannot go on waits for such pipes, and for nothing else. `KeepsRecords`: the server implements `ExecutionRecords`.

**identity.** `MigratedOnce`, `GrantIsOnRecord` (whoever is logged in was checked against
the record of the name and holds its id), and `KeepsAccounts`: processes, migrations and
logins implement `AccountBook`, where no account is ever overwritten.

**dispatch.** `DependenciesFirst`, `NoNeedlessWait`, `VerdictIsRight`, `PlanningEnds`.

### Bounds

`MaxGates` bounds the gates of a run; a step that needs another one is not taken at the
bound (`HandlersReturn` says so with `GatesLeft`). Five gates hold a Gate A, Gate C and
Gate D and one revision of the first and last; three suffice for two tabs, where each
interesting conflict is over one gate or two. `MaxRevisions = 1` is the smallest limit with
a revision inside and one refused. `MaxCrashes = 1`: a second crash finds the session in
a state a first one can leave as well, and the proofs have no bound. Two workers, one
of them risky, and two plans that share a worker give stale outputs, partial batches and
Gate C; the two-tab run has one risky worker to stay small. Tabs are interchangeable,
hence the symmetry over `Handlers`, which only a run without liveness uses. Three calls let one
call win, one collide and one come after the key was given back. Three workers with two
dependencies each contain chains, cycles, workers behind a cycle, and
repeated dependencies. Two calls out of four requests (a request, its identity for other
work, its id with another key, its key with another id) are each pair that can meet at the
server; a third call would find a row that two can leave as well. The code has one
migration today; with two there is an order to keep. Two processes, two calls, two names
and two passwords give a first login that races another one or a provisioning, with equal
and with differing environments. Two gates in one record and two processes are what a lost update takes.

`CHECK_DEADLOCK FALSE` is set where the system may stop: a run that has ended, calls that
have all returned, a finished plan, users who ask no more. `approval` runs with deadlock checking.

### Fairness

`AgentRuntime!FairSpec` has weak fairness for each handler that has started: it is a
coroutine or a thread of a live process. The calls of execution backends and of Gemini it
may wait for have time-outs; CrewAI is given none for its LLM, so `HandlersReturn` takes
for granted that the provider answers or fails. Humans need not answer, users need not recover a run and processes need not
crash. `WorkerDispatch!FairSpec` has weak fairness of the loop, which waits for nothing.
`ColabService!FairSpec` has weak fairness of each thread of a live server and of the
readers; `process.wait` has a deadline, so the waiter's step is enabled whatever the code
does. Nothing makes the code end, the server die or come back. The lease, the approval
store and the identity store have safety properties only.

### Findings: where the repository's words and its code part

| Run | What happens |
|---|---|
| `gate_a_answer` | MODIFY or CLARIFY of Gate A spends the gate, then `request_revision` refuses `WAITING_ARCHITECT_APPROVAL`: the run waits with no gate to answer |
| `unapproved_plan` | two builds in two tabs: the slower plan is executed on the approval of the faster one |
| `batch_exception` | an exception in `execute_batch` leaves `execute_run`, the workers of the batch have no evidence |
| `replay` | after a revision a worker with an uncertain execution is run again under a fresh task id |
| `lease_listing` | a death between the lease's row and its message leaves a lease that the run-wide reconciliation does not list |

Each run checks one property that states the quoted sentence of the documentation, and
TLC's trace is the counterexample.

More were met while reading and have no run. `docs/architecture/M06_WORKER_FACTORY_DISPATCHER.md:37`
has the newly ready workers sorted; `workers/service.py` sorts the first batch only and
keeps later ones in plan order, which changes no property of the batches. The docstring at
`execution/bounded_process.py:130` has it that the cleanup after a time-out cannot leave
writers alive; it can where the child exits just at the deadline, where `killpg` fails, and
where the code has started a session of its own. `CallsEnd` is conditional for that reason.
After a crash, or an exception in a batch, reconciling one execution moves the run to
SUPERVISING, and `supervisor/service.py` looks at the outputs there are: the run may get to
Gate D, and be completed, with workers of its plan that never ran, where `BLUEPRINT_MASTER_v1.md:180`
has the outputs compared with the architecture plan. `NoWorkerIsDropped` shows that only a
recovery can do so. A crash between a transition to a waiting state and its gate, or between
the answer to a gate and its application, leaves a run that waits with no gate open;
recovery only reports what it awaits. `WaitingRunHasGate` is therefore about runs without a
crash, and shows that nothing else does this. `docs/IMPLEMENTATION_STATUS.md:118` calls the
limit of revisions a ceiling per service; the run exceeds it by one where both services count
at once, as `RevisionBound` says.

## 4. Proofs

Constants are only assumed to be what the modules' named `ASSUME`s say: `None` is not a
value of any other kind, bounds are natural numbers, `Risky` and each plan's workers are
among the `Workers`, each plan has a worker, workers to dispatch are a finite non-empty set
of numbers. Nothing is assumed of the number of tabs, crashes, gates, calls or processes,
but in `AgentOneTab_proofs`, whose theorems assume one handler (`OneTab`; the run `one_tab`
is such an instance).

**AgentRuntime_proofs**, gates (`Invariance`, `TypeCorrect`, `GateASafety`, `GateDSafety`,
`GateCSafety`, `CompletionIsFinal`). The safety properties speak of the session and are
not inductive: a handler that has passed a check writes later, when the check may not hold any more. `IInv`
therefore adds what each handler still has in hand: steps that lead to work occur only
with Gate A approved, `finalize` and `complete` only with Gate D approved and evidence on
record, a job grants only workers whose Gate C was approved, orphans were granted. Gates
and decisions are never taken back, which keeps all of it stable under the other handlers.
One lemma per action follows, and under it one step per part of the invariant.
`CompletionIsFinal` needs more: `LoopInv` (a handler that applies a decision holds the
event loop, so two cannot finalize at once) and `DoneInv` (nobody is about to finalize a
completed run).

Revisions (`RevisionsAreBounded`). The bound on the count is not inductive:
`RevisionInv` adds that two handlers between the count and the message are of different
services and that each of them counted less than the limit. There are two services, so the
one that writes last writes the only message above it.

Answers (`NoAnswerIsLost`). That a waiting run has a gate holds only while nobody works on it,
so `WaitingInv` says who is on the way to where: while nothing has crashed, a run in a
waiting state has such a gate or a handler at a step that opens one (`OnGateA`), applies the
answer to one (`OnGateD`) or is about to leave the state (`RevisesFinal`). The gate in question
is the last of its kind, which takes `GatesInOrder` (gates are appended): an answered gate
stays the last one until a new one is opened. `GateShapes`,
`AppliedIsAnswered` and `QAOnRecord` say what such a handler finds: the refusals of the code
on these ways cannot occur, but for the revisions named in the property. The transition
table does the rest: whoever enters a waiting state is the handler that opens its gate.

Termination (`HandlersCannotLoop`). Every step of a handler that has started goes down in a
lexicographic measure: the rank of its step, then the workers still to do, to authorize, to
wait for and to write, then the questions about one of them. Other tabs may write what they
like in between, since the measure is of the handler's own locals. For a finite set of workers, as
every plan is, the order has no endless way down; so this is the safety half of
`HandlersReturn`, whose other half is that a step is always possible.

Workers (`PlansAreCovered`). `CoverInv` follows each worker of a plan through the locals of
`execute_run`: while it has no output it is still to do, in the batch, the one whose gate is
asked for, running, or among the results to write. `LoopShape` says which of these are used
up at each step, so that none is left when the plan goes to QA; a raised exception gives up
the claim with the handler. Outputs are overwritten and never removed, so other tabs cannot
take it back, and nothing goes from a plan to a recovery (`PlanlessSteps`), the only way to QA
without it.

**AgentContract_proofs** (`RuntimeKeepsContract`). Each step of a handler is one operation
of the session manager (`StateWrites`, `PlanWrites`, `QAWrites`, `HumanGateWrites`, one lemma
for each kind of write), and each operation is a step of the contract or invisible to it.
`EndingInv` adds to `EndInv` what the outcomes need: `reject` is only reached with a rejected gate.

**AgentOneTab_proofs** (`FinalIsApproved`, `DeliveryIsClean`, `NoStaleGate`,
`OnlyApprovedPlansRun`, `EndedIsFrozen`, `OneTabKeepsExactContract`,
`FinalAnswersAreCarriedOut`). With two tabs none of the first five holds: one of
them is the finding `unapproved_plan`. They are therefore proved under `OneTab`, which says
that there is one handler; the process may still die at any step of it. `OneTabInv` follows
what the human approved from the gate to where it is used: the state of the run fits the
step of the handler (`StateOfStep`); an open gate is about the plan or the evidence in the
session and keeps everything idle (`OpenGateIsCurrent`); so a decision being applied is
about what is there (`DecisionIsCurrent`), what starts the workers is the approved plan
(`PlanIsApproved`), and what is finalized the approved evidence (`EvidenceIsApproved`).
`Arrivals` and `PlanCopies` say which action brings a handler to the steps that matter.
`ExactInv` adds that the plan under supervision is the approved one and that a Gate D shows
the evidence that is there; with it each step is one of the exact contract.
`FinalAnswersAreCarriedOut` is the safety half of `AnswersTakeEffect`: without a crash, once
the handler is idle again, an approved Gate D has completed the run and a rejected Gate A
or D has rejected it. The invariant says, for each such answer, that the handler that
took it is still at a step that carries it out, or has done so.

**ExecutionLease_proofs** (`LeaseInvariance`, `LeaseIsTyped`, `SubmissionIsUnique`, `SubmissionIsTraceable`,
`AnswerIsEvidence`, `SuccessIsTheServers`, `ResultsStayAsStored`,
`LeaseImplementsExecuteOnce`, `LeaseUsesRecords`). `LeaseInv` says who may hold the key at each step of a call
(a call past its reservation is the lease's, a call about to undo has sent nothing), what
a request, a record or a running execution at the server implies about the call that sent
it, and that a fetched outcome is the server's. `LeaseUsesRecords` closes
the gap between two models: the server inside `ExecutionLease`, like `ColabService`, does
nothing that `ExecutionRecords` does not allow.

**ApprovalStore_proofs** (`StoreInvariance`, `StoreIsTyped`, `RestartsAlwaysWork`,
`NoAnswerIsLost`, `MemoryFollowsRecord`, `StoreImplementsLedger`). The core of
`StoreInvariant` is that a copy with the current revision *is* the current record. For
SQLite every save makes the copies of others old; for JSON there is no other copy. So a
save always applies a possible change to the present record, and the rest is the lemma
that such a change keeps records hydratable and closed gates frozen.

**ColabService_proofs** (`ServiceInvariance`, `ServiceIsTyped`, `CodeRunsOnce`,
`AnswersAreOnRecord`, `ResultsAreHonest`, `ServiceImplementsRecords`, `CallsCannotLoop`,
`CallsWaitForPipesOnly`). `ProcessInv` ties the
waiter's stage to the child and the readers (a call that joins has a child that exited, a
reader that is done has nobody left to hold the pipes). `RowInv` says that a row is the one
its call asked for and that a result is recorded with the verdict on that call's child;
`CallInv` that a thread past its reservation owns a row that is still open. With a call's
step mapped to `Admit`, `Finish` or `Lose` and a death to `LoseAll`, the refinement follows.
The last two are the safety half of `CallsEnd`: a call has `StepsLeft`, which each step of its
thread or readers lowers and nobody raises (`CallsProgress`), and by `WaitInv` a thread that
cannot go on waits for pipes that processes left behind hold (`OnlyPipesBlock`), which is the
condition of `CallsEnd`.

**IdentityStore_proofs** (`IdentityInvariance`, `IdentityIsTyped`, `MigrationsRunOnce`,
`GrantsAreOnRecord`, `NoRecordIsOverwritten`, `IdentityImplementsAccounts`). `BootInv` says that the version a process is
about to insert is not there while its transaction is open and that all up to the one it
reached are; `LoginInv` that only the account of the environment is inserted and that the
record a login holds is the one on record, which no one replaces. The refinement joins the
two components: by `HostInv` a login goes on only in a process that is ready, so every account is
opened, and everybody let in, with all migrations in effect.

**WorkerDispatch_proofs** (`DispatchInvariance`, `DispatchIsTyped`, `DependenciesComeFirst`, `BatchesAreEarly`,
`CyclesAreRefused`, `BatchesStay`, `PlanningTakesBoundedSteps`). `DispatchInv` says that a worker's count is the number
of its dependencies not yet dispatched, that queue and batch hold exactly the workers
whose count is zero, and that a set of workers that wait for each other is never entered.
When the queue is empty, the workers left form such a set. `PlanningTakesBoundedSteps`, the
safety half of `PlanningEnds`: each step batches a worker, dispatches one or gives the verdict, so
a plan of n workers takes 2n + 1 steps at most.

Only model-checked: the liveness properties `HandlersReturn`, `AnswersTakeEffect`,
`PlanningEnds` and `CallsEnd`, since fairness and ENABLED are beyond the prover here. Of each
the safety half above is proved; that a started handler, a plan or a call always has a step
it may take, but for what it is shown to wait for, and that orders without endless descent
bring it to its end, rests on the runs.

The theorems also state properties that no run lists, because a listed one says the same
or more on the instances there: `CompletedIsFinal` and `EndedRunIsFrozen` (by the
contracts), `RecordsAreKept` (by `AccountBook`), `ResultsAreFinal` (by `ExecuteOnce`), `BatchedOnce`, `AnswersAreCarriedOut`,
`HandlersDescend`, `PlanningIsBounded` and `CallsProgress` (what the liveness properties rest
on), and the type invariants of the modules whose runs have deeper ones to check. TLC finds no violation of them on the instances of the runs.

## 5. Not modelled

Deployment, configuration and logging; the parsing of LLM answers and of uploaded files;
artifacts and the authentication of the Colab server; containers (of the Docker backend
only its use of `run_bounded_process`); roles, the flag that disables a user and the check
of a run's owner (reads before each callback); the rules of the static policies and the
checks of the authorization proof in the gateway, which change nothing and whose verdict is
any; the tool registry, which is fixed at boot; the in-memory repository, and the deletion
of sessions, which no part of the runtime calls. `PROJECT.json` lists each component with
its status and the reason.

## 6. Plan

Done, in this order: the run (WorkflowStates to AgentRuntime), its gate theorems, the bound
on revisions and what holds with one tab; the lease with its abstract promise; the dispatcher; the approval engine
over the repositories; the Colab server with its bounded processes and its abstract records;
migrations and identity; the abstract contract of a run, with the theorems that the runtime
implements it; the safety halves of the liveness properties; the abstract book of accounts.

Next:

1. *Run-wide reconciliation*: several tasks of a run, which `ExecutionLease` keeps to one.
2. *One system of lease and server*: `ExecutionLease` over `ColabService` in place of its own
   server steps; each side is proved to implement `ExecutionRecords`, so what is left is
   their composition.

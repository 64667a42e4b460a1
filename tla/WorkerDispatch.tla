---------------------------- MODULE WorkerDispatch ----------------------------
(***************************************************************************)
(* WorkerDispatcher.plan_batches (app/workers/service.py), Kahn's algorithm *)
(* over the dependencies of one plan's workers.  The plan is a valid one:  *)
(* its dependencies name workers of the plan, never the worker itself, but *)
(* they may have cycles and may name a worker twice.                       *)
(*                                                                         *)
(* Tasks are grouped by worker and no task changes the batches.            *)
(***************************************************************************)
EXTENDS Naturals, Sequences, FiniteSets, Functions

CONSTANTS
  Workers,         \* the ids of the plan's workers, numbers so that they can be sorted
  MaxDependencies  \* bound on the dependencies a worker names

ASSUME WorkersAssumption ==
  Workers \subseteq Nat /\ IsFiniteSet(Workers) /\ Workers # {} /\ MaxDependencies \in Nat

VARIABLES
  dependencies,  \* dependencies[w]: what w names, in the order it does
  place,         \* place[w]: where the plan lists w
  indegree,      \* the dependencies still to be dispatched, by worker
  ready,         \* workers of the next batch
  current,       \* workers of this batch whose dependents are still to be visited
  dispatched,    \* workers whose dependents have been visited
  batch,         \* batch[w]: the number of w's batch, from 1, or 0
  sequence,      \* the number of batches
  verdict        \* what plan_batches returned or raised

planVars == <<dependencies, place>>
vars == <<planVars, indegree, ready, current, dispatched, batch, sequence, verdict>>

\* Where v names a worker of S.
Occurrences(v, S) == {i \in DOMAIN dependencies[v] : dependencies[v][i] \in S}

DependsOn(v, w) == w \in Range(dependencies[v])

\* S as a sequence, by increasing key.
InOrder(S, key) ==
  {s \in [1..Cardinality(S) -> S] :
     Range(s) = S /\ \A i, j \in DOMAIN s : i < j => key[s[i]] < key[s[j]]}

ValidDependencies ==
  {d \in [Workers -> UNION {[1..n -> Workers] : n \in 0..MaxDependencies}] :
     \A w \in Workers : w \notin Range(d[w])}

TypeOK ==
  /\ dependencies \in ValidDependencies
  /\ place \in [Workers -> Workers]
  /\ indegree \in [Workers -> Nat]
  /\ ready \in Seq(Workers)
  /\ current \in Seq(Workers)
  /\ dispatched \subseteq Workers
  /\ batch \in [Workers -> Nat]
  /\ sequence \in Nat
  /\ verdict \in {"none", "planned", "cycle"}

\* Faulty: a repeated dependency is counted once.
IndegreeOfSets(d) == [w \in Workers |-> Cardinality(Range(d[w]))]

Indegree(d) == [w \in Workers |-> Len(d[w])]

Init ==
  /\ dependencies \in ValidDependencies
  /\ place \in {f \in [Workers -> Workers] : IsInjective(f)}
  /\ indegree = Indegree(dependencies)
  /\ ready \in InOrder({w \in Workers : indegree[w] = 0}, [w \in Workers |-> w])
  /\ current = <<>>
  /\ dispatched = {}
  /\ batch = [w \in Workers |-> 0]
  /\ sequence = 0
  /\ verdict = "none"

\* Faulty: one worker at a time, whatever else is ready.
TakeWorker ==
  /\ current = <<>>
  /\ ready # <<>>
  /\ current' = <<Head(ready)>>
  /\ ready' = Tail(ready)
  /\ sequence' = sequence + 1
  /\ batch' = [batch EXCEPT ![Head(ready)] = sequence + 1]
  /\ UNCHANGED <<planVars, indegree, dispatched, verdict>>

\* Everything that is ready makes one batch.
TakeBatch ==
  /\ current = <<>>
  /\ ready # <<>>
  /\ current' = ready
  /\ ready' = <<>>
  /\ sequence' = sequence + 1
  /\ batch' = [w \in Workers |-> IF w \in Range(ready) THEN sequence + 1 ELSE batch[w]]
  /\ UNCHANGED <<planVars, indegree, dispatched, verdict>>

\* Faulty: one dispatched dependency is enough.
UnblockedByAny(w) == {v \in Workers : DependsOn(v, w)}

\* The dependents of w that wait for nothing else.
Unblocked(w) ==
  {v \in Workers : DependsOn(v, w) /\ indegree[v] = Cardinality(Occurrences(v, {w}))}

\* The next worker of the batch is dispatched and its dependents are counted
\* down, one by one in the order the plan lists them.
Dispatch ==
  /\ current # <<>>
  /\ LET w == Head(current) IN
       /\ dispatched' = dispatched \cup {w}
       /\ indegree' = [v \in Workers |-> indegree[v] - Cardinality(Occurrences(v, {w}))]
       /\ \E new \in InOrder(Unblocked(w), place) : ready' = ready \o new
  /\ current' = Tail(current)
  /\ UNCHANGED <<planVars, batch, sequence, verdict>>

\* Faulty: whoever could not be dispatched is left out.
FinishAnyhow ==
  /\ verdict = "none"
  /\ current = <<>>
  /\ ready = <<>>
  /\ verdict' = "planned"
  /\ UNCHANGED <<planVars, indegree, ready, current, dispatched, batch, sequence>>

\* Faulty: the loop goes on until every worker is dispatched.
FinishWhenAll ==
  /\ verdict = "none"
  /\ dispatched = Workers
  /\ verdict' = "planned"
  /\ UNCHANGED <<planVars, indegree, ready, current, dispatched, batch, sequence>>

\* The verdict: workers that were never ready are in a cycle, or behind one.
Finish ==
  /\ verdict = "none"
  /\ current = <<>>
  /\ ready = <<>>
  /\ verdict' = IF dispatched = Workers THEN "planned" ELSE "cycle"
  /\ UNCHANGED <<planVars, indegree, ready, current, dispatched, batch, sequence>>

Next == TakeBatch \/ Dispatch \/ Finish

Spec == Init /\ [][Next]_vars

\* plan_batches is a loop without waits.
FairSpec == Spec /\ WF_vars(Next)

-------------------------------------------------------------------------------
\* "A worker becomes eligible only after every declared dependency has been
\* dispatched in a previous batch" (docs/architecture/M06_WORKER_FACTORY_DISPATCHER.md:29;
\* workers/service.py:79-112).
DependenciesFirst ==
  \A v, w \in Workers : DependsOn(v, w) /\ batch[v] # 0 => batch[w] \in 1..(batch[v] - 1)

\* No worker waits longer than it has to: a later batch holds only workers
\* that depend on the batch before it (workers/service.py:90-112).
NoNeedlessWait ==
  \A v \in Workers : batch[v] > 1 => \E w \in Workers : DependsOn(v, w) /\ batch[w] = batch[v] - 1

\* No worker is put into a second batch, also when it names a dependency twice
\* (workers/service.py:107-112).
BatchedOnce ==
  [][\A w \in Workers : batch[w] # 0 => batch'[w] = batch[w]]_vars

\* Workers none of which can ever be the first to run.
Stuck(S) == S # {} /\ \A v \in S : \E w \in S : DependsOn(v, w)

\* A plan is refused exactly when some of its workers wait for each other
\* (workers/service.py:114-117).
VerdictIsRight ==
  /\ verdict = "cycle" => \E S \in SUBSET Workers : Stuck(S)
  /\ verdict = "planned" => \A S \in SUBSET Workers : ~Stuck(S)

\* Planning ends for every plan (workers/service.py:90-117).
PlanningEnds == <>(verdict # "none")

\* What is left to do: workers to batch, workers to dispatch, and the verdict.
Left ==
  Cardinality({w \in Workers : batch[w] = 0}) + Cardinality(Workers \ dispatched)
    + (IF verdict = "none" THEN 1 ELSE 0)

\* Every round of the loops does a part of it, so that a plan of n workers, with
\* cycles or without, takes 2n + 1 steps at most (workers/service.py:90-117).
PlanningIsBounded ==
  [](Left \in 0..(2 * Cardinality(Workers) + 1)) /\ [][Left' < Left]_vars

===============================================================================

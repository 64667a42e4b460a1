----------------------------- MODULE RunContract -----------------------------
(***************************************************************************)
(* What a run promises to the humans who answer for it                     *)
(* (docs/architecture/M10_RUNTIME_COORDINATOR.md), in terms of what they   *)
(* are asked and what they get: the plan, the questions put to them and    *)
(* their answers, the evidence the workers leave, the result delivered and *)
(* how the run ended.  Nothing here says who acts, in which order the      *)
(* record is written, or what a crash does.                                *)
(*                                                                         *)
(* An Exact run also keeps everything about what is there: a question is   *)
(* about the present plan or evidence, work is done for the approved plan, *)
(* and what is delivered is the approved and the present evidence.         *)
(***************************************************************************)
EXTENDS Naturals

CONSTANTS
  Gates,  \* the questions a run may put to a human
  None,   \* no plan, no question, no answer, no result
  Exact   \* TRUE or FALSE, as above

VARIABLES
  plan,      \* the architecture plan
  question,  \* question[g]: the kind of gate g and its subject
  answer,    \* answer[g]: the decision a human took on gate g
  evidence,  \* the workers that have reported and the number of executions
  result,    \* the evidence the final result is bound to
  outcome    \* "open", or how the run ended

vars == <<plan, question, answer, evidence, result, outcome>>

\* In an exact run, what is shown, approved or delivered is what is there.
Bound(shown, there) == Exact => shown = there

Approved(kind, subject) ==
  \E g \in Gates : /\ answer[g] = "APPROVE"
                   /\ question[g].kind = kind
                   /\ Bound(question[g].subject, subject)

Rejected ==
  \E g \in Gates : answer[g] = "REJECT" /\ question[g].kind \in {"ARCHITECTURE", "FINAL"}

Open == outcome = "open"

Init ==
  /\ plan = None
  /\ question = [g \in Gates |-> None]
  /\ answer = [g \in Gates |-> None]
  /\ evidence = [workers |-> {}, executions |-> 0]
  /\ result = None
  /\ Open

Replan ==
  /\ Exact => Open
  /\ plan' # None
  /\ UNCHANGED <<question, answer, evidence, result, outcome>>

\* A question is put once, and neither withdrawn nor changed.
Ask(g) ==
  /\ Exact => Open
  /\ question[g] = None
  /\ question' = [question EXCEPT ![g] = question'[g]]
  /\ question'[g] # None
  /\ question'[g].kind = "ARCHITECTURE" => Bound(question'[g].subject, plan)
  /\ question'[g].kind = "FINAL" => Bound(question'[g].subject, evidence)
  /\ UNCHANGED <<plan, answer, evidence, result, outcome>>

\* It is answered once.
Answer(g) ==
  /\ Exact => Open
  /\ question[g] # None
  /\ answer[g] = None
  /\ answer' = [answer EXCEPT ![g] = answer'[g]]
  /\ UNCHANGED <<plan, question, evidence, result, outcome>>

\* Evidence accumulates, and only for an approved architecture.
Work ==
  /\ Exact => Open
  /\ Approved("ARCHITECTURE", plan)
  /\ evidence.workers \subseteq evidence'.workers
  /\ evidence.executions <= evidence'.executions
  /\ UNCHANGED <<plan, question, answer, result, outcome>>

\* A result needs a human's final approval, and a completed run has its last.
Deliver ==
  /\ IF Exact THEN Open ELSE outcome # "COMPLETED"
  /\ Approved("FINAL", evidence)
  /\ result' # None
  /\ Bound(result', evidence)
  /\ UNCHANGED <<plan, question, answer, evidence, outcome>>

End(how) ==
  /\ Open
  /\ outcome' = how
  /\ UNCHANGED <<plan, question, answer, evidence, result>>

Complete ==
  /\ End("COMPLETED")
  /\ Approved("FINAL", evidence)
  /\ result # None
  /\ Bound(result, evidence)

Reject == End("REJECTED") /\ Rejected

\* A run fails where QA finds that no worker has reported.
Fail ==
  /\ End("FAILED")
  /\ Approved("ARCHITECTURE", plan)
  /\ Exact => evidence.workers = {}

Next ==
  \/ Replan
  \/ \E g \in Gates : Ask(g) \/ Answer(g)
  \/ Work
  \/ Deliver
  \/ Complete \/ Reject \/ Fail

Spec == Init /\ [][Next]_vars
===============================================================================

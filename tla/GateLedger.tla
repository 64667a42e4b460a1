------------------------------ MODULE GateLedger ------------------------------
(***************************************************************************)
(* What the approval engine promises of the gates of one run, whoever asks *)
(* and whatever fails: a gate is opened once, is answered once or          *)
(* cancelled, and nobody is told of a change that is not in the ledger.    *)
(***************************************************************************)
EXTENDS Sequences

CONSTANTS Gates, HumanDecision

VARIABLES
  ledger,  \* ledger[g]: the status of gate g and its decisions
  told     \* the changes some caller was told of

vars == <<ledger, told>>

Entry(status, decisions) == [status |-> status, decisions |-> decisions]

Init ==
  /\ ledger = [g \in Gates |-> Entry("absent", <<>>)]
  /\ told = {}

Open(g) ==
  /\ ledger[g].status = "absent"
  /\ ledger' = [ledger EXCEPT ![g] = Entry("OPEN", <<>>)]
  /\ UNCHANGED told

Resolve(g, d) ==
  /\ ledger[g].status = "OPEN"
  /\ ledger' = [ledger EXCEPT ![g] = Entry("RESOLVED", <<d>>)]
  /\ UNCHANGED told

Cancel(g) ==
  /\ ledger[g].status = "OPEN"
  /\ ledger' = [ledger EXCEPT ![g] = Entry("CANCELLED", <<>>)]
  /\ UNCHANGED told

\* A gate that was opened may have been closed before its requester hears of it.
Tell(change) ==
  /\ IF change.status = "OPEN"
     THEN ledger[change.gate].status # "absent"
     ELSE ledger[change.gate] = Entry(change.status, change.decisions)
  /\ told' = told \cup {change}
  /\ UNCHANGED ledger

Change ==
  [ gate : Gates,
    status : {"OPEN", "RESOLVED", "CANCELLED"},
    decisions : {<<>>} \cup {<<d>> : d \in HumanDecision} ]

Next ==
  \/ \E g \in Gates :
       Open(g) \/ Cancel(g) \/ \E d \in HumanDecision : Resolve(g, d)
  \/ \E change \in Change : Tell(change)

Spec == Init /\ [][Next]_vars
===============================================================================

----------------------------- MODULE ApprovalStore -----------------------------
(***************************************************************************)
(* The approval gates of one run in several processes on one durable       *)
(* repository.  Each process has a HumanApprovalEngine with its own copy   *)
(* of the gates (app/approval/service.py), and a SessionManager whose      *)
(* operations read the whole record, check it, change it and save it       *)
(* (app/session/manager.py).  The SQLite repository saves a record only    *)
(* over the revision that was read; the JSON repository saves it whatever  *)
(* is there, and is documented for one process at a time.                  *)
(*                                                                         *)
(* The locks of engine and manager make the calls of one process one after *)
(* the other; between processes there is no lock.  A refused call changes  *)
(* nothing and is no step.                                                 *)
(***************************************************************************)
EXTENDS Naturals, Sequences

CONSTANTS
  Engines,   \* processes, each with one engine
  Gates,     \* gate ids
  Verdicts,  \* the decisions the gates allow
  None

VARIABLES
  repository,  \* "sqlite" or "json", fixed for good
  stored,      \* the record of the run in the repository
  memory,      \* memory[e]: the gates and decisions of engine e
  pc,          \* pc[e]: "down", "idle", or the next step of e's call
  change,      \* change[e]: what e's call does to its gate
  copy,        \* copy[e]: the record e's call read
  told         \* the changes whose calls have returned

vars == <<repository, stored, memory, pc, change, copy, told>>

GateStatus == {"absent", "OPEN", "RESOLVED", "CANCELLED"}

\* A decision has its own time and actor: the engine that took it stands for them.
HumanDecision == [verdict : Verdicts, engine : Engines]

Change ==
  [ gate : Gates,
    status : GateStatus \ {"absent"},
    decisions : {<<>>} \cup {<<d>> : d \in HumanDecision} ]

Histories == [status : [Gates -> GateStatus], decisions : [Gates -> Seq(HumanDecision)]]
NoGates == [status |-> [g \in Gates |-> "absent"], decisions |-> [g \in Gates |-> <<>>]]
Record == [gates : Histories, revision : Nat]
NewRecord == [gates |-> NoGates, revision |-> 0]

ASSUME NoneIsFresh == None \notin Change

InCall == {"save", "remember"}

TypeOK ==
  /\ repository \in {"sqlite", "json"}
  /\ stored \in Record
  /\ memory \in [Engines -> Histories]
  /\ pc \in [Engines -> {"down", "idle"} \cup InCall]
  /\ change \in [Engines -> Change \cup {None}]
  /\ \A e \in Engines : pc[e] \in InCall <=> change[e] # None
  /\ copy \in [Engines -> Record]
  /\ told \subseteq Change

\* The session exists before its first gate.
Init ==
  /\ repository \in {"sqlite", "json"}
  /\ stored = NewRecord
  /\ memory = [e \in Engines |-> NoGates]
  /\ pc = [e \in Engines |-> "down"]
  /\ change = [e \in Engines |-> None]
  /\ copy = [e \in Engines |-> NewRecord]
  /\ told = {}

\* gates with a change applied to one of them
Applied(gates, c) ==
  [ status    |-> [gates.status EXCEPT ![c.gate] = c.status],
    decisions |-> [gates.decisions EXCEPT ![c.gate] = @ \o c.decisions] ]

\* The call of e ends, with a result or with an exception.
EndCall(e) ==
  /\ pc' = [pc EXCEPT ![e] = "idle"]
  /\ change' = [change EXCEPT ![e] = None]
  /\ copy' = [copy EXCEPT ![e] = NewRecord]

-------------------------------------------------------------------------------
(* A process starts and ends.                                              *)

\* The checks of _hydrate: a record that fails them keeps the process from starting.
Hydratable(gates) ==
  \A g \in Gates :
    Len(gates.decisions[g]) = IF gates.status[g] = "RESOLVED" THEN 1 ELSE 0

Hydrate(e) ==
  /\ pc[e] = "down"
  /\ repository = "json" => \A f \in Engines : pc[f] = "down"
  /\ Hydratable(stored.gates)
  /\ memory' = [memory EXCEPT ![e] = stored.gates]
  /\ pc' = [pc EXCEPT ![e] = "idle"]
  /\ UNCHANGED <<repository, stored, change, copy, told>>

Crash(e) ==
  /\ pc[e] # "down"
  /\ memory' = [memory EXCEPT ![e] = NoGates]
  /\ pc' = [pc EXCEPT ![e] = "down"]
  /\ change' = [change EXCEPT ![e] = None]
  /\ copy' = [copy EXCEPT ![e] = NewRecord]
  /\ UNCHANGED <<repository, stored, told>>

-------------------------------------------------------------------------------
(* A call: the engine checks its memory, the manager reads the record and  *)
(* checks it; then the record is saved; then the memory follows.           *)

Begin(e, c) ==
  /\ pc[e] = "idle"
  /\ pc' = [pc EXCEPT ![e] = "save"]
  /\ change' = [change EXCEPT ![e] = c]
  /\ copy' = [copy EXCEPT ![e] = stored]
  /\ UNCHANGED <<repository, stored, memory, told>>

\* The id may be the caller's choice, so two processes may ask for the same one.
RequestGate(e, g) ==
  /\ memory[e].status[g] = "absent"
  /\ stored.gates.status[g] = "absent"
  /\ Begin(e, [gate |-> g, status |-> "OPEN", decisions |-> <<>>])

Resolution(e, g, v) ==
  [ gate |-> g, status |-> "RESOLVED", decisions |-> << [verdict |-> v, engine |-> e] >> ]

\* Faulty: only the engine's own copy is asked whether the gate is open.
ResolveGateOfMemory(e, g, v) ==
  /\ memory[e].status[g] = "OPEN"
  /\ Begin(e, Resolution(e, g, v))

ResolveGate(e, g, v) ==
  /\ memory[e].status[g] = "OPEN"
  /\ stored.gates.status[g] = "OPEN"
  /\ stored.gates.decisions[g] = <<>>
  /\ Begin(e, Resolution(e, g, v))

\* Faulty: the same for a cancellation.
CancelGateOfMemory(e, g) ==
  /\ memory[e].status[g] = "OPEN"
  /\ Begin(e, [gate |-> g, status |-> "CANCELLED", decisions |-> <<>>])

CancelGate(e, g) ==
  /\ memory[e].status[g] = "OPEN"
  /\ stored.gates.status[g] = "OPEN"
  /\ Begin(e, [gate |-> g, status |-> "CANCELLED", decisions |-> <<>>])

\* The row is written if it is the one that was read, the file in any case.
Saved(e) ==
  [ gates    |-> Applied(copy[e].gates, change[e]),
    revision |-> IF repository = "sqlite" THEN copy[e].revision + 1 ELSE copy[e].revision ]

\* Faulty: UPDATE without AND revision = ?.
SaveAnyRevision(e) ==
  /\ pc[e] = "save"
  /\ stored' = Saved(e)
  /\ pc' = [pc EXCEPT ![e] = "remember"]
  /\ UNCHANGED <<repository, memory, change, copy, told>>

Save(e) ==
  /\ pc[e] = "save"
  /\ repository = "sqlite" => stored.revision = copy[e].revision
  /\ stored' = Saved(e)
  /\ pc' = [pc EXCEPT ![e] = "remember"]
  /\ UNCHANGED <<repository, memory, change, copy, told>>

\* Faulty: the memory is changed before the save is tried.
SaveRaisesLate(e) ==
  /\ pc[e] = "save"
  /\ memory' = [memory EXCEPT ![e] = Applied(@, change[e])]
  /\ EndCall(e)
  /\ UNCHANGED <<repository, stored, told>>

\* A conflict of revisions, or storage that cannot be written.
SaveRaises(e) ==
  /\ pc[e] = "save"
  /\ EndCall(e)
  /\ UNCHANGED <<repository, stored, memory, told>>

Remember(e) ==
  /\ pc[e] = "remember"
  /\ memory' = [memory EXCEPT ![e] = Applied(@, change[e])]
  /\ told' = told \cup {change[e]}
  /\ EndCall(e)
  /\ UNCHANGED <<repository, stored>>

Next ==
  \E e \in Engines :
    \/ Hydrate(e)
    \/ Crash(e)
    \/ \E g \in Gates :
         RequestGate(e, g) \/ CancelGate(e, g) \/ \E v \in Verdicts : ResolveGate(e, g, v)
    \/ Save(e)
    \/ SaveRaises(e)
    \/ Remember(e)

Spec == Init /\ [][Next]_vars

-------------------------------------------------------------------------------
(* Properties.                                                             *)

\* Whatever was saved, by whom and in what order, the next process can start:
\* _hydrate never meets a gate whose status and decisions disagree.
Restorable == Hydratable(stored.gates)

\* The change c is in the record: a gate opened may have been closed since.
Kept(c) ==
  IF c.status = "OPEN"
  THEN stored.gates.status[c.gate] # "absent"
  ELSE /\ stored.gates.status[c.gate] = c.status
       /\ stored.gates.decisions[c.gate] = c.decisions

\* No acknowledged change is lost: what a caller was told is in the record, after
\* the saves of other processes and after every restart.
AnswersAreKept == \A c \in told : Kept(c)

\* new is what old may have become: no gate is forgotten, a closed one is frozen.
Follows(new, old) ==
  \A g \in Gates :
    /\ old.status[g] # "absent" => new.status[g] # "absent"
    /\ old.status[g] \in {"RESOLVED", "CANCELLED"} =>
         new.status[g] = old.status[g] /\ new.decisions[g] = old.decisions[g]

\* An engine may lag behind the record and is never ahead of it or at odds with it:
\* a gate it takes for closed is closed, with the same decision.
MemoryIsBacked == \A e \in Engines : Follows(stored.gates, memory[e])

ledger ==
  [ g \in Gates |->
      [status |-> stored.gates.status[g], decisions |-> stored.gates.decisions[g]] ]
Ledger == INSTANCE GateLedger

\* The gate lifecycle of the approval engine over all processes: opened once, then
\* resolved with one decision or cancelled, and told only when it is so.
KeepsLedger == Ledger!Spec
===============================================================================

------------------------- MODULE ApprovalStore_proofs -------------------------
(* Proofs about ApprovalStore, for any processes, gates and verdicts.      *)
EXTENDS ApprovalStore, SequenceTheorems, TLAPS

\* What the checks of engine and manager leave a call to do: it opens a gate that
\* is absent or closes one that is open, and a resolution brings a decision.
Possible(c, gates) ==
  /\ gates.status[c.gate] = IF c.status = "OPEN" THEN "absent" ELSE "OPEN"
  /\ c.status = "RESOLVED" <=> c.decisions # <<>>

\* The file has no revisions and one process; the row has a revision per save.
StoreInv ==
  /\ Restorable
  /\ repository = "json" => stored.revision = 0
  /\ repository = "json" => \A e, f \in Engines : pc[e] # "down" /\ pc[f] # "down" => e = f

\* A record of the current revision is the current record.
CallInv ==
  \A e \in Engines :
    /\ pc[e] = "save" =>
         /\ copy[e].revision <= stored.revision
         /\ copy[e].revision = stored.revision => copy[e] = stored
         /\ Possible(change[e], copy[e].gates)
    /\ pc[e] \in InCall => Possible(change[e], memory[e])
    /\ pc[e] = "remember" => Kept(change[e])

MemoryInv == \A e \in Engines : Hydratable(memory[e])

StoreInvariant ==
  TypeOK /\ StoreInv /\ CallInv /\ MemoryInv /\ AnswersAreKept /\ MemoryIsBacked

-------------------------------------------------------------------------------
(* What a change does to gates.                                            *)

\* A gate without a decision gets those of the change and no other gate is touched.
LEMMA AppliedGates ==
  ASSUME NEW gates \in Histories, NEW c \in Change, Hydratable(gates), Possible(c, gates)
  PROVE  /\ Applied(gates, c).status = [gates.status EXCEPT ![c.gate] = c.status]
         /\ Applied(gates, c).decisions = [gates.decisions EXCEPT ![c.gate] = c.decisions]
         /\ Applied(gates, c) \in Histories
         /\ Hydratable(Applied(gates, c))
         /\ Follows(Applied(gates, c), gates)
<1>1. c.gate \in Gates /\ c.status \in {"OPEN", "RESOLVED", "CANCELLED"}
      /\ c.decisions \in {<<>>} \cup {<<d>> : d \in HumanDecision}
  BY DEF Change, GateStatus
<1>2. c.decisions \in Seq(HumanDecision)
      /\ Len(c.decisions) = IF c.status = "RESOLVED" THEN 1 ELSE 0
  <2>1. CASE c.decisions = <<>>
    BY <2>1, EmptySeq DEF Possible
  <2>2. ASSUME NEW d \in HumanDecision, c.decisions = <<d>>
        PROVE  /\ c.decisions \in Seq(HumanDecision)
               /\ Len(c.decisions) = IF c.status = "RESOLVED" THEN 1 ELSE 0
    BY <2>2 DEF Possible
  <2>3. QED
    BY <1>1, <2>1, <2>2
<1>3. gates.decisions[c.gate] = <<>>
  <2>1. Len(gates.decisions[c.gate]) = 0 /\ gates.decisions[c.gate] \in Seq(HumanDecision)
    BY <1>1 DEF Hydratable, Possible, Histories
  <2>2. QED
    BY <2>1, EmptySeq
<1>4. gates.decisions[c.gate] \o c.decisions = c.decisions
  BY <1>2, <1>3, ConcatEmptySeq
<1>5. /\ Applied(gates, c).status = [gates.status EXCEPT ![c.gate] = c.status]
      /\ Applied(gates, c).decisions = [gates.decisions EXCEPT ![c.gate] = c.decisions]
  BY <1>1, <1>4 DEF Applied, Histories
<1>6. Applied(gates, c) \in Histories
  BY <1>1, <1>2, <1>4 DEF Applied, Histories, GateStatus
<1>7. Hydratable(Applied(gates, c))
  BY <1>1, <1>2, <1>5 DEF Hydratable, Histories
<1>8. Follows(Applied(gates, c), gates)
  BY <1>1, <1>5 DEF Follows, Possible, Histories
<1>9. QED
  BY <1>5, <1>6, <1>7, <1>8

\* What may have become of gates may go on to become something.
LEMMA FollowsIsTransitive ==
  ASSUME NEW a \in Histories, NEW b \in Histories, NEW d \in Histories,
         Follows(b, a), Follows(d, b)
  PROVE  Follows(d, a)
BY DEF Follows, Histories

\* So a change that is in the record stays there.
LEMMA KeptStays ==
  ASSUME NEW c \in Change, Follows(stored'.gates, stored.gates), Kept(c)
  PROVE  Kept(c)'
BY DEF Follows, Kept, Change, GateStatus

-------------------------------------------------------------------------------
(* The inductive invariant.                                                *)

\* A new record is a record.
LEMMA NewRecordType == NewRecord \in Record /\ NoGates \in Histories /\ Hydratable(NoGates)
BY EmptySeq DEF NewRecord, Record, NoGates, Histories, GateStatus, Hydratable

\* It holds of a run without gates.
LEMMA InitInvariant == Init => StoreInvariant
<1> SUFFICES ASSUME Init PROVE StoreInvariant
  OBVIOUS
<1>1. TypeOK
  BY NewRecordType DEF Init, TypeOK, InCall
<1>2. \A e \in Engines : Follows(stored.gates, memory[e])
  BY DEF Init, NoGates, Follows
<1>3. QED
  BY <1>1, <1>2, NewRecordType
  DEF Init, StoreInvariant, StoreInv, CallInv, MemoryInv, AnswersAreKept, MemoryIsBacked,
      Restorable, NewRecord, InCall

\* The process that has just read the record knows what is in it.
LEMMA HydrateInvariant ==
  ASSUME StoreInvariant, NEW e \in Engines, Hydrate(e)
  PROVE  StoreInvariant'
<1>1. TypeOK'
  BY DEF Hydrate, StoreInvariant, TypeOK, Record, InCall
<1>2. StoreInv'
  BY DEF Hydrate, StoreInvariant, StoreInv, Restorable, TypeOK
<1>3. CallInv'
  BY DEF Hydrate, StoreInvariant, CallInv, TypeOK, InCall, Kept
<1>4. MemoryInv'
  BY DEF Hydrate, StoreInvariant, MemoryInv, TypeOK
<1>5. AnswersAreKept'
  BY DEF Hydrate, StoreInvariant, AnswersAreKept, Kept
<1>6. MemoryIsBacked'
  <2>1. Follows(stored.gates, stored.gates)
    BY DEF Follows
  <2>2. QED
    BY <2>1 DEF Hydrate, StoreInvariant, MemoryIsBacked, TypeOK
<1>7. QED
  BY <1>1, <1>2, <1>3, <1>4, <1>5, <1>6 DEF StoreInvariant

\* A process that is gone knows nothing.
LEMMA CrashInvariant ==
  ASSUME StoreInvariant, NEW e \in Engines, Crash(e)
  PROVE  StoreInvariant'
<1>1. TypeOK'
  BY NewRecordType DEF Crash, StoreInvariant, TypeOK, InCall
<1>2. StoreInv'
  BY DEF Crash, StoreInvariant, StoreInv, Restorable, TypeOK
<1>3. CallInv'
  BY DEF Crash, StoreInvariant, CallInv, TypeOK, InCall, Kept
<1>4. MemoryInv'
  BY NewRecordType DEF Crash, StoreInvariant, MemoryInv, TypeOK
<1>5. AnswersAreKept'
  BY DEF Crash, StoreInvariant, AnswersAreKept, Kept
<1>6. MemoryIsBacked'
  <2>1. Follows(stored.gates, NoGates)
    BY DEF Follows, NoGates
  <2>2. QED
    BY <2>1 DEF Crash, StoreInvariant, MemoryIsBacked, TypeOK
<1>7. QED
  BY <1>1, <1>2, <1>3, <1>4, <1>5, <1>6 DEF StoreInvariant

\* A call begins on the current record, with a change that is possible there and
\* in the engine's memory.
LEMMA BeginInvariant ==
  ASSUME StoreInvariant, NEW e \in Engines, NEW c \in Change, Begin(e, c),
         Possible(c, memory[e]), Possible(c, stored.gates)
  PROVE  StoreInvariant'
<1>1. TypeOK'
  BY NoneIsFresh DEF Begin, StoreInvariant, TypeOK, InCall
<1>2. StoreInv'
  BY DEF Begin, StoreInvariant, StoreInv, Restorable, TypeOK
<1>3. CallInv'
  <2> SUFFICES ASSUME NEW f \in Engines
               PROVE  /\ pc'[f] = "save" =>
                           /\ copy'[f].revision <= stored.revision
                           /\ copy'[f].revision = stored.revision => copy'[f] = stored
                           /\ Possible(change'[f], copy'[f].gates)
                      /\ pc'[f] \in InCall => Possible(change'[f], memory[f])
                      /\ pc'[f] = "remember" => Kept(change'[f])
    BY DEF Begin, CallInv, Kept
  <2>1. CASE f = e
    BY <2>1 DEF Begin, StoreInvariant, TypeOK, Record, InCall
  <2>2. CASE f # e
    BY <2>2 DEF Begin, StoreInvariant, TypeOK, CallInv
  <2>3. QED
    BY <2>1, <2>2
<1>4. MemoryInv' /\ AnswersAreKept' /\ MemoryIsBacked'
  BY DEF Begin, StoreInvariant, MemoryInv, AnswersAreKept, MemoryIsBacked, Kept
<1>5. QED
  BY <1>1, <1>2, <1>3, <1>4 DEF StoreInvariant

\* The three calls are such calls.
LEMMA CallInvariant ==
  ASSUME StoreInvariant, NEW e \in Engines, NEW g \in Gates,
         RequestGate(e, g) \/ CancelGate(e, g) \/ \E v \in Verdicts : ResolveGate(e, g, v)
  PROVE  StoreInvariant'
<1>1. CASE RequestGate(e, g)
  <2> DEFINE c == [gate |-> g, status |-> "OPEN", decisions |-> <<>>]
  <2>1. c \in Change
    BY DEF Change, GateStatus
  <2>2. Possible(c, memory[e]) /\ Possible(c, stored.gates)
    BY <1>1 DEF RequestGate, Possible
  <2>3. QED
    BY <1>1, <2>1, <2>2, BeginInvariant DEF RequestGate
<1>2. CASE CancelGate(e, g)
  <2> DEFINE c == [gate |-> g, status |-> "CANCELLED", decisions |-> <<>>]
  <2>1. c \in Change
    BY DEF Change, GateStatus
  <2>2. Possible(c, memory[e]) /\ Possible(c, stored.gates)
    BY <1>2 DEF CancelGate, Possible
  <2>3. QED
    BY <1>2, <2>1, <2>2, BeginInvariant DEF CancelGate
<1>3. ASSUME NEW v \in Verdicts, ResolveGate(e, g, v) PROVE StoreInvariant'
  <2>1. Resolution(e, g, v) \in Change
    BY DEF Change, GateStatus, Resolution, HumanDecision
  <2>2. Possible(Resolution(e, g, v), memory[e]) /\ Possible(Resolution(e, g, v), stored.gates)
    BY <1>3 DEF ResolveGate, Possible, Resolution
  <2>3. QED
    BY <1>3, <2>1, <2>2, BeginInvariant DEF ResolveGate
<1>4. QED
  BY <1>1, <1>2, <1>3

\* A save goes over the very record that was read, whatever the repository.
LEMMA SaveIsOfCurrent ==
  ASSUME StoreInvariant, NEW e \in Engines, Save(e)
  PROVE  /\ change[e] \in Change
         /\ copy[e] = stored
         /\ Possible(change[e], stored.gates)
         /\ stored'.gates = Applied(stored.gates, change[e])
         /\ stored'.revision = IF repository = "sqlite"
                               THEN stored.revision + 1 ELSE stored.revision
<1>1. change[e] \in Change /\ copy[e] \in Record /\ stored \in Record
  BY DEF Save, StoreInvariant, TypeOK, InCall
<1>2. copy[e].revision = stored.revision
  <2>1. CASE repository = "sqlite"
    BY <2>1 DEF Save
  <2>2. CASE repository = "json"
    BY <1>1, <2>2 DEF Save, StoreInvariant, StoreInv, CallInv, Record
  <2>3. QED
    BY <2>1, <2>2 DEF StoreInvariant, TypeOK
<1>3. copy[e] = stored /\ Possible(change[e], stored.gates)
  BY <1>2 DEF Save, StoreInvariant, CallInv
<1>4. QED
  BY <1>1, <1>3 DEF Save, Saved

\* So it loses nothing, and every other copy is known to be old.
LEMMA SaveInvariant ==
  ASSUME StoreInvariant, NEW e \in Engines, Save(e)
  PROVE  StoreInvariant'
<1>1. stored \in Record /\ stored.gates \in Histories /\ stored.revision \in Nat
  BY DEF StoreInvariant, TypeOK, Record
<1>2. /\ Applied(stored.gates, change[e]).status
           = [stored.gates.status EXCEPT ![change[e].gate] = change[e].status]
      /\ Applied(stored.gates, change[e]).decisions
           = [stored.gates.decisions EXCEPT ![change[e].gate] = change[e].decisions]
      /\ stored'.gates \in Histories
      /\ Hydratable(stored'.gates)
      /\ Follows(stored'.gates, stored.gates)
  BY <1>1, SaveIsOfCurrent, AppliedGates DEF StoreInvariant, StoreInv, Restorable
<1>3. TypeOK'
  <2> DEFINE gates == Applied(copy[e].gates, change[e])
             revision == IF repository = "sqlite"
                         THEN copy[e].revision + 1 ELSE copy[e].revision
  <2>1. stored' = [gates |-> gates, revision |-> revision]
    BY DEF Save, Saved
  <2>2. stored' \in Record
    <3>1. gates \in Histories
      BY <1>2, <2>1
    <3>2. revision \in Nat
      BY <1>1, SaveIsOfCurrent
    <3> HIDE DEF gates, revision
    <3>3. QED
      BY <2>1, <3>1, <3>2 DEF Record
  <2>3. QED
    BY <2>2 DEF Save, StoreInvariant, TypeOK, InCall
<1>4. StoreInv'
  BY <1>1, <1>2, SaveIsOfCurrent DEF Save, StoreInvariant, StoreInv, Restorable, TypeOK
<1>5. Kept(change[e])'
  <2>1. Kept(change[e])' <=>
          IF change[e].status = "OPEN"
          THEN stored'.gates.status[change[e].gate] # "absent"
          ELSE /\ stored'.gates.status[change[e].gate] = change[e].status
               /\ stored'.gates.decisions[change[e].gate] = change[e].decisions
    BY DEF Save, Kept
  <2>2. change[e].gate \in Gates
    BY SaveIsOfCurrent DEF Change
  <2>3. /\ stored'.gates.status[change[e].gate] = change[e].status
        /\ stored'.gates.decisions[change[e].gate] = change[e].decisions
    BY <1>1, <1>2, <2>2, SaveIsOfCurrent DEF Histories
  <2>4. QED
    BY <2>1, <2>3
<1>6. CallInv'
  <2> SUFFICES ASSUME NEW f \in Engines
               PROVE  /\ pc'[f] = "save" =>
                           /\ copy[f].revision <= stored'.revision
                           /\ copy[f].revision = stored'.revision => copy[f] = stored'
                           /\ Possible(change[f], copy[f].gates)
                      /\ pc'[f] \in InCall => Possible(change[f], memory[f])
                      /\ pc'[f] = "remember" => Kept(change[f])'
    BY DEF Save, CallInv, Kept
  <2>1. CASE f = e
    BY <1>5, <2>1 DEF Save, StoreInvariant, TypeOK, CallInv, InCall
  <2>2. CASE f # e
    <3>1. pc'[f] = pc[f] /\ pc[e] = "save"
      BY <2>2 DEF Save, StoreInvariant, TypeOK
    <3>2. pc[f] = "save" => repository = "sqlite"
      BY <2>2, <3>1 DEF StoreInvariant, StoreInv, TypeOK
    <3>3. pc[f] = "save" => copy[f].revision \in Nat /\ copy[f].revision <= stored.revision
      BY DEF StoreInvariant, TypeOK, Record, CallInv
    <3>4. pc[f] = "save" => copy[f].revision < stored'.revision
      BY <1>1, <3>2, <3>3, SaveIsOfCurrent
    <3>5. pc[f] = "remember" => Kept(change[f])'
      <4> SUFFICES ASSUME pc[f] = "remember" PROVE Kept(change[f])'
        OBVIOUS
      <4>1. change[f] \in Change /\ Kept(change[f])
        BY DEF StoreInvariant, TypeOK, CallInv, InCall
      <4>2. change'[f] = change[f]
        BY DEF Save
      <4>3. Kept(change[f])' <=>
              IF change[f].status = "OPEN"
              THEN stored'.gates.status[change[f].gate] # "absent"
              ELSE /\ stored'.gates.status[change[f].gate] = change[f].status
                   /\ stored'.gates.decisions[change[f].gate] = change[f].decisions
        BY <4>2 DEF Kept
      <4>4. QED
        BY <1>2, <4>1, <4>3 DEF Kept, Follows, Change, GateStatus
    <3>6. QED
      BY <1>1, <3>1, <3>3, <3>4, <3>5, SaveIsOfCurrent DEF StoreInvariant, CallInv
  <2>3. QED
    BY <2>1, <2>2
<1>7. AnswersAreKept'
  <2> SUFFICES ASSUME NEW c \in told PROVE Kept(c)'
    BY DEF Save, AnswersAreKept
  <2>1. c \in Change /\ Kept(c)
    BY DEF StoreInvariant, TypeOK, AnswersAreKept
  <2>2. QED
    BY <1>2, <2>1, KeptStays
<1>8. MemoryInv'
  BY DEF Save, StoreInvariant, MemoryInv
<1>9. MemoryIsBacked'
  BY <1>1, <1>2, FollowsIsTransitive DEF Save, StoreInvariant, TypeOK, MemoryIsBacked
<1>10. QED
  BY <1>3, <1>4, <1>6, <1>7, <1>8, <1>9 DEF StoreInvariant

\* A call that raises leaves everything but itself as it was.
LEMMA SaveRaisesInvariant ==
  ASSUME StoreInvariant, NEW e \in Engines, SaveRaises(e)
  PROVE  StoreInvariant'
<1>1. TypeOK'
  BY NewRecordType DEF SaveRaises, EndCall, StoreInvariant, TypeOK, InCall
<1>2. StoreInv'
  BY DEF SaveRaises, EndCall, StoreInvariant, StoreInv, Restorable, TypeOK
<1>3. CallInv'
  BY DEF SaveRaises, EndCall, StoreInvariant, CallInv, TypeOK, InCall, Kept
<1>4. MemoryInv' /\ AnswersAreKept' /\ MemoryIsBacked'
  BY DEF SaveRaises, StoreInvariant, MemoryInv, AnswersAreKept, MemoryIsBacked, Kept
<1>5. QED
  BY <1>1, <1>2, <1>3, <1>4 DEF StoreInvariant

\* The memory takes over a change that is in the record.
LEMMA RememberInvariant ==
  ASSUME StoreInvariant, NEW e \in Engines, Remember(e)
  PROVE  StoreInvariant'
<1>1. /\ change[e] \in Change /\ change[e].gate \in Gates
      /\ memory[e] \in Histories
      /\ Possible(change[e], memory[e])
      /\ Kept(change[e])
      /\ Hydratable(memory[e])
      /\ Follows(stored.gates, memory[e])
  BY DEF Remember, StoreInvariant, TypeOK, CallInv, InCall, MemoryInv, MemoryIsBacked, Change
<1>2. memory' = [memory EXCEPT ![e] = Applied(memory[e], change[e])]
  BY DEF Remember
<1>3. /\ Applied(memory[e], change[e]).status
           = [memory[e].status EXCEPT ![change[e].gate] = change[e].status]
      /\ Applied(memory[e], change[e]).decisions
           = [memory[e].decisions EXCEPT ![change[e].gate] = change[e].decisions]
      /\ Applied(memory[e], change[e]) \in Histories
      /\ Hydratable(Applied(memory[e], change[e]))
  BY <1>1, AppliedGates
<1>4. TypeOK'
  BY <1>1, <1>2, <1>3, NewRecordType DEF Remember, EndCall, StoreInvariant, TypeOK, InCall
<1>5. StoreInv'
  BY DEF Remember, EndCall, StoreInvariant, StoreInv, Restorable, TypeOK
<1>6. CallInv'
  BY DEF Remember, EndCall, StoreInvariant, CallInv, TypeOK, InCall, Kept
<1>7. MemoryInv'
  BY <1>2, <1>3 DEF StoreInvariant, MemoryInv, TypeOK
<1>8. AnswersAreKept'
  BY <1>1 DEF Remember, StoreInvariant, AnswersAreKept, Kept
<1>9. MemoryIsBacked'
  <2>1. Follows(stored.gates, Applied(memory[e], change[e]))
    <3> SUFFICES ASSUME NEW g \in Gates
                 PROVE  LET old == Applied(memory[e], change[e]) IN
                        /\ old.status[g] # "absent" => stored.gates.status[g] # "absent"
                        /\ old.status[g] \in {"RESOLVED", "CANCELLED"} =>
                             /\ stored.gates.status[g] = old.status[g]
                             /\ stored.gates.decisions[g] = old.decisions[g]
      BY DEF Follows
    <3>1. CASE g = change[e].gate
      BY <1>1, <1>3, <3>1 DEF Kept, Histories, Change, GateStatus
    <3>2. CASE g # change[e].gate
      BY <1>1, <1>3, <3>2 DEF Follows, Histories
    <3>3. QED
      BY <3>1, <3>2
  <2>2. QED
    BY <1>2, <2>1 DEF Remember, StoreInvariant, MemoryIsBacked, TypeOK
<1>10. QED
  BY <1>4, <1>5, <1>6, <1>7, <1>8, <1>9 DEF StoreInvariant

\* A step that changes nothing changes nothing.
LEMMA StutterInvariant == StoreInvariant /\ UNCHANGED vars => StoreInvariant'
<1> SUFFICES ASSUME StoreInvariant, UNCHANGED vars PROVE StoreInvariant'
  OBVIOUS
<1>1. TypeOK'
  BY DEF vars, StoreInvariant, TypeOK
<1>2. StoreInv' /\ CallInv'
  BY DEF vars, StoreInvariant, StoreInv, CallInv, Restorable, Kept
<1>3. MemoryInv' /\ AnswersAreKept' /\ MemoryIsBacked'
  BY DEF vars, StoreInvariant, MemoryInv, AnswersAreKept, MemoryIsBacked, Kept
<1>4. QED
  BY <1>1, <1>2, <1>3 DEF StoreInvariant

\* StoreInvariant holds in every state of ApprovalStore.
THEOREM StoreInvariance == Spec => []StoreInvariant
<1>1. StoreInvariant /\ [Next]_vars => StoreInvariant'
  <2> SUFFICES ASSUME StoreInvariant, [Next]_vars PROVE StoreInvariant'
    OBVIOUS
  <2>1. ASSUME NEW e \in Engines, Hydrate(e) PROVE StoreInvariant'
    BY <2>1, HydrateInvariant
  <2>2. ASSUME NEW e \in Engines, Crash(e) PROVE StoreInvariant'
    BY <2>2, CrashInvariant
  <2>3. ASSUME NEW e \in Engines, NEW g \in Gates,
               RequestGate(e, g) \/ CancelGate(e, g) \/ \E v \in Verdicts : ResolveGate(e, g, v)
        PROVE  StoreInvariant'
    BY <2>3, CallInvariant
  <2>4. ASSUME NEW e \in Engines, Save(e) PROVE StoreInvariant'
    BY <2>4, SaveInvariant
  <2>5. ASSUME NEW e \in Engines, SaveRaises(e) PROVE StoreInvariant'
    BY <2>5, SaveRaisesInvariant
  <2>6. ASSUME NEW e \in Engines, Remember(e) PROVE StoreInvariant'
    BY <2>6, RememberInvariant
  <2>7. CASE UNCHANGED vars
    BY <2>7, StutterInvariant
  <2>8. QED
    BY <2>1, <2>2, <2>3, <2>4, <2>5, <2>6, <2>7 DEF Next
<1>2. QED
  BY InitInvariant, <1>1, PTL DEF Spec

-------------------------------------------------------------------------------
(* The properties.                                                         *)

\* Every variable keeps its type, and a call has a change pending exactly while it
\* is between its read and its return.
THEOREM StoreIsTyped == Spec => []TypeOK
<1>1. StoreInvariant => TypeOK
  BY DEF StoreInvariant
<1>2. QED
  BY StoreInvariance, <1>1, PTL

\* A process can always be started again: no sequence of calls, conflicts and
\* crashes leaves a record that _hydrate refuses.
THEOREM RestartsAlwaysWork == Spec => []Restorable
<1>1. StoreInvariant => Restorable
  BY DEF StoreInvariant, StoreInv
<1>2. QED
  BY StoreInvariance, <1>1, PTL

\* What a caller was told stays in the record, so no process overwrites another's
\* answer.
THEOREM NoAnswerIsLost == Spec => []AnswersAreKept
<1>1. StoreInvariant => AnswersAreKept
  BY DEF StoreInvariant
<1>2. QED
  BY StoreInvariance, <1>1, PTL

\* The memory of every engine is an earlier or the present state of the record.
THEOREM MemoryFollowsRecord == Spec => []MemoryIsBacked
<1>1. StoreInvariant => MemoryIsBacked
  BY DEF StoreInvariant
<1>2. QED
  BY StoreInvariance, <1>1, PTL

-------------------------------------------------------------------------------
(* The refinement.                                                         *)

\* A save is a step of the ledger: the gate is opened, answered or cancelled.
LEMMA SaveIsLedgerStep ==
  ASSUME StoreInvariant, NEW e \in Engines, Save(e)
  PROVE  Ledger!Next
<1> DEFINE c == change[e]
           g == c.gate
<1>1. c \in Change /\ g \in Gates /\ c.status \in {"OPEN", "RESOLVED", "CANCELLED"}
  BY SaveIsOfCurrent DEF Change, GateStatus
<1>2. stored.gates \in Histories
  BY DEF StoreInvariant, TypeOK, Record
<1>3. /\ stored'.gates.status = [stored.gates.status EXCEPT ![g] = c.status]
      /\ stored'.gates.decisions = [stored.gates.decisions EXCEPT ![g] = c.decisions]
      /\ Possible(c, stored.gates)
  BY <1>2, SaveIsOfCurrent, AppliedGates DEF StoreInvariant, StoreInv, Restorable
<1>4. ledger' = [ledger EXCEPT ![g] = [status |-> c.status, decisions |-> c.decisions]]
  BY <1>1, <1>2, <1>3 DEF ledger, Histories
<1>5. ledger[g].status = IF c.status = "OPEN" THEN "absent" ELSE "OPEN"
  BY <1>1, <1>3 DEF ledger, Possible
<1>6. told' = told
  BY DEF Save
<1>7. CASE c.status = "OPEN"
  BY <1>1, <1>3, <1>4, <1>5, <1>6, <1>7
  DEF Ledger!Next, Ledger!Open, Ledger!Entry, Possible
<1>8. CASE c.status = "CANCELLED"
  BY <1>1, <1>3, <1>4, <1>5, <1>6, <1>8
  DEF Ledger!Next, Ledger!Cancel, Ledger!Entry, Possible
<1>9. CASE c.status = "RESOLVED"
  <2>1. PICK d \in HumanDecision : c.decisions = <<d>>
    BY <1>1, <1>3, <1>9 DEF Change, Possible
  <2>2. Ledger!Resolve(g, d)
    BY <1>4, <1>5, <1>6, <1>9, <2>1 DEF Ledger!Resolve, Ledger!Entry
  <2>3. QED
    BY <1>1, <2>2 DEF Ledger!Next
<1>10. QED
  BY <1>1, <1>7, <1>8, <1>9

\* A call that returns tells of a change that is in the ledger.
LEMMA RememberIsLedgerStep ==
  ASSUME StoreInvariant, NEW e \in Engines, Remember(e)
  PROVE  Ledger!Next
<1>1. change[e] \in Change /\ Kept(change[e])
  BY DEF Remember, StoreInvariant, TypeOK, CallInv, InCall
<1>2. change[e] \in Ledger!Change
  BY <1>1 DEF Change, Ledger!Change, GateStatus
<1>3. change[e].gate \in Gates
  BY <1>1 DEF Change
<1>4. Ledger!Tell(change[e])
  BY <1>1, <1>3 DEF Ledger!Tell, Ledger!Entry, Kept, ledger, Remember
<1>5. QED
  BY <1>2, <1>4 DEF Ledger!Next

\* ApprovalStore implements GateLedger: several engines with their copies are one
\* ledger of gates.
THEOREM StoreImplementsLedger == Spec => KeepsLedger
<1>1. Init => Ledger!Init
  BY DEF Init, NewRecord, NoGates, ledger, Ledger!Init, Ledger!Entry
<1>2. StoreInvariant /\ [Next]_vars => [Ledger!Next]_(Ledger!vars)
  <2> SUFFICES ASSUME StoreInvariant, [Next]_vars
               PROVE  Ledger!Next \/ (ledger' = ledger /\ told' = told)
    BY DEF Ledger!vars
  <2>1. ASSUME NEW e \in Engines, Save(e) PROVE Ledger!Next
    BY <2>1, SaveIsLedgerStep
  <2>2. ASSUME NEW e \in Engines, Remember(e) PROVE Ledger!Next
    BY <2>2, RememberIsLedgerStep
  <2>3. ASSUME NEW e \in Engines, Hydrate(e) \/ Crash(e) \/ SaveRaises(e)
        PROVE  stored' = stored /\ told' = told
    BY <2>3 DEF Hydrate, Crash, SaveRaises
  <2>4. ASSUME NEW e \in Engines, NEW g \in Gates,
               RequestGate(e, g) \/ CancelGate(e, g) \/ \E v \in Verdicts : ResolveGate(e, g, v)
        PROVE  stored' = stored /\ told' = told
    BY <2>4 DEF RequestGate, CancelGate, ResolveGate, Begin
  <2>5. CASE UNCHANGED vars
    BY <2>5 DEF vars, ledger
  <2>6. stored' = stored => ledger' = ledger
    BY DEF ledger
  <2>7. QED
    BY <2>1, <2>2, <2>3, <2>4, <2>5, <2>6 DEF Next
<1>3. QED
  BY <1>1, <1>2, StoreInvariance, PTL DEF Spec, KeepsLedger, Ledger!Spec
===============================================================================

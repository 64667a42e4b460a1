------------------------ MODULE ExecutionLease_proofs ------------------------
(***************************************************************************)
(* Proofs about ExecutionLease, for any set of calls and both ways of      *)
(* keeping leases.                                                         *)
(***************************************************************************)
EXTENDS ExecutionLease, TLAPS

\* Steps of a call that owns the key and has not completed its lease.
Holding == {"audit", "undo", "execute", "waiting", "store", "complete"}

\* Steps of a call whose code has not gone out and that has no result.
Early == {"reserve", "conflict", "audit", "undo", "execute", "reuse"}

\* The lease is that of the call at work, and COMPLETED for those who reuse it.
OwnerInv ==
  \A c \in Calls :
    /\ pc[c] \in Holding => lease = [call |-> c, status |-> "RUNNING"]
    /\ pc[c] = "auditCompletion" => lease = [call |-> c, status |-> "COMPLETED"]
    /\ pc[c] = "reuse" => Completed /\ lease.call = seen[c]
    /\ pc[c] = "returned" => Completed

\* Whatever went out, or left a result, still has its lease and its message.
Trace(c) ==
  /\ c \in submitted \/ results[c] # None => Holds(c) /\ pc[c] \notin Early
  /\ c \in submitted \/ pc[c] = "execute" => <<c, "RUNNING">> \in audited

TraceInv == \A c \in Calls : Trace(c)

\* What a call holds is what is stored.
AnswerInv ==
  /\ Completed => results[lease.call] # None
  /\ \A c \in Calls :
       /\ pc[c] = "store" => answer[c] # None
       /\ pc[c] \in {"complete", "auditCompletion"} =>
            results[c] # None /\ answer[c] = results[c]
       /\ pc[c] = "returned" => answer[c] = results[lease.call]

\* The server knows only what went out, and a SUCCESS only from the server.
BackendInv ==
  /\ \A c \in Calls :
       /\ c \in requests \/ remote[c] # "absent" \/ pc[c] = "waiting" => c \in submitted
       /\ c \in serving => remote[c] = "running"
       /\ results[c] = "success" => remote[c] = "success"
       /\ pc[c] = "store" /\ answer[c] = "success" => remote[c] = "success"
  /\ fetched # None => remote[fetched] \in Outcome

LeaseInv == TypeOK /\ OwnerInv /\ TraceInv /\ AnswerInv /\ BackendInv

-------------------------------------------------------------------------------
\* The inductive invariant holds before the first call.
LEMMA LeaseInitInv == Init => LeaseInv
<1> SUFFICES ASSUME Init PROVE LeaseInv
  OBVIOUS
<1>1. TypeOK
  BY DEF Init, TypeOK, CallStep
<1>2. OwnerInv /\ TraceInv /\ AnswerInv /\ BackendInv
  BY NoneIsFresh DEF Init, OwnerInv, TraceInv, Trace, AnswerInv, BackendInv, Holding, Early,
     Completed, Outcome
<1>3. QED
  BY <1>1, <1>2 DEF LeaseInv

\* Types.
LEMMA LeaseTypeStep ==
  ASSUME LeaseInv, Next
  PROVE  TypeOK'
<1> USE NoneIsFresh DEF LeaseInv, TypeOK, Goto, Lease, LeaseStatus, CallStep, Ended, Outcome,
          durableVars, serverVars, callVars, Completed, Holds
<1>0. rows' = rows
  BY DEF Next
<1> USE <1>0
<1>1. ASSUME NEW c \in Calls, InsertLease(c) PROVE TypeOK'
  BY <1>1 DEF InsertLease
<1>2. ASSUME NEW c \in Calls, ReadConflict(c) PROVE TypeOK'
  BY <1>2 DEF ReadConflict
<1>3. ASSUME NEW c \in Calls, AuditReservation(c) PROVE TypeOK'
  BY <1>3 DEF AuditReservation
<1>4. ASSUME NEW c \in Calls, AuditRaises(c) PROVE TypeOK'
  BY <1>4 DEF AuditRaises
<1>5. ASSUME NEW c \in Calls, UndoLease(c) PROVE TypeOK'
  BY <1>5 DEF UndoLease
<1>6. ASSUME NEW c \in Calls, ReserveByMessage(c) PROVE TypeOK'
  BY <1>6 DEF ReserveByMessage
<1>7. ASSUME NEW c \in Calls, ReuseResult(c) PROVE TypeOK'
  BY <1>7 DEF ReuseResult, OwnerInv
<1>8. ASSUME NEW c \in Calls, Decline(c) PROVE TypeOK'
  BY <1>8 DEF Decline
<1>9. ASSUME NEW c \in Calls, Submit(c) PROVE TypeOK'
  BY <1>9 DEF Submit
<1>10. ASSUME NEW c \in Calls, Reply(c) PROVE TypeOK'
  BY <1>10 DEF Reply
<1>11. ASSUME NEW c \in Calls, GiveUp(c) PROVE TypeOK'
  BY <1>11 DEF GiveUp
<1>12. ASSUME NEW c \in Calls, StoreResult(c) PROVE TypeOK'
  BY <1>12 DEF StoreResult
<1>13. ASSUME NEW c \in Calls, CompleteLease(c) PROVE TypeOK'
  BY <1>13 DEF CompleteLease
<1>14. ASSUME NEW c \in Calls, AuditCompletion(c) PROVE TypeOK'
  BY <1>14 DEF AuditCompletion
<1>15. ASSUME NEW c \in Calls, Stop(c) PROVE TypeOK'
  BY <1>15 DEF Stop
<1>16. ASSUME NEW c \in Calls, LoseRequest(c) PROVE TypeOK'
  BY <1>16 DEF LoseRequest
<1>17. ASSUME NEW c \in Calls, Serve(c) PROVE TypeOK'
  BY <1>17 DEF Serve
<1>18. ASSUME NEW c \in Calls, ServerFails(c) PROVE TypeOK'
  BY <1>18 DEF ServerFails
<1>19. ASSUME NEW c \in Calls, NEW outcome \in Outcome, ServerCompletes(c, outcome) PROVE TypeOK'
  BY <1>19 DEF ServerCompletes
<1>20. ASSUME AskBackend PROVE TypeOK'
  BY <1>20 DEF AskBackend
<1>21. ASSUME StoreFetched PROVE TypeOK'
  BY <1>21 DEF StoreFetched, BackendInv
<1>22. ASSUME DropFetched PROVE TypeOK'
  BY <1>22 DEF DropFetched
<1>23. QED
  BY <1>1, <1>2, <1>3, <1>4, <1>5, <1>6, <1>7, <1>8, <1>9, <1>10, <1>11, <1>12, <1>13, <1>14, <1>15, <1>16, <1>17, <1>18, <1>19, <1>20, <1>21, <1>22 DEF Next, CallNext, ServerNext

\* The owner of the key.
LEMMA OwnerStep ==
  ASSUME LeaseInv, Next
  PROVE  OwnerInv'
<1> USE NoneIsFresh DEF LeaseInv, TypeOK, CallStep, Ended, Lease, LeaseStatus, Goto, durableVars, serverVars,
          callVars, Completed, Holds, Holding, Early, OwnerInv, TraceInv, Trace
<1>1. ASSUME NEW c \in Calls, InsertLease(c) PROVE OwnerInv'
  BY <1>1 DEF InsertLease
<1>2. ASSUME NEW c \in Calls, ReadConflict(c) PROVE OwnerInv'
  BY <1>2 DEF ReadConflict
<1>3. ASSUME NEW c \in Calls, AuditReservation(c) PROVE OwnerInv'
  BY <1>3 DEF AuditReservation
<1>4. ASSUME NEW c \in Calls, AuditRaises(c) PROVE OwnerInv'
  BY <1>4 DEF AuditRaises
<1>5. ASSUME NEW c \in Calls, UndoLease(c) PROVE OwnerInv'
  BY <1>5 DEF UndoLease
<1>6. ASSUME NEW c \in Calls, ReserveByMessage(c) PROVE OwnerInv'
  BY <1>6 DEF ReserveByMessage
<1>7. ASSUME NEW c \in Calls, ReuseResult(c) PROVE OwnerInv'
  BY <1>7 DEF ReuseResult
<1>8. ASSUME NEW c \in Calls, Decline(c) PROVE OwnerInv'
  BY <1>8 DEF Decline
<1>9. ASSUME NEW c \in Calls, Submit(c) PROVE OwnerInv'
  BY <1>9 DEF Submit
<1>10. ASSUME NEW c \in Calls, Reply(c) PROVE OwnerInv'
  BY <1>10 DEF Reply
<1>11. ASSUME NEW c \in Calls, GiveUp(c) PROVE OwnerInv'
  BY <1>11 DEF GiveUp
<1>12. ASSUME NEW c \in Calls, StoreResult(c) PROVE OwnerInv'
  BY <1>12 DEF StoreResult
<1>13. ASSUME NEW c \in Calls, CompleteLease(c) PROVE OwnerInv'
  BY <1>13 DEF CompleteLease
<1>14. ASSUME NEW c \in Calls, AuditCompletion(c) PROVE OwnerInv'
  BY <1>14 DEF AuditCompletion
<1>15. ASSUME NEW c \in Calls, Stop(c) PROVE OwnerInv'
  BY <1>15 DEF Stop
<1>16. ASSUME NEW c \in Calls, LoseRequest(c) PROVE OwnerInv'
  BY <1>16 DEF LoseRequest
<1>17. ASSUME NEW c \in Calls, Serve(c) PROVE OwnerInv'
  BY <1>17 DEF Serve
<1>18. ASSUME NEW c \in Calls, ServerFails(c) PROVE OwnerInv'
  BY <1>18 DEF ServerFails
<1>19. ASSUME NEW c \in Calls, NEW outcome \in Outcome, ServerCompletes(c, outcome) PROVE OwnerInv'
  BY <1>19 DEF ServerCompletes
<1>20. ASSUME AskBackend PROVE OwnerInv'
  BY <1>20 DEF AskBackend
<1>21. ASSUME StoreFetched PROVE OwnerInv'
  BY <1>21 DEF StoreFetched
<1>22. ASSUME DropFetched PROVE OwnerInv'
  BY <1>22 DEF DropFetched
<1>23. QED
  BY <1>1, <1>2, <1>3, <1>4, <1>5, <1>6, <1>7, <1>8, <1>9, <1>10, <1>11, <1>12, <1>13, <1>14, <1>15, <1>16, <1>17, <1>18, <1>19, <1>20, <1>21, <1>22 DEF Next, CallNext, ServerNext

\* What went out, or left a result, stays traceable.
LEMMA TraceStep ==
  ASSUME LeaseInv, Next, NEW d \in Calls
  PROVE  Trace(d)'
<1> USE NoneIsFresh DEF LeaseInv, TypeOK, CallStep, Ended, Lease, LeaseStatus, Goto, durableVars, serverVars,
          callVars, Completed, Holds, Holding, Early, OwnerInv, TraceInv, Trace, BackendInv, Outcome
<1>1. ASSUME NEW c \in Calls, InsertLease(c) PROVE Trace(d)'
  BY <1>1 DEF InsertLease
<1>2. ASSUME NEW c \in Calls, ReadConflict(c) PROVE Trace(d)'
  BY <1>2 DEF ReadConflict
<1>3. ASSUME NEW c \in Calls, AuditReservation(c) PROVE Trace(d)'
  BY <1>3 DEF AuditReservation
<1>4. ASSUME NEW c \in Calls, AuditRaises(c) PROVE Trace(d)'
  BY <1>4 DEF AuditRaises
<1>5. ASSUME NEW c \in Calls, UndoLease(c) PROVE Trace(d)'
  BY <1>5 DEF UndoLease
<1>6. ASSUME NEW c \in Calls, ReserveByMessage(c) PROVE Trace(d)'
  BY <1>6 DEF ReserveByMessage
<1>7. ASSUME NEW c \in Calls, ReuseResult(c) PROVE Trace(d)'
  BY <1>7 DEF ReuseResult
<1>8. ASSUME NEW c \in Calls, Decline(c) PROVE Trace(d)'
  BY <1>8 DEF Decline
<1>9. ASSUME NEW c \in Calls, Submit(c) PROVE Trace(d)'
  BY <1>9 DEF Submit
<1>10. ASSUME NEW c \in Calls, Reply(c) PROVE Trace(d)'
  BY <1>10 DEF Reply
<1>11. ASSUME NEW c \in Calls, GiveUp(c) PROVE Trace(d)'
  BY <1>11 DEF GiveUp
<1>12. ASSUME NEW c \in Calls, StoreResult(c) PROVE Trace(d)'
  BY <1>12 DEF StoreResult
<1>13. ASSUME NEW c \in Calls, CompleteLease(c) PROVE Trace(d)'
  BY <1>13 DEF CompleteLease
<1>14. ASSUME NEW c \in Calls, AuditCompletion(c) PROVE Trace(d)'
  BY <1>14 DEF AuditCompletion
<1>15. ASSUME NEW c \in Calls, Stop(c) PROVE Trace(d)'
  BY <1>15 DEF Stop
<1>16. ASSUME NEW c \in Calls, LoseRequest(c) PROVE Trace(d)'
  BY <1>16 DEF LoseRequest
<1>17. ASSUME NEW c \in Calls, Serve(c) PROVE Trace(d)'
  BY <1>17 DEF Serve
<1>18. ASSUME NEW c \in Calls, ServerFails(c) PROVE Trace(d)'
  BY <1>18 DEF ServerFails
<1>19. ASSUME NEW c \in Calls, NEW outcome \in Outcome, ServerCompletes(c, outcome) PROVE Trace(d)'
  BY <1>19 DEF ServerCompletes
<1>20. ASSUME AskBackend PROVE Trace(d)'
  BY <1>20 DEF AskBackend
<1>21. ASSUME StoreFetched PROVE Trace(d)'
  BY <1>21 DEF StoreFetched
<1>22. ASSUME DropFetched PROVE Trace(d)'
  BY <1>22 DEF DropFetched
<1>23. QED
  BY <1>1, <1>2, <1>3, <1>4, <1>5, <1>6, <1>7, <1>8, <1>9, <1>10, <1>11, <1>12, <1>13, <1>14, <1>15, <1>16, <1>17, <1>18, <1>19, <1>20, <1>21, <1>22 DEF Next, CallNext, ServerNext

\* Answers and stored results.
LEMMA AnswerStep ==
  ASSUME LeaseInv, Next
  PROVE  AnswerInv'
<1> USE NoneIsFresh DEF LeaseInv, TypeOK, CallStep, Ended, Lease, LeaseStatus, Goto, durableVars, serverVars,
          callVars, Completed, Holds, Holding, Early, OwnerInv, TraceInv, Trace, AnswerInv, BackendInv, Outcome
<1>1. ASSUME NEW c \in Calls, InsertLease(c) PROVE AnswerInv'
  BY <1>1 DEF InsertLease
<1>2. ASSUME NEW c \in Calls, ReadConflict(c) PROVE AnswerInv'
  BY <1>2 DEF ReadConflict
<1>3. ASSUME NEW c \in Calls, AuditReservation(c) PROVE AnswerInv'
  BY <1>3 DEF AuditReservation
<1>4. ASSUME NEW c \in Calls, AuditRaises(c) PROVE AnswerInv'
  BY <1>4 DEF AuditRaises
<1>5. ASSUME NEW c \in Calls, UndoLease(c) PROVE AnswerInv'
  BY <1>5 DEF UndoLease
<1>6. ASSUME NEW c \in Calls, ReserveByMessage(c) PROVE AnswerInv'
  BY <1>6 DEF ReserveByMessage
<1>7. ASSUME NEW c \in Calls, ReuseResult(c) PROVE AnswerInv'
  BY <1>7 DEF ReuseResult
<1>8. ASSUME NEW c \in Calls, Decline(c) PROVE AnswerInv'
  BY <1>8 DEF Decline
<1>9. ASSUME NEW c \in Calls, Submit(c) PROVE AnswerInv'
  BY <1>9 DEF Submit
<1>10. ASSUME NEW c \in Calls, Reply(c) PROVE AnswerInv'
  BY <1>10 DEF Reply
<1>11. ASSUME NEW c \in Calls, GiveUp(c) PROVE AnswerInv'
  BY <1>11 DEF GiveUp
<1>12. ASSUME NEW c \in Calls, StoreResult(c) PROVE AnswerInv'
  BY <1>12 DEF StoreResult
<1>13. ASSUME NEW c \in Calls, CompleteLease(c) PROVE AnswerInv'
  BY <1>13 DEF CompleteLease
<1>14. ASSUME NEW c \in Calls, AuditCompletion(c) PROVE AnswerInv'
  BY <1>14 DEF AuditCompletion
<1>15. ASSUME NEW c \in Calls, Stop(c) PROVE AnswerInv'
  BY <1>15 DEF Stop
<1>16. ASSUME NEW c \in Calls, LoseRequest(c) PROVE AnswerInv'
  BY <1>16 DEF LoseRequest
<1>17. ASSUME NEW c \in Calls, Serve(c) PROVE AnswerInv'
  BY <1>17 DEF Serve
<1>18. ASSUME NEW c \in Calls, ServerFails(c) PROVE AnswerInv'
  BY <1>18 DEF ServerFails
<1>19. ASSUME NEW c \in Calls, NEW outcome \in Outcome, ServerCompletes(c, outcome) PROVE AnswerInv'
  BY <1>19 DEF ServerCompletes
<1>20. ASSUME AskBackend PROVE AnswerInv'
  BY <1>20 DEF AskBackend
<1>21. ASSUME StoreFetched PROVE AnswerInv'
  BY <1>21 DEF StoreFetched
<1>22. ASSUME DropFetched PROVE AnswerInv'
  BY <1>22 DEF DropFetched
<1>23. QED
  BY <1>1, <1>2, <1>3, <1>4, <1>5, <1>6, <1>7, <1>8, <1>9, <1>10, <1>11, <1>12, <1>13, <1>14, <1>15, <1>16, <1>17, <1>18, <1>19, <1>20, <1>21, <1>22 DEF Next, CallNext, ServerNext

\* The server.
LEMMA BackendStep ==
  ASSUME LeaseInv, Next
  PROVE  BackendInv'
<1> USE NoneIsFresh DEF LeaseInv, TypeOK, CallStep, Ended, Lease, LeaseStatus, Goto, durableVars, serverVars,
          callVars, Completed, Holds, Holding, Early, OwnerInv, TraceInv, Trace, AnswerInv, BackendInv, Outcome
<1>1. ASSUME NEW c \in Calls, InsertLease(c) PROVE BackendInv'
  BY <1>1 DEF InsertLease
<1>2. ASSUME NEW c \in Calls, ReadConflict(c) PROVE BackendInv'
  BY <1>2 DEF ReadConflict
<1>3. ASSUME NEW c \in Calls, AuditReservation(c) PROVE BackendInv'
  BY <1>3 DEF AuditReservation
<1>4. ASSUME NEW c \in Calls, AuditRaises(c) PROVE BackendInv'
  BY <1>4 DEF AuditRaises
<1>5. ASSUME NEW c \in Calls, UndoLease(c) PROVE BackendInv'
  BY <1>5 DEF UndoLease
<1>6. ASSUME NEW c \in Calls, ReserveByMessage(c) PROVE BackendInv'
  BY <1>6 DEF ReserveByMessage
<1>7. ASSUME NEW c \in Calls, ReuseResult(c) PROVE BackendInv'
  BY <1>7 DEF ReuseResult
<1>8. ASSUME NEW c \in Calls, Decline(c) PROVE BackendInv'
  BY <1>8 DEF Decline
<1>9. ASSUME NEW c \in Calls, Submit(c) PROVE BackendInv'
  BY <1>9 DEF Submit
<1>10. ASSUME NEW c \in Calls, Reply(c) PROVE BackendInv'
  BY <1>10 DEF Reply
<1>11. ASSUME NEW c \in Calls, GiveUp(c) PROVE BackendInv'
  BY <1>11 DEF GiveUp
<1>12. ASSUME NEW c \in Calls, StoreResult(c) PROVE BackendInv'
  BY <1>12 DEF StoreResult
<1>13. ASSUME NEW c \in Calls, CompleteLease(c) PROVE BackendInv'
  BY <1>13 DEF CompleteLease
<1>14. ASSUME NEW c \in Calls, AuditCompletion(c) PROVE BackendInv'
  BY <1>14 DEF AuditCompletion
<1>15. ASSUME NEW c \in Calls, Stop(c) PROVE BackendInv'
  BY <1>15 DEF Stop
<1>16. ASSUME NEW c \in Calls, LoseRequest(c) PROVE BackendInv'
  BY <1>16 DEF LoseRequest
<1>17. ASSUME NEW c \in Calls, Serve(c) PROVE BackendInv'
  BY <1>17 DEF Serve
<1>18. ASSUME NEW c \in Calls, ServerFails(c) PROVE BackendInv'
  BY <1>18 DEF ServerFails
<1>19. ASSUME NEW c \in Calls, NEW outcome \in Outcome, ServerCompletes(c, outcome) PROVE BackendInv'
  BY <1>19 DEF ServerCompletes
<1>20. ASSUME AskBackend PROVE BackendInv'
  BY <1>20 DEF AskBackend
<1>21. ASSUME StoreFetched PROVE BackendInv'
  BY <1>21 DEF StoreFetched
<1>22. ASSUME DropFetched PROVE BackendInv'
  BY <1>22 DEF DropFetched
<1>23. QED
  BY <1>1, <1>2, <1>3, <1>4, <1>5, <1>6, <1>7, <1>8, <1>9, <1>10, <1>11, <1>12, <1>13, <1>14, <1>15, <1>16, <1>17, <1>18, <1>19, <1>20, <1>21, <1>22 DEF Next, CallNext, ServerNext

\* LeaseInv is inductive.
THEOREM LeaseInvariance == Spec => []LeaseInv
<1>1. Init => LeaseInv
  BY LeaseInitInv
<1>2. LeaseInv /\ [Next]_vars => LeaseInv'
  <2> SUFFICES ASSUME LeaseInv, [Next]_vars PROVE LeaseInv'
    OBVIOUS
  <2>1. CASE Next
    <3>1. TraceInv'
      BY <2>1, TraceStep DEF TraceInv
    <3>2. QED
      BY <2>1, <3>1, LeaseTypeStep, OwnerStep, AnswerStep, BackendStep DEF LeaseInv
  <2>2. CASE UNCHANGED vars
    BY <2>2 DEF vars, durableVars, serverVars, callVars, LeaseInv, TypeOK, OwnerInv, TraceInv,
       Trace, AnswerInv, BackendInv, Completed, Holds
  <2>3. QED
    BY <2>1, <2>2
<1>3. QED
  BY <1>1, <1>2, PTL DEF Spec

\* Every variable keeps its type.
THEOREM LeaseIsTyped == Spec => []TypeOK
<1>1. LeaseInv => TypeOK
  BY DEF LeaseInv
<1>2. QED
  BY <1>1, LeaseInvariance, PTL

\* The code of one key is handed to a backend once at most, whatever the calls,
\* failures and restarts: two that went out would both own the one lease.
THEOREM SubmissionIsUnique == Spec => []SubmittedOnce
<1>1. LeaseInv => SubmittedOnce
  BY DEF LeaseInv, TypeOK, TraceInv, Trace, Holds, SubmittedOnce
<1>2. QED
  BY <1>1, LeaseInvariance, PTL

\* Code that went out can be found by its key and among the listed messages.
THEOREM SubmissionIsTraceable == Spec => []SubmittedIsTraceable
<1>1. LeaseInv => SubmittedIsTraceable
  BY DEF LeaseInv, TypeOK, TraceInv, Trace, SubmittedIsTraceable
<1>2. QED
  BY <1>1, LeaseInvariance, PTL

\* What a call returns is the stored result of the completed lease.
THEOREM AnswerIsEvidence == Spec => []ReturnedIsEvidence
<1>1. LeaseInv => ReturnedIsEvidence
  BY DEF LeaseInv, OwnerInv, AnswerInv, ReturnedIsEvidence
<1>2. QED
  BY <1>1, LeaseInvariance, PTL

\* A stored SUCCESS is the server's.
THEOREM SuccessIsTheServers == Spec => []SuccessIsReal
<1>1. LeaseInv => SuccessIsReal
  BY DEF LeaseInv, BackendInv, SuccessIsReal
<1>2. QED
  BY <1>1, LeaseInvariance, PTL

\* No step replaces a stored result.
THEOREM ResultsStayAsStored == Spec => ResultsAreFinal
<1>1. LeaseInv /\ [Next]_vars =>
        [\A c \in Calls : results[c] # None => results'[c] = results[c]]_vars
  <2> SUFFICES ASSUME LeaseInv, Next, NEW c \in Calls, results[c] # None
               PROVE  results'[c] = results[c]
    OBVIOUS
  <2>1. CASE \E d \in Calls : StoreResult(d)
    BY <2>1 DEF StoreResult, LeaseInv, TypeOK
  <2>2. CASE StoreFetched
    BY <2>2 DEF StoreFetched, LeaseInv, TypeOK
  <2>3. CASE UNCHANGED results
    BY <2>3
  <2>4. QED
    BY <2>1, <2>2, <2>3 DEF Next, CallNext, ServerNext, InsertLease, ReadConflict,
       AuditReservation, AuditRaises, UndoLease, ReserveByMessage, ReuseResult, Decline,
       Submit, Reply, GiveUp, CompleteLease, AuditCompletion, Stop, LoseRequest, Serve,
       ServerFails, ServerCompletes, AskBackend, DropFetched, durableVars
<1>2. QED
  BY <1>1, LeaseInvariance, PTL DEF Spec, ResultsAreFinal

-------------------------------------------------------------------------------
(* The refinement of ExecuteOnce.                                          *)

Owner   == IF lease = None THEN None ELSE lease.call
Settled == IF lease = None THEN None ELSE results[lease.call]
Told    == [c \in Calls |-> IF pc[c] = "returned" THEN answer[c] ELSE None]

\* A call that neither was nor now is at "returned" tells nothing new.
LEMMA ToldStays ==
  ASSUME TypeOK, NEW c \in Calls, pc[c] # "returned",
         NEW step \in CallStep \ {"returned"}, Goto(c, step),
         \A d \in Calls \ {c} : answer'[d] = answer[d]
  PROVE  Told' = Told
<1>1. \A d \in Calls : d # c => pc'[d] = pc[d]
  BY DEF Goto, TypeOK
<1>2. pc'[c] # "returned"
  BY DEF Goto, TypeOK
<1>3. QED
  BY <1>1, <1>2 DEF Told

\* A call that returns tells its answer.
LEMMA ToldAnswer ==
  ASSUME TypeOK, NEW c \in Calls, Goto(c, "returned"),
         \A d \in Calls \ {c} : answer'[d] = answer[d]
  PROVE  Told' = [Told EXCEPT ![c] = answer'[c]]
<1>1. \A d \in Calls : d # c => pc'[d] = pc[d]
  BY DEF Goto, TypeOK
<1>2. pc'[c] = "returned"
  BY DEF Goto, TypeOK
<1>3. QED
  BY <1>1, <1>2 DEF Told

\* A key whose owner has not sent its code out is nobody's otherwise.
LEMMA NothingOut ==
  ASSUME LeaseInv, NEW c \in Calls, pc[c] \in {"undo", "execute"}
  PROVE  submitted = {} /\ Owner = c /\ Settled = None /\ Holds(c)
<1>1. lease = [call |-> c, status |-> "RUNNING"]
  BY DEF LeaseInv, OwnerInv, Holding
<1>2. lease # None
  BY <1>1, NoneIsFresh DEF Lease, LeaseStatus
<1>3. \A d \in Calls : d \in submitted \/ results[d] # None => d = c
  BY <1>1 DEF LeaseInv, TraceInv, Trace, Holds
<1>4. c \notin submitted /\ results[c] = None
  BY DEF LeaseInv, TraceInv, Trace, Early
<1>5. QED
  BY <1>1, <1>2, <1>3, <1>4 DEF Owner, Settled, Holds, LeaseInv, TypeOK

\* Every step is one of the promise, or changes nothing of it.
LEMMA StepKeepsPromise ==
  ASSUME LeaseInv, LeaseInv', Next
  PROVE  \/ Promise!Next
         \/ UNCHANGED <<Owner, submitted, Settled, Told>>
<1> DEFINE Same == UNCHANGED <<Owner, submitted, Settled, Told>>
<1>t. TypeOK /\ TypeOK'
  BY DEF LeaseInv
<1>o. /\ lease' = lease => Owner' = Owner
      /\ lease' = lease /\ results' = results => Settled' = Settled
      /\ pc' = pc /\ answer' = answer => Told' = Told
  BY DEF Owner, Settled, Told
<1>1. ASSUME NEW c \in Calls, InsertLease(c) \/ ReserveByMessage(c)
      PROVE  Promise!Claim(c) \/ Same
  <2>1. Told' = Told
    BY <1>1, <1>t, ToldStays DEF InsertLease, ReserveByMessage, CallStep, Ended
  <2>2. CASE lease' = lease
    BY <1>1, <2>1, <2>2, <1>o DEF InsertLease, ReserveByMessage
  <2>3. CASE lease = None /\ lease' = [call |-> c, status |-> "RUNNING"]
    <3>1. results[c] = None /\ results' = results /\ submitted' = submitted
      BY <1>1, <2>3 DEF InsertLease, ReserveByMessage, LeaseInv, TraceInv, Trace, Holds
    <3>2. lease' # None
      BY <2>3, NoneIsFresh DEF Lease, LeaseStatus
    <3>3. Owner = None /\ Owner' = c /\ Settled = None /\ Settled' = None
      BY <2>3, <3>1, <3>2 DEF Owner, Settled
    <3>4. QED
      BY <2>1, <3>1, <3>3 DEF Promise!Claim, Owner, Settled, Told
  <2>4. QED
    BY <1>1, <2>2, <2>3 DEF InsertLease, ReserveByMessage
<1>2. ASSUME NEW c \in Calls, UndoLease(c) PROVE Promise!GiveBack \/ Same
  <2>1. Told' = Told
    BY <1>2, <1>t, ToldStays DEF UndoLease, CallStep, Ended
  <2>2. CASE lease' = lease
    BY <1>2, <2>1, <2>2, <1>o DEF UndoLease
  <2>3. CASE lease' = None
    <3>1. submitted = {} /\ Settled = None
      BY <1>2, NothingOut DEF UndoLease
    <3>2. Owner' = None /\ Settled' = None
      BY <2>3 DEF Owner, Settled
    <3>3. QED
      BY <1>2, <2>1, <3>1, <3>2 DEF UndoLease, Promise!GiveBack, Owner, Settled, Told
  <2>4. QED
    BY <1>2, <2>2, <2>3 DEF UndoLease
<1>3. ASSUME NEW c \in Calls, Submit(c) PROVE Promise!Run
  <2>1. submitted = {} /\ Owner = c /\ Settled = None
    BY <1>3, NothingOut DEF Submit
  <2>2. Told' = Told
    BY <1>3, <1>t, ToldStays DEF Submit, CallStep, Ended
  <2>3. Owner' = Owner /\ Settled' = Settled /\ submitted' = {c}
    BY <1>3, <1>o, <2>1 DEF Submit, durableVars
  <2>4. QED
    BY <2>1, <2>2, <2>3, NoneIsFresh DEF Promise!Run, Owner, Settled, Told
\* A result stored for the owner of the key settles it.
<1>4. ASSUME NEW c \in Calls, Holds(c), results[c] = None, NEW outcome \in Outcome,
             results' = [results EXCEPT ![c] = outcome], UNCHANGED <<lease, submitted>>,
             Told' = Told
      PROVE  Promise!Settle(outcome)
  <2>1. Owner = c /\ Owner' = c /\ Settled = None /\ Settled' = outcome
    BY <1>4, <1>t DEF Owner, Settled, Holds, TypeOK
  <2>2. QED
    BY <1>4, <2>1, NoneIsFresh DEF Promise!Settle, Owner, Settled, Told
<1>5. ASSUME NEW c \in Calls, StoreResult(c)
      PROVE  (\E outcome \in Outcome : Promise!Settle(outcome)) \/ Same
  <2>1. Told' = Told
    BY <1>5, <1>t, ToldStays DEF StoreResult, CallStep, Ended
  <2>2. CASE results[c] = None
    <3>1. Holds(c)
      BY <1>5, NoneIsFresh DEF StoreResult, LeaseInv, OwnerInv, Holding, Holds, Lease, LeaseStatus
    <3>2. answer[c] \in Outcome
      BY <1>5, <1>t DEF StoreResult, LeaseInv, AnswerInv, TypeOK
    <3>3. QED
      BY <1>4, <1>5, <2>1, <2>2, <3>1, <3>2 DEF StoreResult
  <2>3. CASE results[c] # None
    <3>1. results' = results
      BY <1>5, <1>t, <2>3 DEF StoreResult, TypeOK
    <3>2. QED
      BY <1>5, <2>1, <3>1, <1>o DEF StoreResult
  <2>4. QED
    BY <2>2, <2>3
<1>6. CASE StoreFetched
  <2>1. Told' = Told
    BY <1>6, <1>o DEF StoreFetched, callVars
  <2>2. CASE results[fetched] = None
    <3>1. fetched \in Calls /\ remote[fetched] \in Outcome
      BY <1>6, <1>t DEF StoreFetched, LeaseInv, BackendInv, TypeOK
    <3>2. fetched \in submitted
      BY <3>1 DEF LeaseInv, BackendInv, Outcome
    <3>3. Holds(fetched)
      BY <3>1, <3>2 DEF LeaseInv, TraceInv, Trace
    <3>4. Promise!Settle(remote[fetched])
      BY <1>4, <1>6, <2>1, <2>2, <3>1, <3>3 DEF StoreFetched
    <3>5. QED
      BY <3>1, <3>4 DEF Promise!Next, Promise!Outcome, Outcome
  <2>3. CASE results[fetched] # None
    BY <1>6, <2>1, <2>3, <1>o DEF StoreFetched
  <2>4. QED
    BY <2>2, <2>3
\* A call that returns what is settled tells it.
<1>7. ASSUME NEW c \in Calls, Goto(c, "returned"), Settled # None, answer'[c] = Settled,
             \A d \in Calls \ {c} : answer'[d] = answer[d],
             Owner' = Owner, Settled' = Settled, submitted' = submitted
      PROVE  Promise!Tell(c)
  <2>1. Told' = [Told EXCEPT ![c] = Settled]
    BY <1>7, <1>t, ToldAnswer
  <2>2. QED
    BY <1>7, <2>1 DEF Promise!Tell, Owner, Settled, Told
<1>8. ASSUME NEW c \in Calls, ReuseResult(c) PROVE Promise!Tell(c) \/ Same
  <2>1. seen[c] = lease.call /\ lease # None /\ results[lease.call] # None
    BY <1>8 DEF ReuseResult, LeaseInv, OwnerInv, AnswerInv, Completed
  <2>2. Settled # None /\ answer'[c] = Settled /\ Goto(c, "returned")
    BY <1>8, <1>t, <2>1 DEF ReuseResult, Settled, TypeOK
  <2>3. \A d \in Calls \ {c} : answer'[d] = answer[d]
    BY <1>8, <1>t DEF ReuseResult, TypeOK
  <2>4. QED
    BY <1>7, <1>8, <1>o, <2>2, <2>3 DEF ReuseResult, durableVars
<1>9. ASSUME NEW c \in Calls, CompleteLease(c) \/ AuditCompletion(c)
      PROVE  Promise!Tell(c) \/ Same
  <2>1. lease # None /\ lease.call = c /\ lease \in Lease
    BY <1>9, <1>t, NoneIsFresh
       DEF CompleteLease, AuditCompletion, LeaseInv, OwnerInv, Holds, TypeOK, Lease, LeaseStatus
  <2>2. lease' # None /\ lease'.call = c /\ results' = results /\ submitted' = submitted
    BY <1>9, <2>1, NoneIsFresh DEF CompleteLease, AuditCompletion, Lease, LeaseStatus
  <2>3. Owner' = Owner /\ Settled' = Settled /\ Settled = results[c]
    BY <2>1, <2>2 DEF Owner, Settled
  <2>4. answer' = answer /\ answer[c] = results[c] /\ results[c] # None
    BY <1>9 DEF CompleteLease, AuditCompletion, LeaseInv, AnswerInv
  <2>5. CASE Goto(c, "returned")
    BY <1>7, <2>2, <2>3, <2>4, <2>5
  <2>6. CASE Goto(c, "auditCompletion") /\ pc[c] = "complete"
    BY <1>t, <2>2, <2>3, <2>4, <2>6, ToldStays DEF CallStep, Ended
  <2>7. QED
    BY <1>9, <2>5, <2>6 DEF CompleteLease, AuditCompletion
\* The steps the promise does not see.
<1>10. ASSUME NEW c \in Calls,
              \/ ReadConflict(c) \/ AuditReservation(c) \/ AuditRaises(c)
              \/ Decline(c) \/ Reply(c) \/ GiveUp(c) \/ Stop(c)
       PROVE  Same
  <2>1. /\ pc[c] # "returned"
        /\ \E step \in CallStep \ {"returned"} : Goto(c, step)
    BY <1>10 DEF ReadConflict, AuditReservation, AuditRaises, Decline, Reply, GiveUp, Stop,
       CallStep, Ended
  <2>2. \A d \in Calls \ {c} : answer'[d] = answer[d]
    BY <1>10, <1>t DEF ReadConflict, AuditReservation, AuditRaises, Decline, Reply, GiveUp,
       Stop, TypeOK
  <2>3. Told' = Told
    BY <1>t, <2>1, <2>2, ToldStays
  <2>4. QED
    BY <1>10, <1>o, <2>3 DEF ReadConflict, AuditReservation, AuditRaises, Decline, Reply,
       GiveUp, Stop, durableVars
<1>11. ASSUME \/ \E c \in Calls : ServerNext(c)
              \/ AskBackend \/ DropFetched
       PROVE  Same
  BY <1>11, <1>o DEF ServerNext, LoseRequest, Serve, ServerFails, ServerCompletes, AskBackend,
     DropFetched, durableVars, callVars
<1>12. QED
  <2>1. CASE \E c \in Calls : CallNext(c)
    BY <2>1, <1>1, <1>2, <1>3, <1>5, <1>8, <1>9, <1>10
       DEF CallNext, Promise!Next, Promise!Outcome, Outcome
  <2>2. QED
    BY <2>1, <1>6, <1>11 DEF Next

\* The lease keeps its promise: the specification implements ExecuteOnce.
THEOREM LeaseImplementsExecuteOnce == Spec => KeepsPromise
<1>1. Init => Promise!Init
  BY DEF Init, Promise!Init
<1>2. LeaseInv /\ LeaseInv' /\ [Next]_vars => [Promise!Next]_<<Owner, submitted, Settled, Told>>
  <2> SUFFICES ASSUME LeaseInv, LeaseInv', [Next]_vars
               PROVE  Promise!Next \/ UNCHANGED <<Owner, submitted, Settled, Told>>
    OBVIOUS
  <2>1. CASE Next
    BY <2>1, StepKeepsPromise
  <2>2. CASE UNCHANGED vars
    BY <2>2 DEF vars, durableVars, callVars, Owner, Settled, Told
  <2>3. QED
    BY <2>1, <2>2
<1>3. LeaseInv /\ LeaseInv' /\ [Next]_vars => [Promise!Next]_Promise!promiseVars
  BY <1>2 DEF Promise!promiseVars, Owner, Settled, Told
<1>4. QED
  BY <1>1, <1>3, LeaseInvariance, PTL DEF Spec, KeepsPromise, Promise!Spec

-------------------------------------------------------------------------------
(* The server.                                                             *)

Record(c) ==
  IF remote[c] = "absent" THEN None
  ELSE [key |-> "key", outcome |-> IF remote[c] = "running" THEN None ELSE remote[c]]

\* Every step of a call or of the server is one of the records, or leaves them
\* alone.
LEMMA StepKeepsRecords ==
  ASSUME LeaseInv, Next
  PROVE  Server!Next \/ UNCHANGED <<remote, serving>>
<1>t. remote \in [Calls -> {"absent", "running"} \cup Outcome]
  BY DEF LeaseInv, TypeOK
<1>n. \A c \in Calls : remote[c] # "absent" => Record(c) # None
  <2>1. \A c \in Calls : remote[c] # "absent" => Record(c) \in ServerRecord
    BY <1>t DEF Record, ServerRecord
  <2>2. QED
    BY <2>1, NoneIsFresh
<1>1. ASSUME NEW c \in Calls, Serve(c)
      PROVE  Server!Admit(c, "key") \/ UNCHANGED <<remote, serving>>
  <2>1. CASE \A d \in Calls : remote[d] = "absent"
    <3>1. remote' = [remote EXCEPT ![c] = "running"] /\ serving' = serving \cup {c}
      BY <1>1, <2>1 DEF Serve
    <3>2. \A d \in Calls : Record(d) = None
      BY <2>1 DEF Record
    <3>3. [d \in Calls |-> Record(d)]' =
            [[d \in Calls |-> Record(d)] EXCEPT ![c] = [key |-> "key", outcome |-> None]]
      BY <1>t, <3>1 DEF Record
    <3>4. QED
      BY <3>1, <3>2, <3>3 DEF Server!Admit, Record
  <2>2. CASE ~ \A d \in Calls : remote[d] = "absent"
    BY <1>1, <2>2 DEF Serve
  <2>3. QED
    BY <2>1, <2>2
<1>2. ASSUME NEW c \in Calls, NEW outcome \in Outcome, ServerCompletes(c, outcome)
      PROVE  Server!Finish(c, outcome)
  <2>1. /\ c \in serving /\ serving' = serving \ {c}
        /\ remote[c] = "running" /\ remote' = [remote EXCEPT ![c] = outcome]
    BY <1>2 DEF ServerCompletes, LeaseInv, BackendInv
  <2>2. outcome \notin {"absent", "running"}
    BY DEF Outcome
  <2>3. [d \in Calls |-> Record(d)]' =
          [[d \in Calls |-> Record(d)] EXCEPT ![c].outcome = outcome]
    BY <1>t, <2>1, <2>2 DEF Record
  <2>4. QED
    BY <2>1, <2>3 DEF Server!Finish, Record
<1>3. ASSUME NEW c \in Calls, ServerFails(c) PROVE Server!Lose(c)
  BY <1>3 DEF ServerFails, Server!Lose
<1>4. ASSUME NEW c \in Calls, CallNext(c) \/ LoseRequest(c) PROVE UNCHANGED <<remote, serving>>
  BY <1>4 DEF CallNext, LoseRequest, InsertLease, ReadConflict, AuditReservation, AuditRaises,
     UndoLease, ReserveByMessage, ReuseResult, Decline, Submit, Reply, GiveUp, StoreResult,
     CompleteLease, AuditCompletion, Stop, serverVars
<1>5. CASE AskBackend \/ StoreFetched \/ DropFetched
  BY <1>5 DEF AskBackend, StoreFetched, DropFetched, serverVars
<1>6. QED
  BY <1>1, <1>2, <1>3, <1>4, <1>5 DEF Next, ServerNext, Server!Next

\* The server that the calls are modelled with keeps the records that
\* ColabService implements: it may stand in for that server.
THEOREM LeaseUsesRecords == Spec => ServerKeepsRecords
<1>1. Init => Server!Init
  BY DEF Init, Server!Init
<1>2. LeaseInv /\ [Next]_vars => [Server!Next]_Server!recordVars
  <2> SUFFICES ASSUME LeaseInv, [Next]_vars
               PROVE  Server!Next \/ UNCHANGED Server!recordVars
    OBVIOUS
  <2>1. UNCHANGED <<remote, serving>> => UNCHANGED Server!recordVars
    BY DEF Server!recordVars
  <2>2. UNCHANGED vars => UNCHANGED <<remote, serving>>
    BY DEF vars, serverVars
  <2>3. QED
    BY <2>1, <2>2, StepKeepsRecords
<1>3. QED
  BY <1>1, <1>2, LeaseInvariance, PTL DEF Spec, ServerKeepsRecords, Server!Spec
===============================================================================

------------------------- MODULE WorkerDispatch_proofs -------------------------
(* Proofs about WorkerDispatch: its batches and its verdict are right for  *)
(* every plan, of any size.                                                *)
EXTENDS WorkerDispatch, FiniteSetTheorems, SequenceTheorems, TLAPS

\* The counts: what is left are the dependencies not yet dispatched.
CountInv ==
  \A v \in Workers : indegree[v] = Cardinality(Occurrences(v, Workers \ dispatched))

\* The queues: who is in which.
QueueInv ==
  /\ \A v \in Workers : v \in Range(ready) <=> batch[v] = 0 /\ indegree[v] = 0
  /\ \A v \in Workers : batch[v] # 0 <=> v \in dispatched \cup Range(current)
  /\ \A v \in Range(current) : v \notin dispatched /\ batch[v] = sequence
  /\ IsInjective(ready)
  /\ IsInjective(current)

\* The batches: they are numbered as they are emitted, and only workers that
\* wait for nothing are in one.
BatchInv ==
  /\ \A v \in Workers : batch[v] <= sequence
  /\ \A v \in Workers : batch[v] # 0 => indegree[v] = 0
  /\ DependenciesFirst
  /\ NoNeedlessWait
  /\ \A v \in Range(ready) :
       sequence > 0 => \E w \in Workers : DependsOn(v, w) /\ batch[w] = sequence

\* Workers that wait for each other are never dispatched.
StuckInv == \A S \in SUBSET Workers : Stuck(S) => S \cap dispatched = {}

DispatchInv == TypeOK /\ CountInv /\ QueueInv /\ BatchInv /\ StuckInv /\ VerdictIsRight

-------------------------------------------------------------------------------
(* Counting dependencies.                                                  *)

\* A worker names finitely many others, by position.
LEMMA DependencySequence ==
  ASSUME dependencies \in ValidDependencies, NEW v \in Workers
  PROVE  /\ dependencies[v] \in Seq(Workers)
         /\ DOMAIN dependencies[v] = 1..Len(dependencies[v])
         /\ v \notin Range(dependencies[v])
<1>1. PICK n \in 0..MaxDependencies : dependencies[v] \in [1..n -> Workers]
  BY WorkersAssumption DEF ValidDependencies
<1>2. n \in Nat
  BY WorkersAssumption
<1>3. QED
  BY <1>1, <1>2 DEF ValidDependencies

\* So the positions can be counted.
LEMMA OccurrencesAreFinite ==
  ASSUME dependencies \in ValidDependencies, NEW v \in Workers, NEW S
  PROVE  IsFiniteSet(Occurrences(v, S)) /\ Cardinality(Occurrences(v, S)) \in Nat
<1>1. Len(dependencies[v]) \in Nat
  BY DependencySequence
<1>2. IsFiniteSet(1..Len(dependencies[v]))
  BY <1>1, FS_Interval
<1>3. Occurrences(v, S) \in SUBSET (1..Len(dependencies[v]))
  BY DependencySequence DEF Occurrences
<1>4. QED
  BY <1>2, <1>3, FS_Subset, FS_CardinalityType

\* Nothing is counted exactly where nothing is named.
LEMMA NoOccurrence ==
  ASSUME dependencies \in ValidDependencies, NEW v \in Workers, NEW S \in SUBSET Workers
  PROVE  Cardinality(Occurrences(v, S)) = 0 <=> \A w \in S : ~DependsOn(v, w)
<1>1. Cardinality(Occurrences(v, S)) = 0 <=> Occurrences(v, S) = {}
  BY OccurrencesAreFinite, FS_EmptySet
<1>2. QED
  BY <1>1 DEF Occurrences, DependsOn, Range

\* Dispatching one more worker takes its occurrences out of the count.
LEMMA CountDown ==
  ASSUME dependencies \in ValidDependencies, NEW v \in Workers, NEW w \in Workers,
         NEW D \in SUBSET Workers, w \notin D
  PROVE  /\ Cardinality(Occurrences(v, Workers \ (D \cup {w})))
              = Cardinality(Occurrences(v, Workers \ D)) - Cardinality(Occurrences(v, {w}))
         /\ Cardinality(Occurrences(v, Workers \ (D \cup {w}))) \in Nat
<1>1. Occurrences(v, Workers \ (D \cup {w}))
        = Occurrences(v, Workers \ D) \ Occurrences(v, {w})
  BY DEF Occurrences
<1>2. Occurrences(v, Workers \ D) \cap Occurrences(v, {w}) = Occurrences(v, {w})
  BY DEF Occurrences
<1>3. IsFiniteSet(Occurrences(v, Workers \ D))
  BY OccurrencesAreFinite
<1>4. Cardinality(Occurrences(v, Workers \ D) \ Occurrences(v, {w}))
        = Cardinality(Occurrences(v, Workers \ D))
            - Cardinality(Occurrences(v, Workers \ D) \cap Occurrences(v, {w}))
  BY <1>3, FS_Difference
<1>5. QED
  BY <1>1, <1>2, <1>4, OccurrencesAreFinite

\* A worker waits for nothing exactly when all it names is dispatched.
LEMMA WaitsForNothing ==
  ASSUME TypeOK, CountInv, NEW v \in Workers
  PROVE  indegree[v] = 0 <=> \A w \in Workers : DependsOn(v, w) => w \in dispatched
BY NoOccurrence DEF TypeOK, CountInv

-------------------------------------------------------------------------------
(* Sequences without repetition.                                           *)

\* What InOrder gives is a sequence of exactly the elements asked for.
LEMMA InOrderIsASequence ==
  ASSUME NEW S \in SUBSET Workers, NEW key \in [Workers -> Nat], NEW s \in InOrder(S, key)
  PROVE  s \in Seq(Workers) /\ Range(s) = S /\ IsInjective(s)
<1>1. IsFiniteSet(S) /\ Cardinality(S) \in Nat
  BY WorkersAssumption, FS_Subset, FS_CardinalityType
<1>2. s \in Seq(Workers) /\ Range(s) = S /\ DOMAIN s = 1..Cardinality(S)
  BY <1>1 DEF InOrder
<1>3. ASSUME NEW i \in DOMAIN s, NEW j \in DOMAIN s, s[i] = s[j] PROVE i = j
  <2>1. key[s[i]] \in Nat /\ i \in Nat /\ j \in Nat
    BY <1>1, <1>2 DEF Range
  <2>2. ~(i < j) /\ ~(j < i)
    BY <1>3, <2>1 DEF InOrder
  <2>3. QED
    BY <2>1, <2>2
<1>4. QED
  BY <1>2, <1>3 DEF IsInjective

\* Joining two such sequences of different elements gives another.
LEMMA JoinedWithoutRepetition ==
  ASSUME NEW s \in Seq(Workers), NEW t \in Seq(Workers), IsInjective(s), IsInjective(t),
         Range(s) \cap Range(t) = {}
  PROVE  IsInjective(s \o t)
<1>1. /\ s \o t \in Seq(Workers)
      /\ Len(s \o t) = Len(s) + Len(t)
      /\ \A i \in 1..Len(s) : (s \o t)[i] = s[i]
      /\ \A i \in 1..Len(t) : (s \o t)[Len(s) + i] = t[i]
  BY ConcatProperties
<1>2. Len(s) \in Nat /\ Len(t) \in Nat
  OBVIOUS
<1>3. ASSUME NEW i \in 1..(Len(s) + Len(t)), NEW j \in 1..(Len(s) + Len(t)),
             (s \o t)[i] = (s \o t)[j]
      PROVE  i = j
  <2>1. CASE i <= Len(s) /\ j <= Len(s)
    <3>1. i \in DOMAIN s /\ j \in DOMAIN s /\ s[i] = s[j]
      BY <1>1, <1>2, <1>3, <2>1
    <3>2. QED
      BY <3>1 DEF IsInjective
  <2>2. CASE i > Len(s) /\ j > Len(s)
    <3>1. i - Len(s) \in DOMAIN t /\ j - Len(s) \in DOMAIN t
      BY <1>2, <2>2
    <3>2. t[i - Len(s)] = t[j - Len(s)]
      <4>1. (s \o t)[Len(s) + (i - Len(s))] = t[i - Len(s)]
        BY <1>1, <3>1
      <4>2. (s \o t)[Len(s) + (j - Len(s))] = t[j - Len(s)]
        BY <1>1, <3>1
      <4>3. Len(s) + (i - Len(s)) = i /\ Len(s) + (j - Len(s)) = j
        BY <1>2
      <4>4. QED
        BY <1>3, <4>1, <4>2, <4>3
    <3>3. i - Len(s) = j - Len(s)
      BY <3>1, <3>2 DEF IsInjective
    <3>4. QED
      BY <1>2, <3>3
  <2>3. ASSUME NEW a \in 1..Len(s), NEW b \in 1..(Len(s) + Len(t)), b > Len(s),
               (s \o t)[a] = (s \o t)[b]
        PROVE  FALSE
    <3>1. s[a] \in Range(s) /\ (s \o t)[a] = s[a]
      BY <1>1, <1>2 DEF Range
    <3>2. b - Len(s) \in 1..Len(t) /\ Len(s) + (b - Len(s)) = b
      BY <1>2, <2>3
    <3>3. t[b - Len(s)] \in Range(t)
      BY <3>2 DEF Range
    <3>4. (s \o t)[Len(s) + (b - Len(s))] = t[b - Len(s)]
      BY <1>1, <3>2
    <3>5. QED
      BY <2>3, <3>1, <3>2, <3>3, <3>4
  <2>4. CASE i <= Len(s) /\ j > Len(s)
    BY <1>2, <1>3, <2>4, <2>3
  <2>5. CASE i > Len(s) /\ j <= Len(s)
    BY <1>2, <1>3, <2>5, <2>3
  <2>6. QED
    BY <1>2, <2>1, <2>2, <2>4, <2>5
<1>4. DOMAIN (s \o t) = 1..(Len(s) + Len(t))
  BY <1>1
<1>5. QED
  BY <1>3, <1>4 DEF IsInjective

\* Taking the first element out of such a sequence.
LEMMA HeadOutOfQueue ==
  ASSUME NEW s \in Seq(Workers), s # <<>>, IsInjective(s)
  PROVE  /\ Head(s) \in Range(s)
         /\ Tail(s) \in Seq(Workers)
         /\ Range(Tail(s)) = Range(s) \ {Head(s)}
         /\ IsInjective(Tail(s))
<1>1. /\ Len(s) \in Nat \ {0} /\ DOMAIN s = 1..Len(s) /\ Head(s) = s[1]
      /\ Tail(s) \in Seq(Workers)
      /\ DOMAIN Tail(s) = 1..(Len(s) - 1)
      /\ \A i \in 1..(Len(s) - 1) : Tail(s)[i] = s[i + 1]
  BY HeadTailProperties
<1>2. Head(s) \in Range(s)
  BY <1>1 DEF Range
<1>3. ASSUME NEW v \in Range(Tail(s)) PROVE v \in Range(s) /\ v # Head(s)
  <2>1. PICK i \in 1..(Len(s) - 1) : v = s[i + 1]
    BY <1>1 DEF Range
  <2>2. i + 1 \in DOMAIN s /\ 1 \in DOMAIN s /\ i + 1 # 1
    BY <1>1
  <2>3. QED
    BY <1>1, <2>1, <2>2 DEF Range, IsInjective
<1>4. ASSUME NEW v \in Range(s), v # Head(s) PROVE v \in Range(Tail(s))
  <2>1. PICK i \in 1..Len(s) : v = s[i]
    BY <1>1 DEF Range
  <2>2. i # 1 /\ i \in Nat /\ i - 1 \in 1..(Len(s) - 1) /\ (i - 1) + 1 = i
    BY <1>1, <1>4, <2>1
  <2>3. Tail(s)[i - 1] = v
    BY <1>1, <2>1, <2>2
  <2>4. QED
    BY <1>1, <2>2, <2>3 DEF Range
<1>5. IsInjective(Tail(s))
  <2>1. SUFFICES ASSUME NEW i \in 1..(Len(s) - 1), NEW j \in 1..(Len(s) - 1),
                        s[i + 1] = s[j + 1]
                 PROVE  i = j
    BY <1>1 DEF IsInjective
  <2>2. i + 1 \in DOMAIN s /\ j + 1 \in DOMAIN s
    BY <1>1
  <2>3. i + 1 = j + 1
    BY <2>1, <2>2 DEF IsInjective
  <2>4. QED
    BY <1>1, <2>3
<1>6. QED
  BY <1>1, <1>2, <1>3, <1>4, <1>5

-------------------------------------------------------------------------------
(* The invariant holds at the start.                                       *)

\* The queue starts with the workers that name nobody.
LEMMA DispatchInit == Init => DispatchInv
<1> SUFFICES ASSUME Init PROVE DispatchInv
  OBVIOUS
<1>1. \A v \in Workers : indegree[v] = Len(dependencies[v]) /\ Len(dependencies[v]) \in Nat
  BY DependencySequence DEF Init, Indegree
<1>2. indegree \in [Workers -> Nat]
  BY <1>1 DEF Init, Indegree
<1>3. /\ ready \in Seq(Workers)
      /\ Range(ready) = {w \in Workers : indegree[w] = 0}
      /\ IsInjective(ready)
  <2>1. [w \in Workers |-> w] \in [Workers -> Nat]
    BY WorkersAssumption
  <2>2. QED
    BY <2>1, InOrderIsASequence DEF Init
<1>4. Range(current) = {} /\ IsInjective(current) /\ current \in Seq(Workers)
  BY DEF Init, Range, IsInjective
<1>5. TypeOK
  BY <1>2, <1>3, <1>4 DEF Init, TypeOK
<1>6. CountInv
  <2>1. SUFFICES ASSUME NEW v \in Workers
                 PROVE  indegree[v] = Cardinality(Occurrences(v, Workers \ dispatched))
    BY DEF CountInv
  <2>2. Occurrences(v, Workers \ dispatched) = 1..Len(dependencies[v])
    BY DependencySequence DEF Init, Occurrences
  <2>3. Cardinality(1..Len(dependencies[v])) = Len(dependencies[v])
    BY <1>1, FS_Interval
  <2>4. QED
    BY <1>1, <2>2, <2>3
<1>7. QueueInv
  BY <1>3, <1>4 DEF Init, QueueInv
<1>8. BatchInv /\ StuckInv /\ VerdictIsRight
  BY DEF Init, BatchInv, DependenciesFirst, NoNeedlessWait, StuckInv, VerdictIsRight
<1>9. QED
  BY <1>5, <1>6, <1>7, <1>8 DEF DispatchInv

-------------------------------------------------------------------------------
(* The next batch.                                                         *)

\* A batch is emitted: all of it waits for nothing any more.
LEMMA TakeBatchKeeps ==
  ASSUME DispatchInv, TakeBatch
  PROVE  DispatchInv'
<1> USE DEF DispatchInv
<1>1. /\ ready' = <<>> /\ current' = ready /\ current = <<>>
      /\ Range(current) = {} /\ Range(ready') = {} /\ IsInjective(ready')
      /\ sequence' = sequence + 1 /\ sequence \in Nat
      /\ UNCHANGED <<dependencies, place, indegree, dispatched, verdict>>
  BY DEF TakeBatch, TypeOK, planVars, Range, IsInjective
<1>2. \A w \in Workers :
        batch'[w] = IF w \in Range(ready) THEN sequence + 1 ELSE batch[w]
  BY DEF TakeBatch
<1>3. TypeOK'
  <2>1. batch' \in [Workers -> Nat]
    BY <1>1 DEF TakeBatch, TypeOK
  <2>2. QED
    BY <1>1, <2>1 DEF TypeOK
<1>4. CountInv'
  BY <1>1 DEF CountInv, Occurrences
<1>r. \A v \in Range(ready) : v \in Workers /\ batch[v] = 0 /\ indegree[v] = 0
  BY RangeOfSeq DEF QueueInv, TypeOK
<1>b. \A w \in Workers : batch[w] \in 0..sequence
  BY DEF BatchInv, TypeOK
<1>5. QueueInv'
  BY <1>1, <1>2, <1>r, <1>b DEF QueueInv, TypeOK
<1>d. \A v \in Workers : indegree[v] = 0 => \A w \in Workers : DependsOn(v, w) => batch[w] \in 1..sequence
  BY <1>b, WaitsForNothing DEF QueueInv
<1>6. DependenciesFirst'
  <2>1. SUFFICES ASSUME NEW v \in Workers, NEW w \in Workers, DependsOn(v, w), batch'[v] # 0
                 PROVE  batch'[w] \in 1..(batch'[v] - 1)
    BY <1>1 DEF DependenciesFirst, DependsOn
  <2>2. CASE v \in Range(ready)
    BY <1>1, <1>2, <1>r, <1>d, <2>1, <2>2
  <2>3. CASE v \notin Range(ready)
    <3>1. batch[v] # 0 /\ batch'[v] = batch[v] /\ batch[v] \in Nat
      BY <1>2, <2>1, <2>3 DEF TypeOK
    <3>2. batch[w] \in 1..(batch[v] - 1)
      BY <2>1, <3>1 DEF BatchInv, DependenciesFirst
    <3>3. QED
      BY <1>2, <1>r, <3>1, <3>2
  <2>4. QED
    BY <2>2, <2>3
<1>7. NoNeedlessWait'
  <2>1. SUFFICES ASSUME NEW v \in Workers, batch'[v] > 1
                 PROVE  \E w \in Workers : DependsOn(v, w) /\ batch'[w] = batch'[v] - 1
    BY <1>1 DEF NoNeedlessWait, DependsOn
  <2>2. CASE v \in Range(ready)
    <3>1. batch'[v] = sequence + 1 /\ sequence > 0
      BY <1>1, <1>2, <2>1, <2>2
    <3>2. PICK w \in Workers : DependsOn(v, w) /\ batch[w] = sequence
      BY <2>2, <3>1 DEF BatchInv
    <3>3. batch'[w] = sequence
      BY <1>2, <1>r, <3>1, <3>2
    <3>4. QED
      BY <1>1, <3>1, <3>2, <3>3
  <2>3. CASE v \notin Range(ready)
    <3>1. batch'[v] = batch[v] /\ batch[v] \in Nat
      BY <1>2, <2>3 DEF TypeOK
    <3>2. PICK w \in Workers : DependsOn(v, w) /\ batch[w] = batch[v] - 1
      BY <2>1, <3>1 DEF BatchInv, NoNeedlessWait
    <3>3. batch'[w] = batch[w]
      BY <1>2, <1>r, <2>1, <3>1, <3>2
    <3>4. QED
      BY <3>1, <3>2, <3>3
  <2>4. QED
    BY <2>2, <2>3
<1>8. BatchInv'
  BY <1>1, <1>2, <1>r, <1>b, <1>6, <1>7 DEF BatchInv
<1>9. StuckInv' /\ VerdictIsRight'
  BY <1>1 DEF StuckInv, VerdictIsRight, Stuck, DependsOn
<1>10. QED
  BY <1>3, <1>4, <1>5, <1>8, <1>9

-------------------------------------------------------------------------------
(* The dependents of one worker.                                           *)

\* A worker of the batch is dispatched: the counts, the queue and the rest of
\* the batch stay what they mean.
LEMMA DispatchKeeps ==
  ASSUME DispatchInv, Dispatch
  PROVE  DispatchInv'
<1> USE DEF DispatchInv
<1> DEFINE w == Head(current)
           Count(v) == Cardinality(Occurrences(v, {w}))
<1>1. /\ current \in Seq(Workers) /\ current # <<>> /\ IsInjective(current)
      /\ current' = Tail(current)
      /\ dispatched' = dispatched \cup {w}
      /\ UNCHANGED <<dependencies, place, batch, sequence, verdict>>
  BY DEF Dispatch, TypeOK, QueueInv, planVars
<1>2. /\ w \in Range(current) /\ w \in Workers /\ w \notin dispatched
      /\ batch[w] = sequence /\ batch[w] # 0
      /\ current' \in Seq(Workers) /\ IsInjective(current')
      /\ Range(current') = Range(current) \ {w}
  BY <1>1, HeadOutOfQueue, RangeOfSeq DEF QueueInv
<1>3. \A v \in Workers : indegree'[v] = indegree[v] - Count(v)
  BY DEF Dispatch
<1>4. \A v \in Workers : Count(v) \in Nat /\ (Count(v) = 0 <=> ~DependsOn(v, w))
  <2>1. SUFFICES ASSUME NEW v \in Workers
                 PROVE  Count(v) \in Nat /\ (Count(v) = 0 <=> ~DependsOn(v, w))
    OBVIOUS
  <2>2. {w} \in SUBSET Workers /\ dependencies \in ValidDependencies
    BY <1>2 DEF TypeOK
  <2>3. Count(v) \in Nat
    BY <2>2, OccurrencesAreFinite
  <2>4. Count(v) = 0 <=> \A u \in {w} : ~DependsOn(v, u)
    BY <2>2, NoOccurrence
  <2>5. QED
    BY <2>3, <2>4
<1>5. \A v \in Workers :
        /\ indegree'[v] = Cardinality(Occurrences(v, Workers \ dispatched'))
        /\ indegree'[v] \in Nat
  <2>1. SUFFICES ASSUME NEW v \in Workers
                 PROVE  /\ indegree'[v] = Cardinality(Occurrences(v, Workers \ dispatched'))
                        /\ indegree'[v] \in Nat
    OBVIOUS
  <2>2. dependencies \in ValidDependencies /\ dispatched \in SUBSET Workers
    BY DEF TypeOK
  <2>3. /\ Cardinality(Occurrences(v, Workers \ (dispatched \cup {w})))
              = Cardinality(Occurrences(v, Workers \ dispatched)) - Count(v)
        /\ Cardinality(Occurrences(v, Workers \ (dispatched \cup {w}))) \in Nat
    BY <1>2, <2>2, CountDown
  <2>4. QED
    BY <1>1, <1>3, <2>3 DEF CountInv
<1>c. CountInv'
  BY <1>1, <1>5 DEF CountInv, Occurrences
<1>6. PICK new \in InOrder(Unblocked(w), place) : ready' = ready \o new
  BY DEF Dispatch
<1>7. new \in Seq(Workers) /\ Range(new) = Unblocked(w) /\ IsInjective(new)
  <2>1. Unblocked(w) \in SUBSET Workers /\ place \in [Workers -> Nat]
    BY WorkersAssumption DEF Unblocked, TypeOK
  <2>2. QED
    BY <1>6, <2>1, InOrderIsASequence
\* Who is unblocked now was waiting for w and for nobody else.
<1>8. \A v \in Unblocked(w) :
        v \in Workers /\ DependsOn(v, w) /\ batch[v] = 0 /\ indegree[v] # 0 /\ indegree'[v] = 0
  <2>1. SUFFICES ASSUME NEW v \in Unblocked(w)
                 PROVE  /\ v \in Workers /\ DependsOn(v, w) /\ batch[v] = 0
                        /\ indegree[v] # 0 /\ indegree'[v] = 0
    OBVIOUS
  <2>2. v \in Workers /\ DependsOn(v, w) /\ indegree[v] = Count(v)
    BY DEF Unblocked
  <2>3. Count(v) \in Nat /\ Count(v) # 0 /\ indegree'[v] = indegree[v] - Count(v)
    BY <1>3, <1>4, <2>2
  <2>4. QED
    BY <2>2, <2>3 DEF BatchInv
<1>9. /\ ready' \in Seq(Workers)
      /\ Range(ready') = Range(ready) \cup Unblocked(w)
  BY <1>6, <1>7, RangeConcatenation DEF TypeOK
<1>10. TypeOK'
  <2>1. indegree' \in [Workers -> Nat]
    BY <1>5 DEF Dispatch
  <2>2. QED
    BY <1>1, <1>2, <1>9, <2>1 DEF TypeOK
<1>11. \A v \in Workers : v \in Range(ready') <=> batch'[v] = 0 /\ indegree'[v] = 0
  <2>1. SUFFICES ASSUME NEW v \in Workers
                 PROVE  v \in Range(ready') <=> batch[v] = 0 /\ indegree'[v] = 0
    BY <1>1
  <2>2. indegree'[v] = indegree[v] - Count(v) /\ indegree'[v] \in Nat /\ indegree[v] \in Nat
    BY <1>3, <1>5 DEF TypeOK
  <2>3. v \in Range(ready) => batch[v] = 0 /\ indegree'[v] = 0
    BY <1>4, <2>2 DEF QueueInv
  <2>4. batch[v] = 0 /\ indegree'[v] = 0 => v \in Range(ready) \cup Unblocked(w)
    <3>1. SUFFICES ASSUME batch[v] = 0, indegree'[v] = 0, v \notin Range(ready)
                   PROVE  v \in Unblocked(w)
      OBVIOUS
    <3>2. indegree[v] # 0 /\ indegree[v] = Count(v)
      BY <1>4, <2>2, <3>1 DEF QueueInv
    <3>3. DependsOn(v, w)
      BY <1>4, <3>2
    <3>4. QED
      BY <3>2, <3>3 DEF Unblocked
  <2>5. QED
    BY <1>8, <1>9, <2>3, <2>4
<1>12. QueueInv'
  <2>1. Range(ready) \cap Range(new) = {}
    BY <1>7, <1>8 DEF QueueInv
  <2>2. IsInjective(ready')
    BY <1>6, <1>7, <2>1, JoinedWithoutRepetition DEF QueueInv, TypeOK
  <2>3. QED
    BY <1>1, <1>2, <1>11, <2>2 DEF QueueInv
<1>13. BatchInv'
  <2>1. \A v \in Workers : batch'[v] # 0 => indegree'[v] = 0
    <3>1. SUFFICES ASSUME NEW v \in Workers, batch[v] # 0 PROVE indegree'[v] = 0
      BY <1>1
    <3>2. /\ indegree'[v] = indegree[v] - Count(v) /\ indegree'[v] \in Nat
          /\ Count(v) \in Nat /\ indegree[v] = 0
      BY <1>3, <1>4, <1>5, <3>1 DEF BatchInv
    <3>3. QED
      BY <3>2
  <2>2. DependenciesFirst' /\ NoNeedlessWait'
    BY <1>1 DEF BatchInv, DependenciesFirst, NoNeedlessWait, DependsOn
  <2>3. \A v \in Range(ready') :
          sequence > 0 => \E d \in Workers : DependsOn(v, d) /\ batch[d] = sequence
    BY <1>2, <1>8, <1>9 DEF BatchInv
  <2>4. QED
    BY <1>1, <2>1, <2>2, <2>3 DEF BatchInv, DependsOn
\* What w depends on was dispatched before it, so w is in no stuck set.
<1>14. StuckInv'
  <2>1. SUFFICES ASSUME NEW S \in SUBSET Workers, Stuck(S) PROVE S \cap dispatched' = {}
    BY <1>1 DEF StuckInv, Stuck, DependsOn
  <2>2. S \cap dispatched = {}
    BY <2>1 DEF StuckInv
  <2>3. indegree[w] = 0
    BY <1>2 DEF BatchInv
  <2>4. w \notin S
    BY <1>2, <2>1, <2>2, <2>3, WaitsForNothing DEF Stuck
  <2>5. QED
    BY <1>1, <2>2, <2>4
<1>15. VerdictIsRight'
  BY <1>1 DEF VerdictIsRight, Stuck, DependsOn
<1>16. QED
  BY <1>c, <1>10, <1>12, <1>13, <1>14, <1>15

-------------------------------------------------------------------------------
(* The verdict.                                                            *)

\* Workers left over when nothing is ready wait for each other.
LEMMA FinishKeeps ==
  ASSUME DispatchInv, Finish
  PROVE  DispatchInv'
<1> USE DEF DispatchInv
<1>1. /\ ready = <<>> /\ current = <<>> /\ Range(ready) = {} /\ Range(current) = {}
      /\ UNCHANGED <<dependencies, place, indegree, ready, current, dispatched, batch, sequence>>
      /\ verdict' = IF dispatched = Workers THEN "planned" ELSE "cycle"
  BY DEF Finish, planVars, Range
<1>2. TypeOK' /\ CountInv' /\ QueueInv' /\ StuckInv'
  <2>1. TypeOK'
    BY <1>1 DEF TypeOK
  <2>2. CountInv'
    BY <1>1 DEF CountInv, Occurrences
  <2>3. QueueInv'
    BY <1>1 DEF QueueInv
  <2>4. StuckInv'
    BY <1>1 DEF StuckInv, Stuck, DependsOn
  <2>5. QED
    BY <2>1, <2>2, <2>3, <2>4
<1>3. BatchInv'
  BY <1>1 DEF BatchInv, DependenciesFirst, NoNeedlessWait, DependsOn
<1>4. ASSUME dispatched # Workers PROVE Stuck(Workers \ dispatched)
  <2>1. Workers \ dispatched # {}
    BY <1>4 DEF TypeOK
  <2>2. ASSUME NEW v \in Workers \ dispatched
        PROVE  \E d \in Workers \ dispatched : DependsOn(v, d)
    <3>1. batch[v] = 0 /\ indegree[v] # 0
      BY <1>1, <2>2 DEF QueueInv
    <3>2. QED
      BY <2>2, <3>1, WaitsForNothing
  <2>3. QED
    BY <2>1, <2>2 DEF Stuck
<1>5. ASSUME dispatched = Workers, NEW S \in SUBSET Workers PROVE ~Stuck(S)
  BY <1>5 DEF StuckInv, Stuck
<1>6. VerdictIsRight'
  BY <1>1, <1>4, <1>5 DEF VerdictIsRight, Stuck, DependsOn
<1>7. QED
  BY <1>2, <1>3, <1>6

-------------------------------------------------------------------------------
(* What holds throughout.                                                  *)

\* DispatchInv is inductive.
THEOREM DispatchInvariance == Spec => []DispatchInv
<1>1. DispatchInv /\ [Next]_vars => DispatchInv'
  <2> SUFFICES ASSUME DispatchInv, [Next]_vars PROVE DispatchInv'
    OBVIOUS
  <2>1. CASE Next
    BY <2>1, TakeBatchKeeps, DispatchKeeps, FinishKeeps DEF Next
  <2>2. CASE UNCHANGED vars
    <3> USE <2>2 DEF vars, planVars, DispatchInv
    <3>1. TypeOK' /\ QueueInv'
      BY DEF TypeOK, QueueInv
    <3>2. CountInv'
      BY DEF CountInv, Occurrences
    <3>3. BatchInv'
      BY DEF BatchInv, DependenciesFirst, NoNeedlessWait, DependsOn
    <3>4. StuckInv' /\ VerdictIsRight'
      BY DEF StuckInv, VerdictIsRight, Stuck, DependsOn
    <3>5. QED
      BY <3>1, <3>2, <3>3, <3>4
  <2>3. QED
    BY <2>1, <2>2
<1>2. QED
  BY <1>1, DispatchInit, PTL DEF Spec

\* Every variable keeps its type: no count of dependencies falls below zero.
THEOREM DispatchIsTyped == Spec => []TypeOK
<1>1. DispatchInv => TypeOK
  BY DEF DispatchInv
<1>2. QED
  BY <1>1, DispatchInvariance, PTL

\* Every worker comes after all it depends on, for any plan
\* (workers/service.py:79-112).
THEOREM DependenciesComeFirst == Spec => []DependenciesFirst
<1>1. DispatchInv => DependenciesFirst
  BY DEF DispatchInv, BatchInv
<1>2. QED
  BY <1>1, DispatchInvariance, PTL

\* And never later than it has to (workers/service.py:90-112).
THEOREM BatchesAreEarly == Spec => []NoNeedlessWait
<1>1. DispatchInv => NoNeedlessWait
  BY DEF DispatchInv, BatchInv
<1>2. QED
  BY <1>1, DispatchInvariance, PTL

\* A plan is refused exactly when some of its workers wait for each other
\* (workers/service.py:114-117).
THEOREM CyclesAreRefused == Spec => []VerdictIsRight
<1>1. DispatchInv => VerdictIsRight
  BY DEF DispatchInv
<1>2. QED
  BY <1>1, DispatchInvariance, PTL

\* No worker is put into a second batch: only workers without one are ready
\* (workers/service.py:107-112).
THEOREM BatchesStay == Spec => BatchedOnce
<1>1. DispatchInv /\ [Next]_vars => [\A w \in Workers : batch[w] # 0 => batch'[w] = batch[w]]_vars
  <2> SUFFICES ASSUME DispatchInv, Next, NEW w \in Workers, batch[w] # 0
               PROVE  batch'[w] = batch[w]
    OBVIOUS
  <2>1. CASE TakeBatch
    BY <2>1 DEF TakeBatch, DispatchInv, QueueInv
  <2>2. CASE Dispatch \/ Finish
    BY <2>2 DEF Dispatch, Finish
  <2>3. QED
    BY <2>1, <2>2 DEF Next
<1>2. QED
  BY <1>1, DispatchInvariance, PTL DEF Spec, BatchedOnce

\* A part of the workers is counted, and a smaller part counts less.
LEMMA FewerWorkers ==
  ASSUME NEW S \in SUBSET Workers, NEW T \in SUBSET S
  PROVE  /\ Cardinality(S) \in 0..Cardinality(Workers) /\ Cardinality(Workers) \in Nat
         /\ Cardinality(T) \in Nat /\ Cardinality(T) <= Cardinality(S)
         /\ T # S => Cardinality(T) < Cardinality(S)
<1>1. IsFiniteSet(S) /\ Cardinality(S) <= Cardinality(Workers)
  BY WorkersAssumption, FS_Subset
<1>2. IsFiniteSet(T) /\ Cardinality(T) <= Cardinality(S) /\ (Cardinality(T) = Cardinality(S) => T = S)
  BY <1>1, FS_Subset
<1>3. Cardinality(S) \in Nat /\ Cardinality(T) \in Nat /\ Cardinality(Workers) \in Nat
  BY <1>1, <1>2, WorkersAssumption, FS_CardinalityType
<1>4. QED
  BY <1>1, <1>2, <1>3

\* A plan of n workers takes 2n + 1 steps at most, with cycles or without:
\* the loops of plan_batches cannot go round for ever (workers/service.py:90-117).
THEOREM PlanningTakesBoundedSteps == Spec => PlanningIsBounded
<1> DEFINE Waiting == {w \in Workers : batch[w] = 0}
           Verdict == IF verdict = "none" THEN 1 ELSE 0
<1>1. DispatchInv => Left \in 0..(2 * Cardinality(Workers) + 1)
  <2>1. Cardinality(Waiting) \in 0..Cardinality(Workers) /\ Cardinality(Workers) \in Nat
    BY FewerWorkers
  <2>2. Cardinality(Workers \ dispatched) \in 0..Cardinality(Workers)
    BY FewerWorkers
  <2>3. Verdict \in 0..1
    OBVIOUS
  <2>4. QED
    BY <2>1, <2>2, <2>3 DEF Left
<1>2. DispatchInv /\ Next => Left' < Left
  <2> SUFFICES ASSUME DispatchInv, Next PROVE Left' < Left
    OBVIOUS
  <2>1. Cardinality(Waiting) \in Nat /\ Cardinality(Workers \ dispatched) \in Nat
    BY FewerWorkers
  <2>2. CASE TakeBatch
    <3>1. Head(ready) \in Range(ready)
      BY <2>2, HeadOutOfQueue DEF TakeBatch, DispatchInv, TypeOK, QueueInv
    <3>2. \A w \in Range(ready) : w \in Workers /\ batch[w] = 0
      BY RangeOfSeq DEF DispatchInv, TypeOK, QueueInv
    <3>3. sequence + 1 # 0 /\ \A w \in Workers : batch'[w] = IF w \in Range(ready) THEN sequence + 1 ELSE batch[w]
      BY <2>2 DEF TakeBatch, DispatchInv, TypeOK
    <3>4. Waiting' \subseteq Waiting /\ Waiting' # Waiting
      BY <3>1, <3>2, <3>3
    <3>5. Cardinality(Waiting') \in Nat /\ Cardinality(Waiting') < Cardinality(Waiting)
      BY <3>4, FewerWorkers
    <3>6. UNCHANGED <<dispatched, verdict>>
      BY <2>2 DEF TakeBatch
    <3>7. QED
      BY <2>1, <3>5, <3>6 DEF Left
  <2>3. CASE Dispatch
    <3>1. Head(current) \in Workers /\ Head(current) \notin dispatched
      BY <2>3, HeadOutOfQueue, RangeOfSeq DEF Dispatch, DispatchInv, TypeOK, QueueInv
    <3>2. dispatched' = dispatched \cup {Head(current)} /\ UNCHANGED <<batch, verdict>>
      BY <2>3 DEF Dispatch
    <3>3. Workers \ dispatched' \in SUBSET (Workers \ dispatched)
            /\ Workers \ dispatched' # Workers \ dispatched
      BY <3>1, <3>2
    <3>4. /\ Cardinality(Workers \ dispatched') \in Nat
          /\ Cardinality(Workers \ dispatched') < Cardinality(Workers \ dispatched)
      BY <3>3, FewerWorkers
    <3>5. QED
      BY <2>1, <3>2, <3>4 DEF Left
  <2>4. CASE Finish
    <3>1. verdict = "none" /\ verdict' # "none" /\ UNCHANGED <<batch, dispatched>>
      BY <2>4 DEF Finish
    <3>2. QED
      BY <2>1, <3>1 DEF Left
  <2>5. QED
    BY <2>2, <2>3, <2>4 DEF Next
<1>3. QED
  BY <1>1, <1>2, DispatchInvariance, PTL DEF Spec, PlanningIsBounded
===============================================================================

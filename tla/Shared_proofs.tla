------------------------------ MODULE Shared_proofs ------------------------------
(***************************************************************************)
(* Theorems about what the reviews of a host share: lib/queue.js and       *)
(* lib/repo-lock.js, which decide what may go on; the pull request state   *)
(* the server answers with (GET .../pr-state); and the page in a browser   *)
(* that is told of them (public/app.js). For every set of jobs, of limits  *)
(* and of bounds on copies; for any number of calls of the lock and any    *)
(* repositories; for any times to live, floor and timeout; for any number  *)
(* of runs of the review a page shows, and any faults.                     *)
(***************************************************************************)
EXTENDS ReviewQueue, RepoLock, PrStateCache, LiveView, FiniteSetTheorems, SequenceTheorems, TLAPS

-----------------------------------------------------------------------------
(* The queue.                                                              *)

\* The number of entries of j among the first k is a natural number.
LEMMA CopiesNat ==
    ASSUME NEW j, NEW k \in Nat, NEW s
    PROVE  Cardinality({i \in 1..k : s[i] = j}) \in Nat
<1>1. IsFiniteSet(1..k)
  BY FS_Interval
<1>2. IsFiniteSet({i \in 1..k : s[i] = j})
  BY <1>1, FS_Subset
<1> QED
  BY <1>2, FS_CardinalityType

\* What is left after the first k entries were taken off the queue.
LEMMA RestOfPending ==
    ASSUME NEW s \in Seq(Jobs), NEW k \in 0..Len(s)
    PROVE  /\ SubSeq(s, k + 1, Len(s)) \in Seq(Jobs)
           /\ Len(SubSeq(s, k + 1, Len(s))) = Len(s) - k
           /\ \A i \in 1..(Len(s) - k) :
                 SubSeq(s, k + 1, Len(s))[i] = s[i + k]
<1>1. CASE k = Len(s)
  <2>1. SubSeq(s, k + 1, Len(s)) = <<>>
    BY <1>1, SubSeqEmpty
  <2> QED
    BY <1>1, <2>1
<1>2. CASE k < Len(s)
  BY <1>2, SubSeqProperties
<1> QED
  BY <1>1, <1>2

-----------------------------------------------------------------------------
LEMMA QueueTypeInit == QueueInit => QueueTypeOK
<1>1. <<>> \in Seq(Jobs)
  BY EmptySeq
<1>2. [j \in Jobs |-> 0] \in [Jobs -> Nat]
  OBVIOUS
<1> QED
  BY <1>1, <1>2, LimitsAssumption DEF QueueInit, QueueTypeOK

LEMMA QueueTypeStep == QueueTypeOK /\ [QueueNext]_queueVars => QueueTypeOK'
<1> SUFFICES ASSUME QueueTypeOK, [QueueNext]_queueVars
             PROVE  QueueTypeOK'
  OBVIOUS
<1> USE DEF QueueTypeOK
<1>1. CASE Drain
  <2>1. PICK k \in 0..Len(pending) :
          /\ active' = ActiveAfter(k)
          /\ pending' = SubSeq(pending, k + 1, Len(pending))
          /\ runs' = [j \in Jobs |->
                        runs[j] + Cardinality({i \in 1..k : pending[i] = j})]
    BY <1>1 DEF Drain
  <2>2. pending' \in Seq(Jobs)
    BY <2>1, RestOfPending
  <2>3. active' \in SUBSET Jobs
    BY <2>1 DEF ActiveAfter
  <2>4. runs' \in [Jobs -> Nat]
    <3>1. \A j \in Jobs : Cardinality({i \in 1..k : pending[i] = j}) \in Nat
      <4>1. k \in Nat
        BY <2>1, LenProperties
      <4> QED
        BY <4>1, CopiesNat
    <3> QED
      BY <2>1, <3>1
  <2> QED
    BY <1>1, <2>2, <2>3, <2>4 DEF Drain
<1>2. ASSUME NEW n \in Limits, SetConcurrency(n)
      PROVE  QueueTypeOK'
  BY <1>2 DEF SetConcurrency
<1>3. ASSUME NEW j \in Jobs, Settle(j)
      PROVE  QueueTypeOK'
  BY <1>3 DEF Settle
<1>4. ASSUME NEW j \in Jobs, Call(j)
      PROVE  QueueTypeOK'
  BY <1>4 DEF Call, Enqueue
<1>5. CASE UNCHANGED queueVars
  BY <1>5 DEF queueVars
<1> QED
  BY <1>1, <1>2, <1>3, <1>4, <1>5 DEF QueueNext, QueueSteps

\* Every value the queue's variables take has its type, under any caller.
THEOREM QueueTypeCorrect == QueueSpec => []QueueTypeOK
  BY QueueTypeInit, QueueTypeStep, PTL DEF QueueSpec

-----------------------------------------------------------------------------
LEMMA WakeupStep == NoLostWakeup /\ [QueueNext]_queueVars => NoLostWakeup'
<1> SUFFICES ASSUME NoLostWakeup, [QueueNext]_queueVars
             PROVE  NoLostWakeup'
  OBVIOUS
<1> USE DEF NoLostWakeup
<1>1. CASE Drain
  <2>1. PICK k \in 0..Len(pending) :
          /\ FillsSlots(k)
          /\ active' = ActiveAfter(k)
          /\ pending' = SubSeq(pending, k + 1, Len(pending))
    BY <1>1 DEF Drain
  <2>2. CASE k = Len(pending)
    <3>1. pending' = <<>>
      BY <2>1, <2>2, SubSeqEmpty
    <3> QED
      BY <3>1
  <2>3. CASE ~HasFreeSlot(k)
    BY <1>1, <2>1, <2>3 DEF HasFreeSlot, Drain
  <2> QED
    BY <2>1, <2>2, <2>3 DEF FillsSlots
<1>2. ASSUME NEW n \in Limits, SetConcurrency(n)
      PROVE  NoLostWakeup'
  BY <1>2 DEF SetConcurrency
<1>3. ASSUME NEW j \in Jobs, Settle(j)
      PROVE  NoLostWakeup'
  BY <1>3 DEF Settle
<1>4. ASSUME NEW j \in Jobs, Call(j)
      PROVE  NoLostWakeup'
  BY <1>4 DEF Call, Enqueue
<1>5. CASE UNCHANGED queueVars
  BY <1>5 DEF queueVars
<1> QED
  BY <1>1, <1>2, <1>3, <1>4, <1>5 DEF QueueNext, QueueSteps

\* The queue never sleeps on work it has room for, whoever enqueues what and
\* whatever the limit is changed to.
THEOREM NoWakeupIsLost == QueueSpec => []NoLostWakeup
<1>1. QueueInit => NoLostWakeup
  BY DEF QueueInit, NoLostWakeup
<1> QED
  BY <1>1, WakeupStep, PTL DEF QueueSpec

-----------------------------------------------------------------------------
\* A job found among the first k entries is counted at least once, any other
\* job not at all.
LEMMA CopiesPositive ==
    ASSUME NEW j, NEW k \in Nat, NEW s
    PROVE  /\ (\E i \in 1..k : s[i] = j)
                => Cardinality({i \in 1..k : s[i] = j}) > 0
           /\ ~(\E i \in 1..k : s[i] = j)
                => Cardinality({i \in 1..k : s[i] = j}) = 0
<1> DEFINE C == {i \in 1..k : s[i] = j}
<1>1. IsFiniteSet(C)
  <2>1. IsFiniteSet(1..k)
    BY FS_Interval
  <2> QED
    BY <2>1, FS_Subset
<1>2. Cardinality(C) \in Nat /\ (Cardinality(C) = 0 <=> C = {})
  BY <1>1, FS_CardinalityType, FS_EmptySet
<1>3. C = {} <=> ~ \E i \in 1..k : s[i] = j
  OBVIOUS
<1> HIDE DEF C
<1>4. /\ (\E i \in 1..k : s[i] = j) => Cardinality(C) > 0
      /\ ~(\E i \in 1..k : s[i] = j) => Cardinality(C) = 0
  BY <1>2, <1>3
<1> QED
  BY <1>4 DEF C

LEMMA SlotsStep ==
    QueueTypeOK /\ SlotsAreRunners /\ [QueueNext]_queueVars => SlotsAreRunners'
<1> SUFFICES ASSUME QueueTypeOK, SlotsAreRunners, [QueueNext]_queueVars,
                    NEW j \in active'
             PROVE  j \in Jobs /\ runs'[j] > 0
  BY DEF SlotsAreRunners, Running
<1>0. j \in active => j \in Jobs /\ runs[j] > 0
  BY DEF SlotsAreRunners, Running
<1>t. active \subseteq Jobs /\ runs \in [Jobs -> Nat] /\ pending \in Seq(Jobs)
  BY DEF QueueTypeOK
<1>1. CASE Drain
  <2>1. PICK k \in 0..Len(pending) :
          /\ active' = ActiveAfter(k)
          /\ runs' = [i \in Jobs |->
                        runs[i] + Cardinality({m \in 1..k : pending[m] = i})]
    BY <1>1 DEF Drain
  <2>2. k \in Nat /\ Len(pending) \in Nat
    BY <1>t, LenProperties
  <2>3. j \in Jobs
    <3>1. \A m \in 1..k : pending[m] \in Jobs
      BY <1>t, <2>2, ElementOfSeq
    <3> QED
      BY <1>t, <2>1, <3>1 DEF ActiveAfter
  <2>4. /\ runs[j] \in Nat
        /\ runs'[j] = runs[j] + Cardinality({m \in 1..k : pending[m] = j})
        /\ Cardinality({m \in 1..k : pending[m] = j}) \in Nat
    BY <1>t, <2>1, <2>2, <2>3, CopiesNat
  <2>5. CASE j \in active
    BY <1>0, <2>3, <2>4, <2>5
  <2>6. CASE j \notin active
    <3>1. \E m \in 1..k : pending[m] = j
      BY <2>1, <2>6 DEF ActiveAfter
    <3>2. Cardinality({m \in 1..k : pending[m] = j}) > 0
      BY <2>2, <3>1, CopiesPositive
    <3> QED
      BY <2>3, <2>4, <3>2
  <2> QED
    BY <2>5, <2>6
<1>2. ASSUME NEW n \in Limits, SetConcurrency(n)
      PROVE  j \in Jobs /\ runs'[j] > 0
  BY <1>0, <1>2 DEF SetConcurrency
<1>3. ASSUME NEW i \in Jobs, Settle(i)
      PROVE  j \in Jobs /\ runs'[j] > 0
  <2>1. j \in active /\ j # i
    BY <1>3 DEF Settle
  <2>2. runs'[j] = runs[j]
    BY <1>0, <1>t, <1>3, <2>1 DEF Settle
  <2> QED
    BY <1>0, <2>1, <2>2
<1>4. ASSUME NEW i \in Jobs, Call(i)
      PROVE  j \in Jobs /\ runs'[j] > 0
  BY <1>0, <1>4 DEF Call, Enqueue
<1>5. CASE UNCHANGED queueVars
  BY <1>0, <1>5 DEF queueVars
<1> QED
  BY <1>1, <1>2, <1>3, <1>4, <1>5 DEF QueueNext, QueueSteps

\* A key of the Map never outlives the runners of its job, under any caller.
THEOREM SlotsAreNotLeaked == QueueSpec => []SlotsAreRunners
<1>1. QueueInit => SlotsAreRunners
  BY DEF QueueInit, SlotsAreRunners
<1> QED
  BY <1>1, SlotsStep, QueueTypeCorrect, PTL DEF QueueSpec

-----------------------------------------------------------------------------
(* Jobs whose callers look before they enqueue.                            *)

\* A drain starts a job that was not held twice with one runner, takes all it
\* has in the queue, and leaves every other job as it was.
LEMMA DrainOnce ==
    ASSUME QueueTypeOK, OneRunnerPerJob, NEW k \in 0..Len(pending),
           active' = ActiveAfter(k),
           pending' = SubSeq(pending, k + 1, Len(pending)),
           runs' = [j \in Jobs |->
                      runs[j] + Cardinality({i \in 1..k : pending[i] = j})]
    PROVE  OneRunnerPerJob'
<1>t. /\ active \subseteq Jobs /\ runs \in [Jobs -> Nat] /\ pending \in Seq(Jobs)
      /\ Len(pending) \in Nat /\ k \in Nat
  BY LenProperties DEF QueueTypeOK
<1>p. /\ Len(pending') = Len(pending) - k
      /\ \A i \in 1..(Len(pending) - k) : pending'[i] = pending[i + k]
  BY <1>t, RestOfPending
<1> SUFFICES ASSUME NEW j \in Jobs \ Unchecked
             PROVE  /\ runs'[j] <= 1
                    /\ \A a, b \in 1..Len(pending') :
                          pending'[a] = j /\ pending'[b] = j => a = b
                    /\ InPending(j)' => runs'[j] = 0
                    /\ j \in active' <=> runs'[j] > 0
  BY DEF OneRunnerPerJob
<1>j. /\ runs[j] \in Nat /\ runs[j] <= 1
      /\ \A a, b \in 1..Len(pending) : pending[a] = j /\ pending[b] = j => a = b
      /\ (\E a \in 1..Len(pending) : pending[a] = j) => runs[j] = 0
      /\ j \in active <=> runs[j] > 0
  BY <1>t DEF OneRunnerPerJob, InPending
<1>r. runs'[j] = runs[j] + Cardinality({m \in 1..k : pending[m] = j})
  OBVIOUS
<1>2. \A a, b \in 1..Len(pending') : pending'[a] = j /\ pending'[b] = j => a = b
  <2> SUFFICES ASSUME NEW a \in 1..Len(pending'), NEW b \in 1..Len(pending'),
                      pending'[a] = j, pending'[b] = j
               PROVE  a = b
    OBVIOUS
  <2>1. /\ a + k \in 1..Len(pending) /\ b + k \in 1..Len(pending)
        /\ pending[a + k] = j /\ pending[b + k] = j
    BY <1>t, <1>p
  <2>2. a + k = b + k
    BY <1>j, <2>1
  <2> QED
    BY <1>t, <2>2
<1>3. CASE \E i \in 1..k : pending[i] = j
  <2>1. PICK i \in 1..k : pending[i] = j
    BY <1>3
  <2>2. {m \in 1..k : pending[m] = j} = {i}
    <3>1. ASSUME NEW m \in 1..k, pending[m] = j
          PROVE  m = i
      <4>1. m \in 1..Len(pending) /\ i \in 1..Len(pending)
        BY <1>t
      <4> QED
        BY <1>j, <2>1, <3>1, <4>1
    <3> QED
      BY <2>1, <3>1
  <2>3. Cardinality({m \in 1..k : pending[m] = j}) = 1
    BY <2>2, FS_Singleton
  <2>4. runs[j] = 0
    BY <1>t, <1>j, <2>1
  <2>5. runs'[j] = 1
    BY <1>r, <2>3, <2>4
  <2>6. j \in active'
    BY <2>1 DEF ActiveAfter
  <2>7. ~ InPending(j)'
    <3> SUFFICES ASSUME NEW a \in 1..Len(pending'), pending'[a] = j
                 PROVE  FALSE
      BY DEF InPending
    <3>1. a + k \in 1..Len(pending) /\ pending[a + k] = j
      BY <1>t, <1>p
    <3>2. i \in 1..Len(pending)
      BY <1>t
    <3>3. i # a + k
      <4>1. a \in Nat /\ a >= 1 /\ i <= k
        BY <1>t, <1>p
      <4> QED
        BY <1>t, <4>1
    <3> QED
      BY <1>j, <2>1, <3>1, <3>2, <3>3
  <2>8. /\ runs'[j] <= 1 /\ (InPending(j)' => runs'[j] = 0)
        /\ (j \in active' <=> runs'[j] > 0)
    BY <2>5, <2>6, <2>7
  <2> QED
    BY <1>2, <2>8
<1>4. CASE ~ \E i \in 1..k : pending[i] = j
  <2>1. Cardinality({m \in 1..k : pending[m] = j}) = 0
    BY <1>4, <1>t, CopiesPositive
  <2>2. runs'[j] = runs[j]
    BY <1>j, <1>r, <2>1
  <2>3. j \in active' <=> j \in active
    BY <1>4 DEF ActiveAfter
  <2>4. InPending(j)' => runs[j] = 0
    <3> SUFFICES ASSUME NEW a \in 1..Len(pending'), pending'[a] = j
                 PROVE  runs[j] = 0
      BY DEF InPending
    <3>1. a + k \in 1..Len(pending) /\ pending[a + k] = j
      BY <1>t, <1>p
    <3> QED
      BY <1>j, <3>1
  <2> QED
    BY <1>2, <1>j, <2>2, <2>3, <2>4
<1> QED
  BY <1>3, <1>4

LEMMA OneRunnerStep ==
    QueueTypeOK /\ OneRunnerPerJob /\ [QueueNext]_queueVars => OneRunnerPerJob'
<1> SUFFICES ASSUME QueueTypeOK, OneRunnerPerJob, [QueueNext]_queueVars
             PROVE  OneRunnerPerJob'
  OBVIOUS
<1>t. /\ active \subseteq Jobs /\ runs \in [Jobs -> Nat] /\ pending \in Seq(Jobs)
      /\ Len(pending) \in Nat
  BY LenProperties DEF QueueTypeOK
<1>1. CASE Drain
  <2>1. PICK k \in 0..Len(pending) :
          /\ active' = ActiveAfter(k)
          /\ pending' = SubSeq(pending, k + 1, Len(pending))
          /\ runs' = [j \in Jobs |->
                        runs[j] + Cardinality({i \in 1..k : pending[i] = j})]
    BY <1>1 DEF Drain
  <2> QED
    BY <2>1, DrainOnce
<1>2. ASSUME NEW n \in Limits, SetConcurrency(n)
      PROVE  OneRunnerPerJob'
  BY <1>2 DEF SetConcurrency, OneRunnerPerJob, InPending
<1>3. ASSUME NEW j \in Jobs, Settle(j)
      PROVE  OneRunnerPerJob'
  BY <1>3, <1>t DEF OneRunnerPerJob, InPending, Settle
<1>4. ASSUME NEW j \in Jobs, Call(j)
      PROVE  OneRunnerPerJob'
  <2>1. j \notin Unchecked => runs[j] = 0 /\ \A i \in 1..Len(pending) : pending[i] # j
    BY <1>4, <1>t DEF Call, Held, InPending
  <2>n. Len(pending) \in Nat
    BY <1>t, LenProperties
  <2>2. /\ Len(pending') = Len(pending) + 1
        /\ \A i \in 1..Len(pending) : pending'[i] = pending[i]
        /\ pending'[Len(pending) + 1] = j
    BY <1>4, <1>t, AppendProperties DEF Call, Enqueue
  <2>3. runs' = runs /\ active' = active
    BY <1>4 DEF Call, Enqueue
  <2>4. ASSUME NEW m \in Jobs \ Unchecked
        PROVE  \A a, b \in 1..Len(pending') : pending'[a] = m /\ pending'[b] = m => a = b
    <3> SUFFICES ASSUME NEW a \in 1..Len(pending'), NEW b \in 1..Len(pending'),
                        pending'[a] = m, pending'[b] = m
                 PROVE  a = b
      OBVIOUS
    <3>1. CASE m = j
      <4>1. \A i \in 1..Len(pending) : pending[i] # j
        BY <2>1, <3>1
      <4>2. \A i \in 1..Len(pending') : i \in 1..Len(pending) \/ i = Len(pending) + 1
        BY <2>2, <2>n
      <4>3. a = Len(pending) + 1
        BY <2>2, <3>1, <4>1, <4>2
      <4>4. b = Len(pending) + 1
        BY <2>2, <3>1, <4>1, <4>2
      <4> QED
        BY <4>3, <4>4
    <3>2. CASE m # j
      <4>0. \A i \in 1..Len(pending') : i \in 1..Len(pending) \/ i = Len(pending) + 1
        BY <2>2, <2>n
      <4>1. a \in 1..Len(pending) /\ pending[a] = m
        BY <2>2, <3>2, <4>0
      <4>2. b \in 1..Len(pending) /\ pending[b] = m
        BY <2>2, <3>2, <4>0
      <4> QED
        BY <4>1, <4>2 DEF OneRunnerPerJob
    <3> QED
      BY <3>1, <3>2
  <2>5. ASSUME NEW m \in Jobs \ Unchecked, InPending(m)'
        PROVE  runs'[m] = 0
    <3>1. CASE m = j
      BY <2>1, <2>3, <3>1
    <3>2. CASE m # j
      <4>1. PICK a \in 1..Len(pending') : pending'[a] = m
        BY <2>5 DEF InPending
      <4>2. a \in 1..Len(pending) /\ pending[a] = m
        BY <2>n, <2>2, <3>2, <4>1
      <4>3. InPending(m)
        BY <4>2 DEF InPending
      <4> QED
        BY <2>3, <4>3 DEF OneRunnerPerJob
    <3> QED
      BY <3>1, <3>2
  <2> QED
    BY <2>3, <2>4, <2>5 DEF OneRunnerPerJob
<1>5. CASE UNCHANGED queueVars
  BY <1>5 DEF queueVars, OneRunnerPerJob, InPending
<1> QED
  BY <1>1, <1>2, <1>3, <1>4, <1>5 DEF QueueNext, QueueSteps

\* A job whose callers enqueue it only while the queue does not hold it never
\* has two runners, waits twice, or waits while it runs, whatever other
\* callers do.
THEOREM NoJobRunsTwice == QueueSpec => []OneRunnerPerJob
<1>1. QueueInit => OneRunnerPerJob
  BY DEF QueueInit, OneRunnerPerJob, InPending
<1> QED
  BY <1>1, OneRunnerStep, QueueTypeCorrect, PTL DEF QueueSpec

-----------------------------------------------------------------------------
\* Finitely many jobs are running after finitely many were started.
LEMMA FiniteAfter ==
    ASSUME pending \in Seq(Jobs), IsFiniteSet(active), NEW k \in Int
    PROVE  IsFiniteSet(ActiveAfter(k))
<1>1. IsFiniteSet({pending[i] : i \in 1..k})
  <2> DEFINE f == [i \in 1..k |-> pending[i]]
             T == {pending[i] : i \in 1..k}
  <2>1. IsFiniteSet(1..k)
    BY FS_Interval
  <2>2. f \in Surjection(1..k, T)
    BY DEF Surjection
  <2> HIDE DEF f, T
  <2>3. IsFiniteSet(T)
    BY <2>1, <2>2, FS_Surjection
  <2> QED
    BY <2>3 DEF T
<1> QED
  BY <1>1, FS_Union DEF ActiveAfter

LEMMA FiniteStep ==
    QueueTypeOK /\ IsFiniteSet(active) /\ [QueueNext]_queueVars
        => IsFiniteSet(active)'
<1> SUFFICES ASSUME QueueTypeOK, IsFiniteSet(active), [QueueNext]_queueVars
             PROVE  IsFiniteSet(active')
  OBVIOUS
<1>1. CASE Drain
  <2>1. PICK k \in 0..Len(pending) : active' = ActiveAfter(k)
    BY <1>1 DEF Drain
  <2> QED
    BY <2>1, FiniteAfter DEF QueueTypeOK
<1>2. ASSUME NEW j \in Jobs, Settle(j)
      PROVE  IsFiniteSet(active')
  BY <1>2, FS_Subset DEF Settle
<1>3. ASSUME UNCHANGED active
      PROVE  IsFiniteSet(active')
  BY <1>3
<1> QED
  BY <1>1, <1>2, <1>3
     DEF QueueNext, QueueSteps, SetConcurrency, Call, Enqueue, queueVars

\* The loop of _drain never leaves the Map above the limit if it starts
\* anything: the last iteration still found a free slot.
LEMMA DrainStaysWithinLimit ==
    ASSUME QueueTypeOK, IsFiniteSet(active), NEW k \in 1..Len(pending),
           FillsSlots(k)
    PROVE  Cardinality(ActiveAfter(k)) <= concurrency
<1>t. /\ pending \in Seq(Jobs) /\ Len(pending) \in Nat
      /\ k \in Nat /\ k - 1 \in Nat /\ concurrency \in Nat
  BY LenProperties, LimitsAssumption DEF QueueTypeOK
<1>1. k - 1 \in 0..(k - 1)
  BY <1>t
<1>2. Cardinality(ActiveAfter(k - 1)) < concurrency
  BY <1>1 DEF FillsSlots, HasFreeSlot
<1>3. ActiveAfter(k) = ActiveAfter(k - 1) \cup {pending[k]}
  BY <1>t DEF ActiveAfter
<1>4. IsFiniteSet(ActiveAfter(k - 1))
  BY <1>t, FiniteAfter
<1>5. /\ Cardinality(ActiveAfter(k)) <= Cardinality(ActiveAfter(k - 1)) + 1
      /\ Cardinality(ActiveAfter(k)) \in Nat
      /\ Cardinality(ActiveAfter(k - 1)) \in Nat
  <2> DEFINE before == ActiveAfter(k - 1)
             last == pending[k]
  <2>1. IsFiniteSet(before) /\ Cardinality(before) \in Nat
    BY <1>4, FS_CardinalityType
  <2>2. ActiveAfter(k) = before \cup {last}
    BY <1>3
  <2> HIDE DEF before, last
  <2>3. Cardinality(before \cup {last})
          = IF last \in before THEN Cardinality(before) ELSE Cardinality(before) + 1
    BY <2>1, FS_AddElement
  <2>4. /\ Cardinality(ActiveAfter(k)) <= Cardinality(before) + 1
        /\ Cardinality(ActiveAfter(k)) \in Nat
        /\ Cardinality(before) \in Nat
    BY <2>1, <2>2, <2>3
  <2> QED
    BY <2>4 DEF before
<1> QED
  BY <1>2, <1>5, <1>t

LEMMA StartStep ==
    QueueTypeOK /\ IsFiniteSet(active) /\ OneRunnerPerJob' /\ [QueueNext]_queueVars
    => [(\E j \in Jobs : runs'[j] > runs[j])
          => Cardinality(Running' \ Unchecked) <= concurrency']_queueVars
<1> SUFFICES ASSUME QueueTypeOK, IsFiniteSet(active), OneRunnerPerJob',
                    [QueueNext]_queueVars, NEW j \in Jobs, runs'[j] > runs[j]
             PROVE  Cardinality(Running' \ Unchecked) <= concurrency'
  OBVIOUS
<1>t. /\ runs \in [Jobs -> Nat] /\ pending \in Seq(Jobs) /\ Len(pending) \in Nat
      /\ concurrency \in Nat
  BY LenProperties, LimitsAssumption DEF QueueTypeOK
<1>1. Drain
  <2>1. ASSUME NEW i \in Jobs, Settle(i)
        PROVE  FALSE
    BY <1>t, <2>1 DEF Settle
  <2>2. runs' # runs
    BY <1>t
  <2> QED
    BY <2>1, <2>2
       DEF QueueNext, QueueSteps, SetConcurrency, Call, Enqueue, queueVars
<1>2. PICK k \in 0..Len(pending) :
        /\ FillsSlots(k)
        /\ active' = ActiveAfter(k)
        /\ runs' = [i \in Jobs |->
                      runs[i] + Cardinality({m \in 1..k : pending[m] = i})]
  BY <1>1 DEF Drain
<1>3. k > 0
  <2>1. \E i \in 1..k : pending[i] = j
    <3> SUFFICES ASSUME ~ \E i \in 1..k : pending[i] = j
                 PROVE  FALSE
      OBVIOUS
    <3>1. k \in Nat
      BY <1>t
    <3>2. Cardinality({m \in 1..k : pending[m] = j}) = 0
      BY <3>1, CopiesPositive
    <3> QED
      BY <1>t, <1>2, <3>2
  <2> QED
    BY <1>t, <2>1
<1>4. Cardinality(active') <= concurrency
  <2>1. k \in 1..Len(pending)
    BY <1>3
  <2> QED
    BY <1>2, <2>1, DrainStaysWithinLimit
<1>5. IsFiniteSet(active')
  BY <1>2, <1>t, FiniteAfter
<1>6. Running' \ Unchecked \subseteq active'
  BY DEF OneRunnerPerJob, Running
<1>7. /\ Cardinality(Running' \ Unchecked) <= Cardinality(active')
      /\ Cardinality(Running' \ Unchecked) \in Nat /\ Cardinality(active') \in Nat
  BY <1>5, <1>6, FS_Subset, FS_CardinalityType
<1>8. concurrency' = concurrency
  BY <1>1 DEF Drain
<1> QED
  BY <1>4, <1>7, <1>8, <1>t

\* The limit holds for runners, not only for keys of the Map, as long as jobs
\* enqueued without looking are left out of the count.
THEOREM StartsAreWithinLimit == QueueSpec => StartsWithinLimit
<1>1. QueueInit => IsFiniteSet(active)
  BY FS_EmptySet DEF QueueInit
<1>2. QueueSpec => []IsFiniteSet(active)
  BY <1>1, FiniteStep, QueueTypeCorrect, PTL DEF QueueSpec
<1> QED
  BY <1>2, StartStep, NoJobRunsTwice, QueueTypeCorrect, PTL
     DEF QueueSpec, StartsWithinLimit

-----------------------------------------------------------------------------
(* The lock.  The inductive invariant is OneChainPerKey: the promises      *)
(* registered for a repository form one chain, in call order.              *)

LEMMA LockTypeInit == LockInit => LockTypeOK
<1>1. <<>> \in Seq(Tasks)
  BY EmptySeq
<1>2. (CHOOSE k \in Keys : TRUE) \in Keys
  BY KeysAssumption
<1> QED
  BY <1>1, <1>2 DEF LockInit, LockTypeOK, Stages

\* What Head and Tail of a non-empty line are.
LEMMA TailOfLine ==
    ASSUME NEW s \in Seq(Tasks), s # <<>>
    PROVE  /\ Tail(s) \in Seq(Tasks)
           /\ Len(s) \in Nat /\ Len(s) > 0
           /\ Len(Tail(s)) = Len(s) - 1
           /\ \A i \in 1..(Len(s) - 1) : Tail(s)[i] = s[i + 1]
           /\ Head(s) = s[1]
  BY HeadTailProperties, LenProperties

LEMMA AppendToLine ==
    ASSUME NEW s \in Seq(Tasks), NEW t \in Tasks
    PROVE  /\ Append(s, t) \in Seq(Tasks)
           /\ Append(s, t) # <<>>
           /\ Len(s) \in Nat
           /\ Len(Append(s, t)) = Len(s) + 1
           /\ \A i \in 1..Len(s) : Append(s, t)[i] = s[i]
           /\ Append(s, t)[Len(s) + 1] = t
  BY AppendProperties, LenProperties

\* A live task that is not waiting for its predecessor heads its line.
LEMMA AtHead ==
    ASSUME LockTypeOK, LineIsLive, BehindWaits, NEW t \in Tasks, Live(t),
           pc[t] # "queued" \/ (prev[t] # NoTask => pc[prev[t]] = "settled")
    PROVE  line[key[t]] # <<>> /\ line[key[t]][1] = t
<1> DEFINE k == key[t]
<1>1. k \in Keys /\ line[k] \in Seq(Tasks) /\ Len(line[k]) \in Nat
  BY LenProperties DEF LockTypeOK
<1>2. PICK i \in 1..Len(line[k]) : line[k][i] = t
  BY DEF LineIsLive
<1>3. line[k] # <<>>
  BY <1>1, <1>2
<1>4. CASE i = 1
  BY <1>2, <1>3, <1>4
<1>5. CASE i # 1
  <2>1. i \in 2..Len(line[k]) /\ i - 1 \in 1..Len(line[k])
    BY <1>1, <1>5
  <2>2. pc[t] = "queued" /\ prev[t] = line[k][i - 1]
    BY <1>1, <1>2, <2>1 DEF BehindWaits
  <2>3. line[k][i - 1] \in Tasks
    BY <1>1, <2>1, ElementOfSeq
  <2>4. prev[t] # NoTask
    BY <2>2, <2>3, NoneAssumption
  <2>5. Live(line[k][i - 1])
    BY <1>1, <2>1 DEF LineIsLive
  <2> QED
    BY <2>2, <2>4, <2>5 DEF Live
<1> QED
  BY <1>4, <1>5

\* The whole of LockTypeOK and the chain, as one inductive invariant.
ChainIInv == LockTypeOK /\ OneChainPerKey

\* The head of a line is nowhere else: not further back, not in another line.
LEMMA OnlyOnePlace ==
    ASSUME ChainIInv, NEW t \in Tasks,
           line[key[t]] # <<>>, line[key[t]][1] = t
    PROVE  \A k \in Keys : \A i \in 2..Len(line[k]) : line[k][i] # t
<1> SUFFICES ASSUME NEW k \in Keys, NEW i \in 2..Len(line[k]), line[k][i] = t
             PROVE  FALSE
  OBVIOUS
<1>1. Len(line[k]) \in Nat
  BY LenProperties DEF ChainIInv, LockTypeOK
<1>2. i \in 1..Len(line[k]) /\ 1 \in 1..Len(line[k]) /\ i # 1
  BY <1>1
<1>3. key[t] = k
  BY <1>2 DEF ChainIInv, OneChainPerKey, LineIsLive
<1>4. i = 1
  BY <1>2, <1>3 DEF ChainIInv, OneChainPerKey, LineIsLive
<1> QED
  BY <1>2, <1>4

LEMMA TailIsEmpty ==
    ASSUME NEW s \in Seq(Tasks), Len(s) = 1
    PROVE  Tail(s) = <<>>
<1>1. s # <<>>
  <2> SUFFICES ASSUME s = <<>>
               PROVE  Len(s) = 0
    OBVIOUS
  <2> QED
    BY EmptySeq
<1>2. Tail(s) \in Seq(Tasks) /\ Len(Tail(s)) = 0
  BY <1>1, TailOfLine
<1> QED
  BY <1>2, EmptySeq

LEMMA LockTypeStep == ChainIInv /\ [LockNext]_chainVars => LockTypeOK'
<1> SUFFICES ASSUME ChainIInv, [LockNext]_chainVars
             PROVE  LockTypeOK'
  OBVIOUS
<1> USE DEF LockTypeOK, Stages
<1>1. ASSUME NEW t \in Tasks, NEW k \in Keys, Register(t, k)
      PROVE  LockTypeOK'
  <2>1. line' \in [Keys -> Seq(Tasks)]
    BY <1>1, AppendToLine DEF Register, ChainIInv
  <2> QED
    BY <1>1, <2>1 DEF Register, ChainIInv
<1>2. ASSUME NEW t \in Tasks, Begin(t)
      PROVE  LockTypeOK'
  BY <1>2 DEF Begin, ChainIInv
<1>3. ASSUME NEW t \in Tasks, Finish(t)
      PROVE  LockTypeOK'
  BY <1>3 DEF Finish, ChainIInv
<1>4. ASSUME NEW t \in Tasks, Release(t)
      PROVE  LockTypeOK'
  <2>0. Live(t) /\ pc[t] # "queued"
    BY <1>4 DEF Release, Live
  <2>1. line[key[t]] # <<>>
    BY <2>0, AtHead DEF ChainIInv, OneChainPerKey
  <2>2. key[t] \in Keys /\ line[key[t]] \in Seq(Tasks)
    BY DEF ChainIInv
  <2>3. Tail(line[key[t]]) \in Seq(Tasks)
    BY <2>1, <2>2, TailOfLine
  <2>4. line' \in [Keys -> Seq(Tasks)]
    BY <1>4, <2>3 DEF Release, ChainIInv
  <2>5. holders[key[t]] = Len(line[key[t]]) /\ Len(line[key[t]]) > 0
        /\ Len(line[key[t]]) \in Nat
    BY <2>1, <2>2, TailOfLine DEF ChainIInv, OneChainPerKey, MapsMatchLine
  <2>6. holders' \in [Keys -> Nat]
    BY <1>4, <2>5 DEF Release, ChainIInv
  <2> QED
    BY <1>4, <2>4, <2>6 DEF Release, ChainIInv
<1>5. ASSUME NEW t \in Tasks, Reuse(t)
      PROVE  LockTypeOK'
  BY <1>5 DEF Reuse, ChainIInv
<1>6. CASE UNCHANGED chainVars
  BY <1>6 DEF chainVars, ChainIInv
<1> QED
  BY <1>1, <1>2, <1>3, <1>4, <1>5, <1>6 DEF LockNext, TaskStep

-----------------------------------------------------------------------------
\* A call joins the end of its repository's chain.
LEMMA RegisterKeepsChain ==
    ASSUME ChainIInv, NEW t \in Tasks, NEW k \in Keys, Register(t, k)
    PROVE  OneChainPerKey'
<1>t. /\ pc \in [Tasks -> Stages] /\ key \in [Tasks -> Keys]
      /\ prev \in [Tasks -> Tasks \cup {NoTask}]
      /\ tails \in [Keys -> Tasks \cup {NoTask}] /\ holders \in [Keys -> Nat]
      /\ line \in [Keys -> Seq(Tasks)]
  BY DEF ChainIInv, LockTypeOK
<1>0. ~Live(t) /\ Live(t)'
  BY <1>t DEF Register, Live
<1>1. /\ line'[k] = Append(line[k], t)
      /\ \A m \in Keys \ {k} : line'[m] = line[m]
      /\ tails'[k] = t /\ \A m \in Keys \ {k} : tails'[m] = tails[m]
      /\ holders'[k] = holders[k] + 1
      /\ \A m \in Keys \ {k} : holders'[m] = holders[m]
      /\ key'[t] = k /\ prev'[t] = tails[k]
      /\ \A u \in Tasks \ {t} :
            key'[u] = key[u] /\ prev'[u] = prev[u] /\ pc'[u] = pc[u]
      /\ pc'[t] = "queued"
  BY <1>t DEF Register
<1>2. /\ Len(line[k]) \in Nat
      /\ Len(line'[k]) = Len(line[k]) + 1
      /\ \A i \in 1..Len(line[k]) : line'[k][i] = line[k][i]
      /\ line'[k][Len(line[k]) + 1] = t
      /\ line'[k] # <<>>
  <2>1. line[k] \in Seq(Tasks)
    BY <1>t
  <2>2. line'[k] = Append(line[k], t)
    BY <1>1
  <2> HIDE <1>t, <1>1
  <2> QED
    BY <2>1, <2>2, AppendToLine
<1>3. \A m \in Keys : \A i \in 1..Len(line[m]) :
         /\ line[m][i] \in Tasks \ {t}
         /\ Live(line[m][i]) /\ key[line[m][i]] = m
  BY <1>0, <1>t, ElementOfSeq DEF ChainIInv, OneChainPerKey, LineIsLive
<1>4. LineIsLive'
  <2>1. ASSUME NEW m \in Keys, NEW i \in 1..Len(line'[m])
        PROVE  (Live(line[m][i]) /\ key[line[m][i]] = m)'
    <3>1. CASE m = k /\ i = Len(line[k]) + 1
      BY <3>1, <1>0, <1>1, <1>2
    <3>2. CASE ~(m = k /\ i = Len(line[k]) + 1)
      <4>1. i \in 1..Len(line[m]) /\ line'[m][i] = line[m][i]
        BY <1>1, <1>2, <2>1, <3>2
      <4>2. /\ line[m][i] \in Tasks \ {t}
            /\ Live(line[m][i]) /\ key[line[m][i]] = m
        BY <1>3, <4>1
      <4> QED
        BY <1>1, <4>1, <4>2 DEF Live
    <3> QED
      BY <3>1, <3>2
  <2>2. ASSUME NEW m \in Keys, NEW i \in 1..Len(line'[m]),
               NEW j \in 1..Len(line'[m]), line'[m][i] = line'[m][j]
        PROVE  i = j
    <3>1. \A a, b \in 1..Len(line[m]) : line[m][a] = line[m][b] => a = b
      BY DEF ChainIInv, OneChainPerKey, LineIsLive
    <3>2. CASE m # k
      BY <1>1, <2>2, <3>1, <3>2
    <3>3. CASE m = k
      <4>1. i \in 1..(Len(line[k]) + 1) /\ j \in 1..(Len(line[k]) + 1)
        BY <1>2, <3>3
      <4> QED
        BY <1>2, <1>3, <2>2, <3>1, <3>3, <4>1
    <3> QED
      BY <3>2, <3>3
  <2>3. ASSUME NEW u \in Tasks, Live(u)'
        PROVE  \E i \in 1..Len(line'[key'[u]]) : line'[key'[u]][i] = u
    <3>1. CASE u = t
      BY <1>1, <1>2, <3>1
    <3>2. CASE u # t
      <4>1. Live(u) /\ key'[u] = key[u] /\ key[u] \in Keys
        BY <1>1, <1>t, <2>3, <3>2 DEF Live
      <4>2. PICK i \in 1..Len(line[key[u]]) : line[key[u]][i] = u
        BY <4>1 DEF ChainIInv, OneChainPerKey, LineIsLive
      <4>3. i \in 1..Len(line'[key[u]]) /\ line'[key[u]][i] = u
        <5>1. CASE key[u] = k
          BY <1>2, <4>2, <5>1
        <5>2. CASE key[u] # k
          BY <1>1, <4>1, <4>2, <5>2
        <5> QED
          BY <5>1, <5>2
      <4> QED
        BY <4>1, <4>3
    <3> QED
      BY <3>1, <3>2
  <2> QED
    BY <2>1, <2>2, <2>3 DEF LineIsLive
<1>5. BehindWaits'
  <2> SUFFICES ASSUME NEW m \in Keys, NEW i \in 2..Len(line'[m])
               PROVE  pc'[line'[m][i]] = "queued"
                      /\ prev'[line'[m][i]] = line'[m][i - 1]
    BY DEF BehindWaits
  <2>1. CASE m = k /\ i = Len(line[k]) + 1
    <3>1. /\ Len(line[k]) \in 1..Len(line[k])
          /\ line[k] # <<>>
      BY <1>2, <1>t, <2>1
    <3>2. tails[k] = line[k][Len(line[k])]
      BY <3>1 DEF ChainIInv, OneChainPerKey, MapsMatchLine
    <3> QED
      BY <1>1, <1>2, <2>1, <3>1, <3>2
  <2>2. CASE ~(m = k /\ i = Len(line[k]) + 1)
    <3>1. /\ i \in 2..Len(line[m]) /\ i - 1 \in 1..Len(line[m])
          /\ i \in 1..Len(line[m])
          /\ line'[m][i] = line[m][i] /\ line'[m][i - 1] = line[m][i - 1]
      BY <1>1, <1>2, <2>2
    <3>2. pc[line[m][i]] = "queued" /\ prev[line[m][i]] = line[m][i - 1]
      BY <3>1 DEF ChainIInv, OneChainPerKey, BehindWaits
    <3> QED
      BY <1>1, <1>3, <3>1, <3>2
  <2> QED
    BY <2>1, <2>2
<1>6. MapsMatchLine'
  <2>1. holders[k] = Len(line[k])
    BY DEF ChainIInv, OneChainPerKey, MapsMatchLine
  <2> QED
    BY <1>1, <1>2, <2>1 DEF ChainIInv, OneChainPerKey, MapsMatchLine
<1> QED
  BY <1>4, <1>5, <1>6 DEF OneChainPerKey

\* A step that changes no line, no key of a live task and no promise of a
\* waiting one, and lets only heads stop waiting, keeps every chain.
LEMMA HeadMovesKeepChain ==
    ASSUME ChainIInv, line' = line, tails' = tails, holders' = holders, key' = key,
           \A u \in Tasks : Live(u)' <=> Live(u),
           \A u \in Tasks : Live(u) => prev'[u] = prev[u],
           \A k \in Keys : \A i \in 2..Len(line[k]) :
               pc'[line[k][i]] = pc[line[k][i]]
    PROVE  OneChainPerKey'
<1>t. /\ line \in [Keys -> Seq(Tasks)]
      /\ \A k \in Keys : Len(line[k]) \in Nat
  BY LenProperties DEF ChainIInv, LockTypeOK
<1>1. \A k \in Keys : \A i \in 1..Len(line[k]) :
         line[k][i] \in Tasks /\ Live(line[k][i]) /\ key[line[k][i]] = k
  BY <1>t, ElementOfSeq DEF ChainIInv, OneChainPerKey, LineIsLive
<1>2. LineIsLive'
  <2>1. \A k \in Keys : \A i \in 1..Len(line[k]) :
           (Live(line[k][i]) /\ key[line[k][i]] = k)'
    BY <1>1
  <2> QED
    BY <2>1 DEF ChainIInv, OneChainPerKey, LineIsLive
<1>3. BehindWaits'
  <2> SUFFICES ASSUME NEW k \in Keys, NEW i \in 2..Len(line[k])
               PROVE  pc'[line[k][i]] = "queued"
                      /\ prev'[line[k][i]] = line[k][i - 1]
    BY DEF BehindWaits
  <2>1. i \in 1..Len(line[k])
    BY <1>t
  <2>2. prev'[line[k][i]] = prev[line[k][i]]
    BY <1>1, <2>1
  <2> QED
    BY <2>2 DEF ChainIInv, OneChainPerKey, BehindWaits
<1>4. MapsMatchLine'
  BY DEF ChainIInv, OneChainPerKey, MapsMatchLine
<1> QED
  BY <1>2, <1>3, <1>4 DEF OneChainPerKey

LEMMA BeginKeepsChain ==
    ASSUME ChainIInv, NEW t \in Tasks, Begin(t)
    PROVE  OneChainPerKey'
<1>1. pc[t] = "queued" /\ pc' = [pc EXCEPT ![t] = "inside"] /\ Live(t)
  BY DEF Begin, Live
<1>2. line[key[t]] # <<>> /\ line[key[t]][1] = t
  BY <1>1, AtHead DEF ChainIInv, OneChainPerKey, Begin
<1>3. \A k \in Keys : \A i \in 2..Len(line[k]) : line[k][i] # t
  BY <1>2, OnlyOnePlace
<1>4. \A u \in Tasks : Live(u)' <=> Live(u)
  BY <1>1 DEF Live, ChainIInv, LockTypeOK
<1>5. \A k \in Keys : \A i \in 2..Len(line[k]) :
         pc'[line[k][i]] = pc[line[k][i]]
  BY <1>1, <1>3 DEF ChainIInv, LockTypeOK
<1> QED
  BY <1>4, <1>5, HeadMovesKeepChain DEF Begin

LEMMA FinishKeepsChain ==
    ASSUME ChainIInv, NEW t \in Tasks, Finish(t)
    PROVE  OneChainPerKey'
<1>1. /\ pc[t] = "inside" /\ Live(t)
      /\ \E how \in {"returned", "threw"} : pc' = [pc EXCEPT ![t] = how]
  BY DEF Finish, Inside, Live
<1>2. line[key[t]] # <<>> /\ line[key[t]][1] = t
  BY <1>1, AtHead DEF ChainIInv, OneChainPerKey
<1>3. \A k \in Keys : \A i \in 2..Len(line[k]) : line[k][i] # t
  BY <1>2, OnlyOnePlace
<1>4. \A u \in Tasks : Live(u)' <=> Live(u)
  BY <1>1 DEF Live, ChainIInv, LockTypeOK
<1>5. \A k \in Keys : \A i \in 2..Len(line[k]) :
         pc'[line[k][i]] = pc[line[k][i]]
  BY <1>1, <1>3 DEF ChainIInv, LockTypeOK
<1> QED
  BY <1>4, <1>5, HeadMovesKeepChain DEF Finish

LEMMA ReuseKeepsChain ==
    ASSUME ChainIInv, NEW t \in Tasks, Reuse(t)
    PROVE  OneChainPerKey'
<1>1. /\ pc[t] = "settled" /\ ~Live(t)
      /\ pc' = [pc EXCEPT ![t] = "idle"] /\ prev' = [prev EXCEPT ![t] = NoTask]
  BY DEF Reuse, Live
<1>2. \A u \in Tasks : Live(u)' <=> Live(u)
  BY <1>1 DEF Live, ChainIInv, LockTypeOK
<1>3. \A u \in Tasks : Live(u) => prev'[u] = prev[u]
  BY <1>1 DEF ChainIInv, LockTypeOK
<1>4. \A k \in Keys : \A i \in 2..Len(line[k]) :
         pc'[line[k][i]] = pc[line[k][i]]
  <2> SUFFICES ASSUME NEW k \in Keys, NEW i \in 2..Len(line[k])
               PROVE  pc'[line[k][i]] = pc[line[k][i]]
    OBVIOUS
  <2>1. pc[line[k][i]] = "queued"
    BY DEF ChainIInv, OneChainPerKey, BehindWaits
  <2> QED
    BY <1>1, <2>1 DEF ChainIInv, LockTypeOK
<1> QED
  BY <1>2, <1>3, <1>4, HeadMovesKeepChain DEF Reuse

\* The head leaves, and the chain behind it is what was behind it before.
LEMMA ReleaseKeepsChain ==
    ASSUME ChainIInv, NEW t \in Tasks, Release(t)
    PROVE  OneChainPerKey'
<1> DEFINE k == key[t]
<1>t. /\ pc \in [Tasks -> Stages] /\ key \in [Tasks -> Keys]
      /\ tails \in [Keys -> Tasks \cup {NoTask}] /\ holders \in [Keys -> Nat]
      /\ line \in [Keys -> Seq(Tasks)] /\ k \in Keys
      /\ \A m \in Keys : Len(line[m]) \in Nat
  BY LenProperties DEF ChainIInv, LockTypeOK
<1>1. /\ pc[t] # "queued" /\ Live(t) /\ pc' = [pc EXCEPT ![t] = "settled"]
      /\ ~Live(t)' /\ key' = key /\ prev' = prev
  BY <1>t DEF Release, Live
<1>2. line[k] # <<>> /\ line[k][1] = t
  BY <1>1, AtHead DEF ChainIInv, OneChainPerKey
<1>3. \A m \in Keys : \A i \in 2..Len(line[m]) : line[m][i] # t
  BY <1>2, OnlyOnePlace
<1>4. /\ line'[k] = Tail(line[k])
      /\ \A m \in Keys \ {k} : line'[m] = line[m]
      /\ holders'[k] = holders[k] - 1
      /\ \A m \in Keys \ {k} : holders'[m] = holders[m]
      /\ tails'[k] = IF tails[k] = t THEN NoTask ELSE tails[k]
      /\ \A m \in Keys \ {k} : tails'[m] = tails[m]
      /\ \A u \in Tasks \ {t} : pc'[u] = pc[u] /\ (Live(u)' <=> Live(u))
  BY <1>t, <1>1 DEF Release, Live
<1>5. /\ Len(line[k]) > 0 /\ Len(line'[k]) = Len(line[k]) - 1
      /\ \A i \in 1..(Len(line[k]) - 1) : line'[k][i] = line[k][i + 1]
  BY <1>t, <1>2, <1>4, TailOfLine
<1>6. \A m \in Keys : \A i \in 1..Len(line[m]) :
         line[m][i] \in Tasks /\ Live(line[m][i]) /\ key[line[m][i]] = m
  BY <1>t, ElementOfSeq DEF ChainIInv, OneChainPerKey, LineIsLive
<1>7. \A m \in Keys \ {k} : \A i \in 1..Len(line[m]) : line[m][i] # t
  BY <1>6
<1>8. \A m \in Keys : \A a, b \in 1..Len(line[m]) : line[m][a] = line[m][b] => a = b
  BY DEF ChainIInv, OneChainPerKey, LineIsLive
<1>9. LineIsLive'
  <2>1. ASSUME NEW m \in Keys, NEW i \in 1..Len(line'[m])
        PROVE  (Live(line[m][i]) /\ key[line[m][i]] = m)'
    <3>1. PICK j \in 1..Len(line[m]) : line'[m][i] = line[m][j] /\ line[m][j] # t
      <4>1. CASE m = k
        <5>1. i + 1 \in 2..Len(line[k]) /\ line'[k][i] = line[k][i + 1]
              /\ i + 1 \in 1..Len(line[k])
          BY <1>t, <1>5, <4>1
        <5> QED
          BY <1>3, <1>t, <4>1, <5>1
      <4>2. CASE m # k
        BY <1>4, <1>7, <4>2
      <4> QED
        BY <4>1, <4>2
    <3>2. line[m][j] \in Tasks /\ Live(line[m][j]) /\ key[line[m][j]] = m
      BY <1>6
    <3> QED
      BY <1>1, <1>4, <3>1, <3>2 DEF Live
  <2>2. ASSUME NEW m \in Keys, NEW i \in 1..Len(line'[m]),
               NEW j \in 1..Len(line'[m]), line'[m][i] = line'[m][j]
        PROVE  i = j
    <3>1. CASE m # k
      BY <1>4, <1>8, <2>2, <3>1
    <3>2. CASE m = k
      <4>n. /\ i \in 1..(Len(line[k]) - 1) /\ j \in 1..(Len(line[k]) - 1)
            /\ Len(line[k]) \in Nat
        BY <1>t, <1>5, <3>2
      <4>1. /\ i + 1 \in 1..Len(line[k]) /\ line'[k][i] = line[k][i + 1]
            /\ j + 1 \in 1..Len(line[k]) /\ line'[k][j] = line[k][j + 1]
        <5>1. i + 1 \in 1..Len(line[k]) /\ j + 1 \in 1..Len(line[k])
          BY <4>n
        <5>2. line'[k][i] = line[k][i + 1]
          BY <4>n, <1>5
        <5>3. line'[k][j] = line[k][j + 1]
          BY <4>n, <1>5
        <5> QED
          BY <5>1, <5>2, <5>3
      <4>2. i + 1 = j + 1
        BY <1>t, <1>8, <2>2, <3>2, <4>1
      <4> QED
        BY <1>t, <3>2, <4>2
    <3> QED
      BY <3>1, <3>2
  <2>3. ASSUME NEW u \in Tasks, Live(u)'
        PROVE  \E i \in 1..Len(line'[key'[u]]) : line'[key'[u]][i] = u
    <3>1. u # t /\ Live(u) /\ key'[u] = key[u] /\ key[u] \in Keys
      BY <1>1, <1>4, <1>t, <2>3
    <3>2. PICK i \in 1..Len(line[key[u]]) : line[key[u]][i] = u
      BY <3>1 DEF ChainIInv, OneChainPerKey, LineIsLive
    <3>3. CASE key[u] # k
      BY <1>4, <3>1, <3>2, <3>3
    <3>4. CASE key[u] = k
      <4>1. i # 1
        BY <1>2, <3>1, <3>2, <3>4
      <4>2. i - 1 \in 1..(Len(line[k]) - 1) /\ (i - 1) + 1 = i
        BY <1>t, <3>2, <3>4, <4>1
      <4>3. line'[k][i - 1] = u
        BY <1>5, <3>2, <3>4, <4>2
      <4> QED
        BY <1>5, <3>1, <3>4, <4>2, <4>3
    <3> QED
      BY <3>3, <3>4
  <2> QED
    BY <2>1, <2>2, <2>3 DEF LineIsLive
<1>10. BehindWaits'
  <2> SUFFICES ASSUME NEW m \in Keys, NEW i \in 2..Len(line'[m])
               PROVE  pc'[line'[m][i]] = "queued"
                      /\ prev'[line'[m][i]] = line'[m][i - 1]
    BY DEF BehindWaits
  <2>1. CASE m # k
    <3>1. line'[m] = line[m] /\ i \in 2..Len(line[m]) /\ i \in 1..Len(line[m])
      BY <1>4, <1>t, <2>1
    <3>2. pc[line[m][i]] = "queued" /\ prev[line[m][i]] = line[m][i - 1]
      BY <3>1 DEF ChainIInv, OneChainPerKey, BehindWaits
    <3>3. line[m][i] \in Tasks \ {t}
      BY <1>6, <1>7, <2>1, <3>1
    <3> QED
      BY <1>1, <1>4, <3>1, <3>2, <3>3
  <2>2. CASE m = k
    <3>1. /\ i + 1 \in 2..Len(line[k]) /\ i + 1 \in 1..Len(line[k])
          /\ line'[k][i] = line[k][i + 1]
          /\ line'[k][i - 1] = line[k][i]
          /\ (i + 1) - 1 = i
      <4> DEFINE n == Len(line[k])
      <4>a. n \in Nat /\ Len(line'[k]) = n - 1
        BY <1>t, <1>5, LenProperties
      <4>b. i \in 2..(n - 1)
        BY <2>2, <4>a
      <4> HIDE DEF n
      <4>c. /\ i \in 1..(n - 1) /\ i - 1 \in 1..(n - 1)
            /\ (i - 1) + 1 = i /\ (i + 1) - 1 = i
        BY <4>a, <4>b
      <4>1. /\ i \in 1..(Len(line[k]) - 1) /\ i - 1 \in 1..(Len(line[k]) - 1)
            /\ (i - 1) + 1 = i /\ (i + 1) - 1 = i
        BY <4>c DEF n
      <4>2. i + 1 \in 2..Len(line[k]) /\ i + 1 \in 1..Len(line[k])
        BY <1>t, <4>1
      <4> QED
        BY <1>5, <4>1, <4>2
    <3>2. pc[line[k][i + 1]] = "queued" /\ prev[line[k][i + 1]] = line[k][i]
      BY <1>t, <3>1 DEF ChainIInv, OneChainPerKey, BehindWaits
    <3>3. line[k][i + 1] \in Tasks \ {t}
      BY <1>3, <1>6, <1>t, <3>1
    <3> QED
      BY <1>1, <1>4, <2>2, <3>1, <3>2, <3>3
  <2> QED
    BY <2>1, <2>2
<1>11. MapsMatchLine'
  <2>1. \A m \in Keys :
          /\ tails[m] = IF line[m] = <<>> THEN NoTask ELSE line[m][Len(line[m])]
          /\ holders[m] = Len(line[m])
    BY DEF ChainIInv, OneChainPerKey, MapsMatchLine
  <2>2. ASSUME NEW m \in Keys \ {k}
        PROVE  /\ tails'[m] = IF line'[m] = <<>> THEN NoTask ELSE line'[m][Len(line'[m])]
               /\ holders'[m] = Len(line'[m])
    BY <1>4, <2>1
  <2>3. holders'[k] = Len(line'[k])
    BY <1>t, <1>4, <1>5, <2>1
  <2>4. tails'[k] = IF line'[k] = <<>> THEN NoTask ELSE line'[k][Len(line'[k])]
    <3>1. tails[k] = line[k][Len(line[k])]
      BY <1>2, <1>t, <2>1
    <3>2. CASE Len(line[k]) = 1
      <4>1. line'[k] = <<>>
        BY <1>t, <1>2, <1>4, <1>5, <3>2, TailIsEmpty
      <4> QED
        BY <1>2, <1>4, <3>1, <3>2, <4>1
    <3>3. CASE Len(line[k]) # 1
      <4>m. Len(line[k]) \in Nat
        BY <1>t
      <4>p. Len(line[k]) > 0
        BY <1>5
      <4>n. Len(line[k]) > 1
        <5> DEFINE n == Len(line[k])
        <5>1. n \in Nat /\ n > 0 /\ n # 1
          BY <4>m, <4>p, <3>3
        <5> HIDE DEF n
        <5>2. n > 1
          BY <5>1
        <5> QED
          BY <5>2 DEF n
      <4>1. /\ Len(line[k]) \in 2..Len(line[k])
            /\ Len(line[k]) - 1 \in 1..(Len(line[k]) - 1)
            /\ (Len(line[k]) - 1) + 1 = Len(line[k])
            /\ Len(line'[k]) > 0
        BY <4>m, <4>n, <1>5
      <4>2. line'[k] # <<>>
        BY <4>1
      <4>3. line'[k][Len(line'[k])] = line[k][Len(line[k])]
        BY <1>5, <4>1
      <4>4. line[k][Len(line[k])] # t
        BY <1>3, <1>t, <4>1
      <4> QED
        BY <1>4, <3>1, <4>2, <4>3, <4>4
    <3> QED
      BY <3>2, <3>3
  <2> QED
    BY <2>2, <2>3, <2>4 DEF MapsMatchLine
<1> QED
  BY <1>9, <1>10, <1>11 DEF OneChainPerKey

-----------------------------------------------------------------------------
LEMMA ChainInit == LockInit => ChainIInv
<1> SUFFICES ASSUME LockInit
             PROVE  ChainIInv
  OBVIOUS
<1>1. LockTypeOK
  BY LockTypeInit
<1>2. \A k \in Keys : line[k] = <<>> /\ Len(line[k]) = 0
  BY EmptySeq DEF LockInit
<1>3. \A t \in Tasks : ~Live(t)
  BY DEF LockInit, Live
<1>4. LineIsLive
  BY <1>2, <1>3 DEF LineIsLive
<1>5. BehindWaits
  BY <1>2 DEF BehindWaits
<1>6. MapsMatchLine
  BY <1>2 DEF MapsMatchLine, LockInit
<1> QED
  BY <1>1, <1>4, <1>5, <1>6 DEF ChainIInv, OneChainPerKey

LEMMA ChainStep == ChainIInv /\ [LockNext]_chainVars => ChainIInv'
<1> SUFFICES ASSUME ChainIInv, [LockNext]_chainVars
             PROVE  ChainIInv'
  OBVIOUS
<1>1. LockTypeOK'
  BY LockTypeStep
<1>2. ASSUME UNCHANGED chainVars
      PROVE  OneChainPerKey'
  BY <1>2, HeadMovesKeepChain DEF chainVars, Live
<1>3. OneChainPerKey'
  BY <1>2, RegisterKeepsChain, BeginKeepsChain, FinishKeepsChain, ReleaseKeepsChain,
     ReuseKeepsChain DEF LockNext, TaskStep
<1> QED
  BY <1>1, <1>3 DEF ChainIInv

LEMMA ChainAlways == LockSpec => []ChainIInv
  BY ChainInit, ChainStep, PTL DEF LockSpec

\* The bookkeeping of withRepoLock has its types and forms one chain per
\* repository, whatever is called, returns or throws in whatever order.
THEOREM ChainCorrect == LockSpec => [](LockTypeOK /\ OneChainPerKey)
  BY ChainAlways, PTL DEF ChainIInv

-----------------------------------------------------------------------------
LEMMA InvImpliesMutex == ChainIInv => MutualExclusion
<1> SUFFICES ASSUME ChainIInv, NEW t \in Tasks, NEW u \in Tasks,
                    Inside(t), Inside(u), key[t] = key[u]
             PROVE  t = u
  BY DEF MutualExclusion
<1>1. line[key[t]][1] = t
  BY AtHead DEF ChainIInv, OneChainPerKey, Inside, Live
<1>2. line[key[u]][1] = u
  BY AtHead DEF ChainIInv, OneChainPerKey, Inside, Live
<1> QED
  BY <1>1, <1>2

\* At most one function runs on a repository at any time.
THEOREM RepoMutualExclusion == LockSpec => []MutualExclusion
  BY ChainAlways, InvImpliesMutex, PTL

LEMMA InvImpliesBusyHint == ChainIInv => BusyHintExact
<1> SUFFICES ASSUME ChainIInv, NEW k \in Keys
             PROVE  holders[k] > 0 <=> \E t \in Tasks : Live(t) /\ key[t] = k
  BY DEF BusyHintExact
<1>1. /\ line[k] \in Seq(Tasks) /\ Len(line[k]) \in Nat
      /\ holders[k] = Len(line[k])
  BY LenProperties DEF ChainIInv, LockTypeOK, OneChainPerKey, MapsMatchLine
<1>2. ASSUME holders[k] > 0
      PROVE  \E t \in Tasks : Live(t) /\ key[t] = k
  <2>1. 1 \in 1..Len(line[k])
    BY <1>1, <1>2
  <2>2. line[k][1] \in Tasks
    BY <1>1, <2>1, ElementOfSeq
  <2> QED
    BY <2>1, <2>2 DEF ChainIInv, OneChainPerKey, LineIsLive
<1>3. ASSUME NEW t \in Tasks, Live(t), key[t] = k
      PROVE  holders[k] > 0
  <2>1. PICK i \in 1..Len(line[k]) : line[k][i] = t
    BY <1>3 DEF ChainIInv, OneChainPerKey, LineIsLive
  <2> QED
    BY <1>1, <2>1
<1> QED
  BY <1>2, <1>3

\* repoLockBusy answers exactly whether a new call would have to wait.
THEOREM BusyHintIsExact == LockSpec => []BusyHintExact
  BY ChainAlways, InvImpliesBusyHint, PTL

-----------------------------------------------------------------------------
(* Refinement: the chain of promises implements a FIFO lock.               *)

LEMMA LockInitRefines == LockInit => Lock!Init
  BY DEF LockInit, Lock!Init

LEMMA LockStepRefines == ChainIInv /\ [LockNext]_chainVars => [Lock!Next]_(Lock!lockVars)
<1> SUFFICES ASSUME ChainIInv, [LockNext]_chainVars
             PROVE  [Lock!Next]_(Lock!lockVars)
  OBVIOUS
<1> DEFINE Abs(p) == CASE p = "queued" -> "waiting"
                       [] p \in {"inside", "returned", "threw"} -> "inside"
                       [] OTHER -> "idle"
           stage == [t \in Tasks |-> Abs(pc[t])]
<1>t. pc \in [Tasks -> Stages] /\ key \in [Tasks -> Keys]
      /\ line \in [Keys -> Seq(Tasks)]
  BY DEF ChainIInv, LockTypeOK
<1>1. ASSUME NEW t \in Tasks, NEW k \in Keys, Register(t, k)
      PROVE  Lock!Next
  <2>1. Lock!Request(t, k)
    BY <1>1, <1>t DEF Register, Lock!Request
  <2> QED
    BY <2>1 DEF Lock!Next
<1>2. ASSUME NEW t \in Tasks, Begin(t)
      PROVE  Lock!Next
  <2>1. line[key[t]] # <<>> /\ line[key[t]][1] = t
    BY <1>2, AtHead DEF Begin, Live, ChainIInv, OneChainPerKey
  <2>2. Head(line[key[t]]) = t
    BY <1>t, <2>1, TailOfLine
  <2>3. \E k \in Keys : Lock!Enter(t, k)
    <3>1. Lock!Enter(t, key[t])
      BY <1>2, <1>t, <2>1, <2>2 DEF Begin, Lock!Enter
    <3> QED
      BY <1>t, <3>1 DEF Lock!Enter
  <2> QED
    BY <2>3 DEF Lock!Next
<1>3. ASSUME NEW t \in Tasks, Finish(t)
      PROVE  UNCHANGED Lock!lockVars
  BY <1>3, <1>t DEF Finish, Inside, Lock!lockVars
<1>4. ASSUME NEW t \in Tasks, Release(t)
      PROVE  Lock!Next
  <2>1. line[key[t]] # <<>> /\ line[key[t]][1] = t
    BY <1>4, AtHead DEF Release, Live, ChainIInv, OneChainPerKey
  <2>2. Head(line[key[t]]) = t
    BY <1>t, <2>1, TailOfLine
  <2>3. \E k \in Keys : Lock!Leave(t, k)
    <3>1. Lock!Leave(t, key[t])
      BY <1>4, <1>t, <2>1, <2>2 DEF Release, Lock!Leave
    <3> QED
      BY <1>t, <3>1 DEF Lock!Leave
  <2> QED
    BY <2>3 DEF Lock!Next
<1>5. ASSUME NEW t \in Tasks, Reuse(t)
      PROVE  UNCHANGED Lock!lockVars
  BY <1>5, <1>t DEF Reuse, Lock!lockVars
<1>6. CASE UNCHANGED chainVars
  BY <1>6 DEF chainVars, Lock!lockVars
<1> QED
  BY <1>1, <1>2, <1>3, <1>4, <1>5, <1>6 DEF LockNext, TaskStep

\* Calls for one repository are served strictly in call order, one at a time,
\* and calls for different repositories do not meet.
THEOREM ImplementsFifoLock == LockSpec => ServesInCallOrder
  BY LockInitRefines, LockStepRefines, ChainAlways, PTL
     DEF LockSpec, ServesInCallOrder, Lock!Spec


-----------------------------------------------------------------------------
(* The state of a pull request.                                            *)

Probes == [started : Times, answer : Answers, waiting : SUBSET BOOLEAN]

\* A probe is as old as its process may get, and reads after it started.
Timely(q) ==
    /\ q \in Probes
    /\ q.started <= now /\ now <= q.started + Timeout
    /\ \/ q.answer = Unread
       \/ /\ q.started <= q.answer.readAt /\ q.answer.readAt <= now
          /\ q.answer.value \in Truths
    /\ ~q.answer.kept /\ ~q.answer.stale

\* What a probe in flight brings was read no earlier than what is stored.
Newer(q) ==
    store # None /\ q.answer # Unread => store.answer.readAt <= q.answer.readAt

\* One process at a time: a second one would be a second answer on its way.
ProbeInv == \A q, r \in probes : q = r /\ Timely(q) /\ Newer(q)

\* What may go out unflagged: no answer kept from before an approval, and none
\* older than a probe takes.
Sound(a, age) ==
    ~a.stale => ~a.kept /\ (a.value # "unknown" => age <= Timeout)

CacheInv ==
    cache # None => /\ cache \in [at : Times, ttl : {Ttl, FailTtl}, answer : Answers]
                    /\ cache.at <= now
                    /\ Sound(cache.answer, cache.at - cache.answer.readAt)

StoreInv ==
    store # None => /\ store \in [answer : Answers, checkedAt : Times]
                    /\ store.answer.value \in Truths /\ ~store.answer.stale
                    /\ store.answer.readAt <= now

ServedInv ==
    \A a \in served :
        /\ a \in [answer : Answers, refresh : BOOLEAN]
        /\ ~a.answer.stale => ~a.answer.kept
        /\ ~a.answer.stale /\ a.answer.value # "unknown" =>
            /\ now - a.answer.readAt < Ttl + Timeout
            /\ a.refresh => now - a.answer.readAt <= Timeout

Rest == now \in Times /\ github \in Truths /\ forced \in Times \cup {0} /\ approving \in BOOLEAN

CacheIInv == ProbeInv /\ CacheInv /\ StoreInv /\ ServedInv /\ Rest

-----------------------------------------------------------------------------
LEMMA TimesAreNats ==
  /\ Ttl \in Nat /\ FailTtl \in Nat /\ Floor \in Nat /\ Timeout \in Nat /\ MaxTime \in Nat
  /\ 0 < MaxTime /\ FailTtl <= Ttl /\ 0 < Ttl /\ 0 < Timeout
  /\ \A t \in Times : t \in Nat /\ t > 0
  BY TimesAssumption DEF TimesAssumption, Times

LEMMA UnreadIsAnswer == Unread \in Answers /\ ~Unread.kept /\ ~Unread.stale /\ Unread.value = "unknown"
  BY DEF Unread, Answers

\* A request that starts a probe, or waits for the one there is.
LEMMA ProbeKeeps ==
  ASSUME ProbeInv, Rest, NEW w \in SUBSET BOOLEAN, Probe(w),
         now' = now, store' = store
  PROVE  ProbeInv'
  <1>1. CASE probes = {}
    <2>1. probes' = {Fresh(w)}
      BY <1>1 DEF Probe
    <2>2. Fresh(w) \in Probes /\ Fresh(w).started = now /\ Fresh(w).answer = Unread
      BY UnreadIsAnswer DEF Fresh, Probes, Rest
    <2>3. Timely(Fresh(w))
      BY <2>2, TimesAreNats, UnreadIsAnswer DEF Timely, Rest
    <2>4. \A q \in probes' : q = Fresh(w)
      BY <2>1
    <2> QED BY <2>2, <2>3, <2>4 DEF ProbeInv, Timely, Newer
  <1>2. CASE probes # {}
    <2>1. probes' = {[q EXCEPT !.waiting = q.waiting \cup w] : q \in probes}
      BY <1>2 DEF Probe
    <2>2. PICK r \in probes : \A q \in probes : q = r
      BY <1>2 DEF ProbeInv
    <2> DEFINE s == [r EXCEPT !.waiting = r.waiting \cup w]
    <2>3. \A q \in probes' : q = s
      BY <2>1, <2>2
    <2>4. s \in Probes /\ s.started = r.started /\ s.answer = r.answer
      BY <2>2 DEF ProbeInv, Timely, Probes
    <2> HIDE DEF s
    <2>5. Timely(s)' /\ Newer(s)'
      BY <2>2, <2>4 DEF ProbeInv, Timely, Newer
    <2> QED BY <2>3, <2>5 DEF ProbeInv, Timely, Newer
  <1> QED BY <1>1, <1>2

LEMMA CacheInit == ASSUME Init PROVE CacheIInv
  <1>1. Rest
    <2>1. 1 \in Times
      BY TimesAreNats DEF Times
    <2> QED BY <2>1 DEF Init, Rest, Truths
  <1> QED BY <1>1 DEF Init, CacheIInv, ProbeInv, CacheInv, StoreInv, ServedInv

-----------------------------------------------------------------------------
\* Nothing went out in a step that serves nobody.
LEMMA NobodyServed == ASSUME served' = {} PROVE ServedInv'
  BY DEF ServedInv

LEMMA ProbesStay ==
  ASSUME ProbeInv, probes' = probes, now' = now, store' = store PROVE ProbeInv'
  BY DEF ProbeInv, Timely, Newer

LEMMA CacheStays ==
  ASSUME CacheInv, cache' = cache \/ cache' = None, now' = now PROVE CacheInv'
  BY DEF CacheInv

\* A clock that moves on while every probe is younger than its timeout.
LEMMA TickStep == ASSUME CacheIInv, Tick PROVE CacheIInv'
  <1>1. now' = now + 1 /\ now' \in Times /\ now \in Nat
    BY TimesAreNats DEF Tick, CacheIInv, Rest, Times
  <1>2. ProbeInv'
    <2>1. ASSUME NEW q \in probes PROVE Timely(q)'
      <3>1. q.started \in Nat /\ q.answer.readAt \in Nat
        BY TimesAreNats DEF CacheIInv, ProbeInv, Timely, Probes, Answers
      <3> QED BY <1>1, <3>1, TimesAreNats DEF Tick, CacheIInv, ProbeInv, Timely, Times
    <2> QED BY <2>1 DEF Tick, CacheIInv, ProbeInv, Newer
  <1>3. CacheInv'
    <2>1. cache # None => cache.at \in Nat
      BY TimesAreNats DEF CacheIInv, CacheInv
    <2> QED BY <1>1, <2>1 DEF Tick, CacheIInv, CacheInv
  <1>4. ServedInv'
    BY NobodyServed DEF Tick
  <1>5. StoreInv'
    <2>1. store # None => store.answer.readAt \in Nat
      BY TimesAreNats DEF CacheIInv, StoreInv, Answers
    <2> QED BY <1>1, <2>1 DEF Tick, CacheIInv, StoreInv
  <1> QED BY <1>1, <1>2, <1>3, <1>4, <1>5 DEF Tick, CacheIInv, Rest

LEMMA ReadsStep == ASSUME CacheIInv, NEW q \in probes, GithubReads(q) PROVE CacheIInv'
  <1>1. PICK a : a = [Unread EXCEPT !.value = github, !.readAt = now]
    OBVIOUS
  <1>2. PICK s : s = [q EXCEPT !.answer = a]
    OBVIOUS
  <1>3. probes' = {s} /\ UNCHANGED <<now, github, cache, store, forced, approving>> /\ served' = {}
    BY <1>1, <1>2 DEF GithubReads, CacheIInv, ProbeInv
  <1>4. a \in Answers /\ a.value = github /\ a.readAt = now /\ ~a.kept /\ ~a.stale
    BY <1>1 DEF CacheIInv, Rest, Unread, Answers
  <1>5. q \in Probes /\ q.started <= now /\ now <= q.started + Timeout
    BY DEF CacheIInv, ProbeInv, Timely
  <1>6. s \in Probes /\ s.started = q.started /\ s.answer = a
    BY <1>2, <1>4, <1>5 DEF Probes
  <1>7. Timely(s)'
    BY <1>3, <1>4, <1>5, <1>6, TimesAreNats DEF Timely, CacheIInv, Rest
  <1>8. Newer(s)'
    BY <1>3, <1>4, <1>6 DEF Newer, CacheIInv, StoreInv
  <1>9. ProbeInv'
    BY <1>3, <1>7, <1>8 DEF ProbeInv
  <1> QED BY <1>3, <1>9, NobodyServed, CacheStays DEF CacheIInv, StoreInv, Rest

\* What is handed to those who wait for a probe.
LEMMA ServeKeeps ==
  ASSUME Rest, now' = now, NEW q, q \in Probes, NEW a \in Answers, Serve(q, a),
         ~a.stale => ~a.kept,
         ~a.stale /\ a.value # "unknown" => now - a.readAt <= Timeout
  PROVE  ServedInv'
  <1>1. \A b \in served' : b.answer = a /\ b.refresh \in BOOLEAN
                          /\ b \in [answer : Answers, refresh : BOOLEAN]
    BY DEF Serve, Probes
  <1>2. now \in Nat /\ a.readAt \in Nat
    BY TimesAreNats DEF Rest, Answers
  <1> QED BY <1>1, <1>2, TimesAreNats DEF ServedInv

LEMMA SucceedsStep == ASSUME CacheIInv, NEW q \in probes, ProbeSucceeds(q) PROVE CacheIInv'
  <1>1. PICK a : a = q.answer
    OBVIOUS
  <1>2. /\ q \in Probes /\ q.started <= now /\ now <= q.started + Timeout
        /\ a \in Answers /\ q.started <= a.readAt /\ a.readAt <= now
        /\ a.value \in Truths /\ ~a.kept /\ ~a.stale
    BY <1>1 DEF CacheIInv, ProbeInv, Timely, Probes, ProbeSucceeds
  <1>3. /\ probes' = {} /\ store' = [answer |-> a, checkedAt |-> now]
        /\ cache' = [at |-> now, ttl |-> Ttl, answer |-> a] /\ Serve(q, a)
        /\ UNCHANGED <<now, github, forced, approving>>
    BY <1>1 DEF ProbeSucceeds, CacheIInv, ProbeInv
  <1>4. now \in Times /\ now \in Nat /\ a.readAt \in Nat /\ q.started \in Nat
    BY <1>2, TimesAreNats DEF CacheIInv, Rest, Answers, Probes
  <1>5. now - a.readAt <= Timeout
    BY <1>2, <1>4, TimesAreNats
  <1>6. ServedInv'
    BY <1>2, <1>3, <1>5, ServeKeeps DEF CacheIInv
  <1>7. CacheInv'
    <2>1. cache' \in [at : Times, ttl : {Ttl, FailTtl}, answer : Answers]
      BY <1>2, <1>3, <1>4
    <2>2. cache'.at = now /\ cache'.answer = a
      BY <1>3
    <2> QED BY <1>2, <1>3, <1>4, <1>5, <2>1, <2>2 DEF CacheInv, Sound
  <1>8. StoreInv'
    BY <1>2, <1>3, <1>4 DEF StoreInv
  <1>9. ProbeInv'
    BY <1>3 DEF ProbeInv
  <1> QED BY <1>3, <1>6, <1>7, <1>8, <1>9 DEF CacheIInv, Rest

LEMMA FailsStep == ASSUME CacheIInv, NEW q \in probes, ProbeFails(q) PROVE CacheIInv'
  <1>1. PICK a : a = (IF store = None THEN Unread ELSE [store.answer EXCEPT !.stale = TRUE])
    OBVIOUS
  <1>2. a \in Answers /\ (~a.stale => ~a.kept /\ a.value = "unknown")
    <2>1. CASE store = None
      BY <1>1, <2>1, UnreadIsAnswer
    <2>2. CASE store # None
      <3>1. store.answer \in Answers
        BY <2>2 DEF CacheIInv, StoreInv
      <3> QED BY <1>1, <2>2, <3>1 DEF Answers
    <2> QED BY <2>1, <2>2
  <1>3. /\ probes' = {} /\ Serve(q, a) /\ UNCHANGED <<now, github, store, forced, approving>>
        /\ cache' = [at |-> now, ttl |-> FailTtl, answer |-> a]
    BY <1>1 DEF ProbeFails, CacheIInv, ProbeInv
  <1>4. q \in Probes
    BY DEF CacheIInv, ProbeInv, Timely
  <1>5. ServedInv'
    BY <1>2, <1>3, <1>4, ServeKeeps DEF CacheIInv
  <1>6. CacheInv'
    <2>1. now \in Times /\ now \in Nat
      BY TimesAreNats DEF CacheIInv, Rest
    <2> QED BY <1>2, <1>3, <2>1 DEF CacheInv, Sound
  <1>7. ProbeInv'
    BY <1>3 DEF ProbeInv
  <1> QED BY <1>3, <1>5, <1>6, <1>7 DEF CacheIInv, Rest, StoreInv

-----------------------------------------------------------------------------
LEMMA AskStep == ASSUME CacheIInv, Ask PROVE CacheIInv'
  <1>1. UNCHANGED <<now, github, cache, store, forced, approving>>
    BY DEF Ask
  <1>2. CASE Hit
    <2>1. served' = {[answer |-> cache.answer, refresh |-> FALSE]} /\ probes' = probes
      BY <1>2 DEF Ask
    <2>2. /\ cache.answer \in Answers /\ cache.at \in Nat /\ now \in Nat
          /\ cache.answer.readAt \in Nat /\ now - cache.at < Ttl
          /\ Sound(cache.answer, cache.at - cache.answer.readAt)
      BY <1>2, TimesAreNats DEF Hit, CacheIInv, CacheInv, Rest, Answers
    <2>3. PICK c : c = [answer |-> cache.answer, refresh |-> FALSE]
      OBVIOUS
    <2>4. c \in [answer : Answers, refresh : BOOLEAN] /\ c.answer = cache.answer /\ c.refresh = FALSE
      BY <2>2, <2>3
    <2>5. \A b \in served' : b = c
      BY <2>1, <2>3
    <2>6. ServedInv'
      BY <1>1, <2>2, <2>4, <2>5, TimesAreNats DEF ServedInv, Sound
    <2> QED BY <1>1, <2>1, <2>6, ProbesStay, CacheStays DEF CacheIInv, StoreInv, Rest
  <1>3. CASE ~Hit
    <2>1. Probe({FALSE}) /\ served' = {}
      BY <1>3 DEF Ask
    <2>2. ProbeInv'
      BY <1>1, <2>1, ProbeKeeps DEF CacheIInv
    <2> QED BY <1>1, <2>1, <2>2, NobodyServed, CacheStays DEF CacheIInv, StoreInv, Rest
  <1> QED BY <1>2, <1>3

LEMMA RefreshStep == ASSUME CacheIInv, Refresh \/ BackgroundRefresh PROVE CacheIInv'
  <1>1. /\ UNCHANGED <<now, github, store, approving>> /\ served' = {}
        /\ cache' = cache \/ cache' = None
        /\ forced' = forced \/ forced' = now
    BY DEF Refresh, BackgroundRefresh
  <1>2. ProbeInv'
    <2>1. PICK w \in SUBSET BOOLEAN : Probe(w)
      BY DEF Refresh, BackgroundRefresh
    <2> QED BY <1>1, <2>1, ProbeKeeps DEF CacheIInv
  <1> QED BY <1>1, <1>2, NobodyServed, CacheStays DEF CacheIInv, StoreInv, Rest

LEMMA ApproveReturnsStep == ASSUME CacheIInv, ApproveReturns PROVE CacheIInv'
  <1>1. /\ UNCHANGED <<now, github, probes, forced>> /\ served' = {}
        /\ cache' = None /\ approving' = FALSE /\ StoreKept
    BY DEF ApproveReturns
  <1>2. CASE store = None
    <2>1. store' = store
      BY <1>1, <1>2 DEF StoreKept
    <2> QED BY <1>1, <2>1, NobodyServed, CacheStays, ProbesStay DEF CacheIInv, StoreInv, Rest
  <1>3. CASE store # None
    <2>1. store' = [store EXCEPT !.answer = Kept(store.answer)]
      BY <1>1, <1>3 DEF StoreKept
    <2>2. store \in [answer : Answers, checkedAt : Times]
      BY <1>3 DEF CacheIInv, StoreInv
    <2>3. Kept(store.answer) \in Answers /\ Kept(store.answer).readAt = store.answer.readAt
          /\ Kept(store.answer).value = store.answer.value /\ Kept(store.answer).stale = store.answer.stale
      BY <2>2 DEF Kept, Answers
    <2>4. store' \in [answer : Answers, checkedAt : Times] /\ store'.answer = Kept(store.answer)
      BY <2>1, <2>2, <2>3
    <2>5. StoreInv'
      BY <1>1, <1>3, <2>3, <2>4 DEF CacheIInv, StoreInv
    <2>6. ProbeInv'
      BY <1>1, <1>3, <2>3, <2>4 DEF CacheIInv, ProbeInv, Timely, Newer
    <2> QED BY <1>1, <2>5, <2>6, NobodyServed, CacheStays DEF CacheIInv, Rest
  <1> QED BY <1>2, <1>3

LEMMA CacheStep == ASSUME CacheIInv, [Next]_vars PROVE CacheIInv'
  <1>1. CASE GithubChanges
    BY <1>1, NobodyServed, ProbesStay, CacheStays DEF GithubChanges, CacheIInv, StoreInv, Rest
  <1>2. CASE ApproveLands
    BY <1>2, NobodyServed, ProbesStay, CacheStays DEF ApproveLands, CacheIInv, StoreInv, Rest, Truths
  <1>3. CASE Restart
    <2>1. ProbeInv'
      BY <1>3 DEF Restart, ProbeInv
    <2> QED BY <1>3, <2>1, NobodyServed, CacheStays DEF Restart, CacheIInv, StoreInv, Rest
  <1>4. CASE UNCHANGED vars
    <2>1. ServedInv'
      BY <1>4 DEF vars, CacheIInv, ServedInv
    <2> QED BY <1>4, <2>1, ProbesStay, CacheStays DEF vars, CacheIInv, StoreInv, Rest
  <1> QED BY <1>1, <1>2, <1>3, <1>4, TickStep, ReadsStep, SucceedsStep, FailsStep, AskStep,
             RefreshStep, ApproveReturnsStep DEF Next

LEMMA CacheAlways == Spec => []CacheIInv
  BY CacheInit, CacheStep, PTL DEF Spec

\* What goes out unflagged was read from GitHub within a probe's time and the
\* cache's, and within a probe's time when a refresh was honoured (probePrState,
\* the cache of the pr-state route).
THEOREM AnswersStayRecent == Spec => []AnswersAreRecent
  <1>1. CacheIInv => AnswersAreRecent
    <2> SUFFICES ASSUME CacheIInv PROVE AnswersAreRecent
      OBVIOUS
    <2>1. \A q \in probes : q \in Probes
      BY DEF CacheIInv, ProbeInv, Timely
    <2>2. TypeOK
      BY <2>1 DEF CacheIInv, CacheInv, StoreInv, ServedInv, Rest, TypeOK, Probes
    <2> QED BY <2>2 DEF CacheIInv, ServedInv, AnswersAreRecent
  <1> QED BY <1>1, CacheAlways, PTL

\* After an approval here no answer kept from before it goes out unflagged
\* (forgetPrState, and the flag of an answer taken from the store).
THEOREM ApprovalsAreSeen == Spec => []ApprovalIsSeen
  <1>1. CacheIInv => ApprovalIsSeen
    BY DEF CacheIInv, ServedInv, ApprovalIsSeen
  <1> QED BY <1>1, CacheAlways, PTL

\* prStateStore never goes back to an older reading: one gh process per pull
\* request is what keeps a slow answer from overwriting a later one.
THEOREM StoreOnlyMovesForward == Spec => StoreMovesForward
  <1>1. CacheIInv /\ [Next]_vars => [store # None => store'.answer.readAt >= store.answer.readAt]_vars
    <2> SUFFICES ASSUME CacheIInv, Next, store # None
                 PROVE  store'.answer.readAt >= store.answer.readAt
      OBVIOUS
    <2>1. store.answer \in Answers /\ store.answer.readAt \in Nat
      BY TimesAreNats DEF CacheIInv, StoreInv, Answers
    <2>2. ASSUME NEW q \in probes, ProbeSucceeds(q)
          PROVE  store'.answer.readAt >= store.answer.readAt
      <3>1. q.answer.readAt \in Nat /\ q.answer # Unread
        BY <2>2, TimesAreNats DEF ProbeSucceeds, CacheIInv, ProbeInv, Timely, Probes, Answers
      <3>2. store'.answer = q.answer
        BY <2>2 DEF ProbeSucceeds
      <3> QED BY <2>1, <3>1, <3>2 DEF CacheIInv, ProbeInv, Newer
    <2>3. CASE ApproveReturns
      <3>1. store' = [store EXCEPT !.answer = Kept(store.answer)]
        BY <2>3 DEF ApproveReturns, StoreKept
      <3>2. store \in [answer : Answers, checkedAt : Times]
        BY DEF CacheIInv, StoreInv
      <3>3. store'.answer = Kept(store.answer)
        BY <3>1, <3>2
      <3> QED BY <2>1, <3>3 DEF Kept, Answers
    <2>4. ASSUME store' = store PROVE store'.answer.readAt >= store.answer.readAt
      BY <2>1, <2>4
    <2> QED BY <2>2, <2>3, <2>4
            DEF Next, Tick, GithubChanges, GithubReads, ProbeFails, Ask, Refresh,
                BackgroundRefresh, ApproveLands, Restart
  <1> QED BY <1>1, CacheAlways, PTL DEF Spec, StoreMovesForward

-----------------------------------------------------------------------------
(* The page of a review.  The inductive invariant says what each of its    *)
(* sources still owes it: the snapshots, the stream, the answers.          *)

Kinds == {"queued", "running", "phase", "interrupted", "verify_restart", "done", "skipped", "failed"}
Ends == {"done", "skipped", "failed"}
Events == [kind : Kinds, run : 0..MaxRuns]
Messages == Events \cup [kind : {"caught_up"}] \cup [kind : {"stream_end"}, state : {"done", "failed", "removed"}]

Reviews == [listed : BOOLEAN, state : States, run : 0..MaxRuns, events : Seq(Events)]
Sockets == [st : {"closed", "open"}, q : Seq(Snapshots)]
Streams == [st : {"none", "connecting", "open", "ending", "refused"}, q : Seq(Messages),
            over : 0..MaxRuns, again : BOOLEAN]
Rows == [present : BOOLEAN, state : States, finished : BOOLEAN, replaying : BOOLEAN,
         notified : BOOLEAN, loaded : BOOLEAN]
Requests == [list : BOOLEAN, got : Seq(Snapshots), record : States \cup {Nothing, "asked"},
             own : {Nothing, "submit", "verify", "delete"}]

ViewTypes ==
    /\ srv \in Reviews /\ crowd \in BOOLEAN /\ ws \in Sockets /\ es \in Streams /\ row \in Rows
    /\ asked \in Requests /\ heard \in [chimed : SUBSET (0..MaxRuns), misled : BOOLEAN]

\* The last snapshot on its way shows the server as it is.
LastIsCurrent ==
    /\ ws.st = "closed" => ws.q = <<>>
    /\ ws.q # <<>> => ws.q[Len(ws.q)] = JobsSnapshot(srv, crowd)

\* Before its first run there is no trace of the review.
NothingYet ==
    srv.run = 0 =>
        /\ ~srv.listed /\ srv.state = "queued" /\ srv.events = <<>> /\ ~row.present
        /\ \A s \in ToSet(ws.q) \cup ToSet(asked.got) : s.item = Nothing
        /\ asked.record = Nothing /\ asked.own = Nothing

\* The page's stream belongs to its row.
StreamIsOfRow ==
    /\ es.st # "none" => row.present
    /\ row.loaded => row.present
    /\ es.st \notin {"open", "ending"} => es.q = <<>>

\* What was removed had ended, and only its stream is refused.
RemovedIsOver ==
    /\ ~srv.listed => srv.state # "running"
    /\ es.st = "refused" \/ asked.own = "delete" => ~srv.listed

\* An active review is streamed, or a snapshot will tell of it, or it was let go of.
StreamedOrTold ==
    srv.listed /\ Active(srv.state) /\ ~crowd /\ ~heard.misled /\ es.st = "none" =>
        ws.st = "closed" \/ ws.q # <<>>

\* No end is told of a run under way.
InPast(ev) == ev.kind \in Ends => ev.run <= srv.run /\ (Active(srv.state) => ev.run < srv.run)

EndsArePast == \A ev \in ToSet(srv.events) \cup ToSet(es.q) : InPast(ev)

\* While a list of before the submission is on its way, the first run goes on.
Gone == [item |-> Nothing, complete |-> TRUE]
Begins(ev) == ev.kind \in {"queued", "running", "phase", "caught_up"}

FirstRunGoesOn ==
    srv.listed /\ Gone \in ToSet(ws.q) \cup ToSet(asked.got) =>
        /\ Active(srv.state) /\ \A ev \in ToSet(srv.events) \cup ToSet(es.q) : Begins(ev)
        /\ \A s \in ToSet(ws.q) \cup ToSet(asked.got) : ~Terminal(s.item)
        /\ ~Terminal(asked.record) /\ (row.present => Active(row.state))

\* A message of the stream is live if it comes behind the replay.
CaughtUpBefore(q, i) == \E c \in 1..Len(q) : c < i /\ q[c].kind = "caught_up"
LiveIn(q, r, i) == ~r.replaying \/ CaughtUpBefore(q, i)

\* What is live is of runs that were not over when the stream was opened; and of a
\* stream the page opened, only what is live.
ReplayIsKnown ==
    /\ es.st = "connecting" /\ ~es.again => row.replaying
    /\ es.st = "open" => /\ es.over <= srv.run /\ (Active(srv.state) => es.over < srv.run)
                         /\ LiveIn(es.q, row, Len(es.q) + 1)
    /\ \A i \in 1..Len(es.q) :
           /\ es.q[i].kind \in Ends /\ es.q[i].run > es.over => LiveIn(es.q, row, i)
           /\ ~es.again /\ es.q[i].kind \in Ends /\ LiveIn(es.q, row, i) => es.q[i].run > es.over
           /\ ~es.again /\ es.q[i].kind = "stream_end" /\ Terminal(es.q[i].state) => ~LiveIn(es.q, row, i)

\* A record asked for is of the row that is there.
LogIsOfRow ==
    asked.record # Nothing => row.loaded \/ (~srv.listed /\ es.st \notin {"open", "ending"})

\* Behind the replay nothing has ended yet.
NotYetOver ==
    /\ es.st \in {"open", "ending"} \/ (es.st = "connecting" /\ srv.listed)
    /\ ~row.replaying /\ ~row.loaded
    => ~row.finished /\ ~row.notified

ViewIInv ==
    /\ ViewTypes /\ LastIsCurrent /\ NothingYet /\ StreamIsOfRow /\ RemovedIsOver /\ StreamedOrTold /\ EndsArePast
    /\ FirstRunGoesOn /\ ReplayIsKnown /\ LogIsOfRow /\ NotYetOver

-----------------------------------------------------------------------------
(* What sequences hold.                                                    *)

LEMMA HeldBy ==
  ASSUME NEW S, NEW s \in Seq(S)
  PROVE  /\ Len(s) \in Nat /\ ToSet(s) = {s[i] : i \in 1..Len(s)} /\ ToSet(s) \subseteq S
         /\ \A x : x \in ToSet(s) <=> \E i \in 1..Len(s) : s[i] = x
  <1>1. Len(s) \in Nat /\ DOMAIN s = 1..Len(s) /\ \A i \in 1..Len(s) : s[i] \in S
    BY LenProperties, ElementOfSeq
  <1> QED BY <1>1 DEF ToSet

LEMMA HeldByNone == ToSet(<<>>) = {} /\ Len(<<>>) = 0
  BY DEF ToSet

LEMMA HeldByOne ==
  ASSUME NEW S, NEW x \in S
  PROVE  <<x>> \in Seq(S) /\ Len(<<x>>) = 1 /\ <<x>>[1] = x /\ ToSet(<<x>>) = {x}
  <1>1. <<x>> \in Seq(S) /\ Len(<<x>>) = 1 /\ <<x>>[1] = x /\ DOMAIN <<x>> = 1..1
    OBVIOUS
  <1>2. ToSet(<<x>>) = {<<x>>[i] : i \in 1..1}
    BY <1>1 DEF ToSet
  <1>3. {<<x>>[i] : i \in 1..1} = {x}
    BY <1>1
  <1> QED BY <1>1, <1>2, <1>3

LEMMA HeldByTwo ==
  ASSUME NEW S, NEW x \in S, NEW y \in S
  PROVE  <<x, y>> \in Seq(S) /\ Len(<<x, y>>) = 2 /\ ToSet(<<x, y>>) = {x, y}
  <1>1. /\ <<x, y>> \in Seq(S) /\ Len(<<x, y>>) = 2 /\ <<x, y>>[1] = x /\ <<x, y>>[2] = y
        /\ DOMAIN <<x, y>> = 1..2
    OBVIOUS
  <1>2. ToSet(<<x, y>>) = {<<x, y>>[i] : i \in 1..2}
    BY <1>1 DEF ToSet
  <1>3. {<<x, y>>[i] : i \in 1..2} = {x, y}
    BY <1>1
  <1> QED BY <1>1, <1>2, <1>3

LEMMA HeldByBoth ==
  ASSUME NEW S, NEW s \in Seq(S), NEW t \in Seq(S)
  PROVE  /\ s \o t \in Seq(S) /\ Len(s \o t) = Len(s) + Len(t)
         /\ \A i \in 1..Len(s) : (s \o t)[i] = s[i]
         /\ \A i \in (Len(s) + 1)..(Len(s) + Len(t)) : (s \o t)[i] = t[i - Len(s)]
         /\ ToSet(s \o t) = ToSet(s) \cup ToSet(t)
  <1>1. Len(s) \in Nat /\ Len(t) \in Nat
    BY LenProperties
  <1>2. /\ s \o t \in Seq(S) /\ Len(s \o t) = Len(s) + Len(t)
        /\ \A i \in 1..Len(s) + Len(t) : (s \o t)[i] = IF i <= Len(s) THEN s[i] ELSE t[i - Len(s)]
    BY ConcatProperties
  <1>3. /\ \A i \in 1..Len(s) : (s \o t)[i] = s[i]
        /\ \A i \in (Len(s) + 1)..(Len(s) + Len(t)) : (s \o t)[i] = t[i - Len(s)]
    BY <1>1, <1>2
  <1>4. ASSUME NEW x \in ToSet(s \o t) PROVE x \in ToSet(s) \cup ToSet(t)
    <2>1. PICK i \in 1..(Len(s) + Len(t)) : (s \o t)[i] = x
      BY <1>2, HeldBy
    <2>2. CASE i <= Len(s)
      <3>1. i \in 1..Len(s) /\ s[i] = x
        BY <1>1, <1>3, <2>1, <2>2
      <3> QED BY <3>1, HeldBy
    <2>3. CASE ~(i <= Len(s))
      <3>1. i - Len(s) \in 1..Len(t) /\ t[i - Len(s)] = x
        BY <1>1, <1>3, <2>1, <2>3
      <3> QED BY <3>1, HeldBy
    <2> QED BY <2>2, <2>3
  <1>5. ASSUME NEW x \in ToSet(s) PROVE x \in ToSet(s \o t)
    <2>1. PICK i \in 1..Len(s) : s[i] = x
      BY HeldBy
    <2>2. i \in 1..Len(s \o t) /\ (s \o t)[i] = x
      BY <1>1, <1>2, <1>3, <2>1
    <2> QED BY <1>2, <2>2, HeldBy
  <1>6. ASSUME NEW x \in ToSet(t) PROVE x \in ToSet(s \o t)
    <2>1. PICK i \in 1..Len(t) : t[i] = x
      BY HeldBy
    <2>2. i + Len(s) \in 1..Len(s \o t) /\ i + Len(s) \in (Len(s) + 1)..(Len(s) + Len(t)) /\ (i + Len(s)) - Len(s) = i
      BY <1>1, <1>2, <2>1
    <2>3. (s \o t)[i + Len(s)] = x
      BY <1>3, <2>1, <2>2
    <2> QED BY <1>2, <2>2, <2>3, HeldBy
  <1> QED BY <1>2, <1>3, <1>4, <1>5, <1>6

LEMMA HeldByAppended ==
  ASSUME NEW S, NEW s \in Seq(S), NEW x \in S
  PROVE  /\ Append(s, x) \in Seq(S) /\ Len(Append(s, x)) = Len(s) + 1
         /\ \A i \in 1..Len(s) : Append(s, x)[i] = s[i]
         /\ Append(s, x)[Len(s) + 1] = x
         /\ ToSet(Append(s, x)) = ToSet(s) \cup {x}
  <1>1. /\ Append(s, x) \in Seq(S) /\ Len(s) \in Nat /\ Len(Append(s, x)) = Len(s) + 1
        /\ \A i \in 1..Len(s) : Append(s, x)[i] = s[i]
        /\ Append(s, x)[Len(s) + 1] = x
    BY AppendProperties, LenProperties
  <1>2. \A y : y \in ToSet(Append(s, x)) <=> \E i \in 1..Len(Append(s, x)) : Append(s, x)[i] = y
    BY <1>1, HeldBy
  <1>3. \A y : y \in ToSet(s) <=> \E i \in 1..Len(s) : s[i] = y
    BY HeldBy
  <1>4. Len(s) + 1 \in 1..Len(Append(s, x)) /\ \A i \in 1..Len(s) : i \in 1..Len(Append(s, x))
    BY <1>1
  <1>5. \A i \in 1..Len(Append(s, x)) : i \in 1..Len(s) \/ i = Len(s) + 1
    BY <1>1
  <1>6. \A y : y \in ToSet(Append(s, x)) => y \in ToSet(s) \cup {x}
    BY <1>1, <1>2, <1>3, <1>5
  <1>7. \A y : y \in ToSet(s) \cup {x} => y \in ToSet(Append(s, x))
    BY <1>1, <1>2, <1>3, <1>4
  <1> QED BY <1>1, <1>6, <1>7

LEMMA HeldByRest ==
  ASSUME NEW S, NEW s \in Seq(S), s # <<>>
  PROVE  /\ Tail(s) \in Seq(S) /\ Len(s) \in Nat \ {0} /\ Len(Tail(s)) = Len(s) - 1
         /\ Head(s) = s[1] /\ Head(s) \in S /\ Head(s) \in ToSet(s)
         /\ \A i \in 1..(Len(s) - 1) : Tail(s)[i] = s[i + 1]
         /\ ToSet(Tail(s)) \subseteq ToSet(s)
  <1>1. /\ Tail(s) \in Seq(S) /\ Len(s) \in Nat \ {0} /\ Len(Tail(s)) = Len(s) - 1
        /\ Head(s) \in S /\ \A i \in 1..(Len(s) - 1) : Tail(s)[i] = s[i + 1]
    BY HeadTailProperties, EmptySeq
  <1>2. Head(s) = s[1]
    BY <1>1
  <1>3. \A x \in ToSet(Tail(s)) : x \in ToSet(s)
    <2> SUFFICES ASSUME NEW x \in ToSet(Tail(s)) PROVE x \in ToSet(s)
      OBVIOUS
    <2>0. \E i \in 1..Len(Tail(s)) : Tail(s)[i] = x
      BY <1>1, HeldBy
    <2>1. PICK i \in 1..(Len(s) - 1) : Tail(s)[i] = x
      BY <1>1, <2>0
    <2>2. i + 1 \in 1..Len(s) /\ s[i + 1] = x
      BY <1>1, <2>1
    <2> QED BY <2>2, HeldBy
  <1>4. Head(s) \in ToSet(s)
    BY <1>1, <1>2, HeldBy
  <1> QED BY <1>1, <1>2, <1>3, <1>4

-----------------------------------------------------------------------------
(* What a step pushes: snapshots to the socket, events to the stream.      *)

LEMMA Given ==
  /\ Nothing \notin States /\ Nothing \notin {"asked", "submit", "verify", "delete"} /\ MaxRuns \in Nat \ {0}
  /\ ~Active(Nothing) /\ ~Terminal(Nothing)
  /\ \A s \in States : Active(s) <=> ~Terminal(s)
  BY LiveViewAssumption DEF States, Active, Terminal

LEMMA RunsAreNats ==
  ASSUME ViewTypes
  PROVE  srv.run \in Nat /\ srv.run <= MaxRuns /\ es.over \in Nat
  BY Given DEF ViewTypes, Reviews, Streams

LEMMA SnapshotIs ==
  ASSUME NEW s \in Reviews, NEW c \in BOOLEAN
  PROVE  /\ JobsSnapshot(s, c) \in Snapshots
         /\ s.listed => JobsSnapshot(s, c) # Gone
         /\ JobsSnapshot(s, c).item # Nothing => s.listed /\ JobsSnapshot(s, c).item = s.state
         /\ s.listed /\ ~c => JobsSnapshot(s, c).item = s.state
  <1>1. s.state \in States /\ s.listed \in BOOLEAN
    BY DEF Reviews
  <1> QED BY <1>1, Given DEF JobsSnapshot, Snapshots, Gone

\* A snapshot is sent to who is connected.
SocketTells(s, c) ==
    /\ ws' \in Sockets /\ ws'.st = ws.st
    /\ ToSet(ws'.q) \subseteq ToSet(ws.q) \cup {JobsSnapshot(s, c)}
    /\ ws'.st = "closed" => ws'.q = <<>>
    /\ ws'.q # <<>> => ws'.q[Len(ws'.q)] = JobsSnapshot(s, c)

LEMMA Broadcast ==
  ASSUME ViewTypes, LastIsCurrent, NEW s \in Reviews, NEW c \in BOOLEAN, BroadcastJobs(s, c)
  PROVE  SocketTells(s, c) /\ (ws'.st = "closed" \/ ws'.q # <<>>)
  <1> DEFINE snapshot == JobsSnapshot(s, c)
  <1>1. snapshot \in Snapshots /\ ws.st \in {"closed", "open"} /\ ws.q \in Seq(Snapshots)
    BY SnapshotIs DEF ViewTypes, Sockets
  <1>2. CASE ws.st = "open"
    <2>1. ws' = [st |-> "open", q |-> Append(ws.q, snapshot)]
      BY <1>2 DEF BroadcastJobs, ViewTypes, Sockets
    <2>2. /\ Append(ws.q, snapshot) \in Seq(Snapshots) /\ Len(Append(ws.q, snapshot)) = Len(ws.q) + 1
          /\ Append(ws.q, snapshot)[Len(ws.q) + 1] = snapshot
          /\ ToSet(Append(ws.q, snapshot)) = ToSet(ws.q) \cup {snapshot}
          /\ Len(ws.q) \in Nat
      BY <1>1, HeldByAppended, LenProperties
    <2>3. Append(ws.q, snapshot) # <<>>
      BY <2>2, HeldByNone
    <2> QED BY <1>2, <2>1, <2>2, <2>3 DEF SocketTells, Sockets
  <1>3. CASE ws.st = "closed"
    <2>1. ws' = ws /\ ws.q = <<>>
      BY <1>3 DEF BroadcastJobs, LastIsCurrent
    <2> QED BY <1>3, <2>1 DEF SocketTells, ViewTypes
  <1> QED BY <1>1, <1>2, <1>3

\* Events are added at the end of an open stream, which may be told to end.
StreamGrows(E) ==
    /\ es'.over = es.over /\ es'.again = es.again
    /\ Len(es.q) <= Len(es'.q) /\ \A i \in 1..Len(es.q) : es'.q[i] = es.q[i]
    /\ \A i \in (Len(es.q) + 1)..Len(es'.q) : es.st = "open" /\ es'.q[i] \in E
    /\ es'.st = es.st \/ (es.st = "open" /\ es'.st = "ending")

LEMMA StreamStays == ASSUME ViewTypes, es' = es PROVE \A E : StreamGrows(E)
  <1>1. Len(es.q) \in Nat
    BY LenProperties DEF ViewTypes, Streams
  <1> QED BY <1>1 DEF StreamGrows

LEMMA Pushed ==
  ASSUME ViewTypes, NEW evs \in Seq(Events), PushEvents(evs)
  PROVE  es' \in Streams /\ StreamGrows(ToSet(evs))
  <1>1. CASE es.st = "open"
    <2>1. es' = [st |-> "open", q |-> es.q \o evs, over |-> es.over, again |-> es.again]
      BY <1>1 DEF PushEvents, ViewTypes, Streams
    <2>2. es.q \in Seq(Messages) /\ evs \in Seq(Messages) /\ Len(es.q) \in Nat /\ Len(evs) \in Nat
      BY SeqMonotonic, LenProperties DEF ViewTypes, Streams, Messages
    <2>3. /\ es.q \o evs \in Seq(Messages) /\ Len(es.q \o evs) = Len(es.q) + Len(evs)
          /\ \A i \in 1..Len(es.q) : (es.q \o evs)[i] = es.q[i]
          /\ \A i \in (Len(es.q) + 1)..(Len(es.q) + Len(evs)) : (es.q \o evs)[i] = evs[i - Len(es.q)]
      BY <2>2, HeldByBoth
    <2>4. \A i \in (Len(es.q) + 1)..(Len(es.q) + Len(evs)) : evs[i - Len(es.q)] \in ToSet(evs)
      <3>1. \A i \in (Len(es.q) + 1)..(Len(es.q) + Len(evs)) : i - Len(es.q) \in 1..Len(evs)
        BY <2>2
      <3>2. \A i \in 1..Len(evs) : evs[i] \in ToSet(evs)
        BY HeldBy
      <3> QED BY <3>1, <3>2
    <2>5. es' \in Streams
      BY <2>1, <2>3 DEF ViewTypes, Streams
    <2> QED BY <1>1, <2>1, <2>2, <2>3, <2>4, <2>5 DEF StreamGrows
  <1>2. CASE es.st # "open"
    <2>1. es' = es
      BY <1>2 DEF PushEvents
    <2> QED BY <2>1, StreamStays DEF ViewTypes
  <1> QED BY <1>1, <1>2

LEMMA GrownHolds ==
  ASSUME ViewTypes, es' \in Streams, NEW E, StreamGrows(E)
  PROVE  ToSet(es'.q) \subseteq ToSet(es.q) \cup E
  <1>1. es.q \in Seq(Messages) /\ es'.q \in Seq(Messages) /\ Len(es.q) \in Nat /\ Len(es'.q) \in Nat
    BY LenProperties DEF ViewTypes, Streams
  <1> SUFFICES ASSUME NEW x \in ToSet(es'.q) PROVE x \in ToSet(es.q) \cup E
    OBVIOUS
  <1>2. PICK i \in 1..Len(es'.q) : es'.q[i] = x
    BY <1>1, HeldBy
  <1>3. CASE i \in 1..Len(es.q)
    <2>1. es.q[i] = x
      BY <1>2, <1>3 DEF StreamGrows
    <2> QED BY <1>1, <1>3, <2>1, HeldBy
  <1>4. CASE i \notin 1..Len(es.q)
    <2>1. i \in (Len(es.q) + 1)..Len(es'.q)
      BY <1>1, <1>2, <1>4
    <2> QED BY <1>2, <2>1 DEF StreamGrows
  <1> QED BY <1>3, <1>4

\* A stream that is not open has nothing added.
LEMMA OnlyOpenGrows ==
  ASSUME ViewTypes, es' \in Streams, NEW E, StreamGrows(E), es.st # "open"
  PROVE  Len(es'.q) = Len(es.q)
  <1>1. Len(es.q) \in Nat /\ Len(es'.q) \in Nat
    BY LenProperties DEF ViewTypes, Streams
  <1> QED BY <1>1 DEF StreamGrows

\* What is added to a stream of which the replay is known keeps it known, if it is
\* of runs that were not over then.
LEMMA GrownIsKnown ==
  ASSUME ViewTypes, ReplayIsKnown, es' \in Streams, NEW E, StreamGrows(E), row' = row,
         srv' \in Reviews, srv.run <= srv'.run,
         es.st = "open" /\ Active(srv'.state) => es.over < srv'.run,
         es.st = "open" => \A ev \in E : /\ ev.kind \in Ends => ev.run > es.over
                                         /\ ev.kind = "stream_end" => ~Terminal(ev.state)
  PROVE  ReplayIsKnown'
  <1>1. /\ Len(es.q) \in Nat /\ Len(es'.q) \in Nat /\ srv.run \in Nat /\ srv'.run \in Nat /\ es.over \in Nat
        /\ Len(es.q) <= Len(es'.q)
    BY LenProperties, Given DEF ViewTypes, Streams, Reviews, StreamGrows
  <1>2. \A i \in 1..Len(es.q) : LiveIn(es'.q, row', i) <=> LiveIn(es.q, row, i)
    <2> SUFFICES ASSUME NEW i \in 1..Len(es.q)
                 PROVE  CaughtUpBefore(es'.q, i) <=> CaughtUpBefore(es.q, i)
      BY DEF LiveIn
    <2>1. \A c \in 1..Len(es'.q) : c < i => c \in 1..Len(es.q) /\ es'.q[c] = es.q[c]
      BY <1>1 DEF StreamGrows
    <2>2. \A c \in 1..Len(es.q) : c \in 1..Len(es'.q) /\ es'.q[c] = es.q[c]
      BY <1>1 DEF StreamGrows
    <2> QED BY <2>1, <2>2 DEF CaughtUpBefore
  <1>3. ASSUME es.st = "open", NEW i \in (Len(es.q) + 1)..(Len(es'.q) + 1) PROVE LiveIn(es'.q, row', i)
    <2>1. LiveIn(es.q, row, Len(es.q) + 1)
      BY <1>3 DEF ReplayIsKnown
    <2>2. CaughtUpBefore(es.q, Len(es.q) + 1) => CaughtUpBefore(es'.q, i)
      <3>1. \A c \in 1..Len(es.q) : c \in 1..Len(es'.q) /\ c < i /\ es'.q[c] = es.q[c]
        BY <1>1, <1>3 DEF StreamGrows
      <3> QED BY <3>1 DEF CaughtUpBefore
    <2> QED BY <2>1, <2>2 DEF LiveIn
  <1>4. ASSUME NEW i \in 1..Len(es'.q)
        PROVE  /\ es'.q[i].kind \in Ends /\ es'.q[i].run > es'.over => LiveIn(es'.q, row', i)
               /\ ~es'.again /\ es'.q[i].kind \in Ends /\ LiveIn(es'.q, row', i) => es'.q[i].run > es'.over
               /\ ~es'.again /\ es'.q[i].kind = "stream_end" /\ Terminal(es'.q[i].state) => ~LiveIn(es'.q, row', i)
    <2>0. es'.over = es.over /\ es'.again = es.again
      BY DEF StreamGrows
    <2>1. CASE i \in 1..Len(es.q)
      <3>1. es'.q[i] = es.q[i]
        BY <2>1 DEF StreamGrows
      <3> QED BY <1>2, <2>0, <2>1, <3>1 DEF ReplayIsKnown
    <2>2. CASE i \notin 1..Len(es.q)
      <3>1. i \in (Len(es.q) + 1)..Len(es'.q) /\ i \in (Len(es.q) + 1)..(Len(es'.q) + 1)
        BY <1>1, <1>4, <2>2
      <3>2. es.st = "open" /\ es'.q[i] \in E
        BY <3>1 DEF StreamGrows
      <3>3. LiveIn(es'.q, row', i)
        BY <1>3, <3>1, <3>2
      <3> QED BY <2>0, <3>2, <3>3
    <2> QED BY <2>1, <2>2
  <1>5. es'.st = "connecting" /\ ~es'.again => row'.replaying
    BY DEF StreamGrows, ReplayIsKnown
  <1>6. ASSUME es'.st = "open"
        PROVE  /\ es'.over <= srv'.run /\ (Active(srv'.state) => es'.over < srv'.run)
               /\ LiveIn(es'.q, row', Len(es'.q) + 1)
    <2>1. es.st = "open" /\ es'.over = es.over
      BY <1>6 DEF StreamGrows
    <2>2. es.over <= srv'.run /\ Len(es'.q) + 1 \in (Len(es.q) + 1)..(Len(es'.q) + 1)
      BY <1>1, <2>1 DEF ReplayIsKnown
    <2> QED BY <1>3, <2>1, <2>2
  <1> QED BY <1>4, <1>5, <1>6 DEF ReplayIsKnown

-----------------------------------------------------------------------------
(* What the server does to a page.                                         *)

\* What every step of the server but a restart does, where E are the events it sends.
Delivers(E) ==
    /\ srv' \in Reviews /\ srv.run <= srv'.run /\ (srv'.listed => srv.listed \/ srv.run = 0)
    /\ Active(srv'.state) => Active(srv.state) \/ srv.run < srv'.run
    /\ row' = row /\ heard' = heard /\ asked' \in Requests
    /\ asked'.got = asked.got /\ asked'.record = asked.record
    /\ asked'.own = "delete" => ~srv'.listed
    /\ ~srv'.listed => srv'.state # "running"
    /\ SocketTells(srv', crowd')
    /\ es' \in Streams /\ StreamGrows(E)
    /\ \A ev \in ToSet(srv'.events) \cup E : InPast(ev)'
    /\ es.st = "open" => \A ev \in E : /\ ev.kind \in Ends => ev.run > es.over
                                       /\ ev.kind = "stream_end" => ~Terminal(ev.state)

LEMMA PastStays ==
  ASSUME ViewTypes, srv' \in Reviews, srv.run <= srv'.run,
         Active(srv'.state) => Active(srv.state) \/ srv.run < srv'.run,
         NEW ev \in Messages, InPast(ev)
  PROVE  InPast(ev)'
  <1>1. srv.run \in Nat /\ srv'.run \in Nat
    BY RunsAreNats, Given DEF Reviews
  <1>2. ev.kind \in Ends => ev.run \in Nat
    BY Given DEF Messages, Events, Ends
  <1> QED BY <1>1, <1>2 DEF InPast

LEMMA DeliveryKeeps ==
  ASSUME ViewIInv, NEW E, Delivers(E), crowd' \in BOOLEAN
  PROVE  ViewTypes' /\ LastIsCurrent' /\ StreamIsOfRow' /\ RemovedIsOver' /\ EndsArePast'
         /\ ReplayIsKnown' /\ LogIsOfRow' /\ NotYetOver'
  <1> USE DEF ViewIInv
  <1>1. ViewTypes'
    BY DEF Delivers, ViewTypes, SocketTells
  <1>2. LastIsCurrent'
    BY DEF Delivers, LastIsCurrent, SocketTells
  <1>3. srv.run \in Nat /\ srv'.run \in Nat
    BY RunsAreNats, Given DEF Delivers, Reviews
  <1>4. es.st # "none" => srv.run # 0 /\ (srv'.listed => srv.listed)
    BY <1>3 DEF Delivers, StreamIsOfRow, NothingYet
  <1>5. StreamIsOfRow'
    <2>1. es'.st # "none" => row'.present
      BY DEF Delivers, StreamGrows, StreamIsOfRow
    <2>3. ASSUME es'.st \notin {"open", "ending"} PROVE es'.q = <<>>
      <3>1. es.st \notin {"open", "ending"}
        BY <2>3 DEF Delivers, StreamGrows
      <3>2. Len(es.q) = 0
        BY <3>1, HeldByNone DEF StreamIsOfRow
      <3>3. Len(es'.q) = 0 /\ es'.q \in Seq(Messages)
        BY <3>1, <3>2, OnlyOpenGrows DEF Delivers, Streams
      <3> QED BY <3>3, EmptySeq
    <2> QED BY <2>1, <2>3 DEF StreamIsOfRow, Delivers
  <1>r. RemovedIsOver'
    <2>1. es'.st = "refused" => ~srv'.listed
      BY <1>4 DEF Delivers, StreamGrows, RemovedIsOver
    <2> QED BY <2>1 DEF RemovedIsOver, Delivers
  <1>6. EndsArePast'
    <2>1. ToSet(es'.q) \subseteq ToSet(es.q) \cup E
      BY GrownHolds DEF Delivers
    <2>2. ToSet(es.q) \subseteq Messages
      BY HeldBy DEF ViewTypes, Streams
    <2>3. \A ev \in ToSet(es.q) : InPast(ev)'
      BY <2>2, PastStays DEF Delivers, EndsArePast
    <2>4. \A ev \in ToSet(srv'.events) \cup E : InPast(ev)'
      BY DEF Delivers
    <2> QED BY <2>1, <2>3, <2>4 DEF EndsArePast
  <1>7. ReplayIsKnown'
    <2>1. es.st = "open" /\ Active(srv'.state) => es.over < srv'.run
      <3>1. es.over \in Nat
        BY RunsAreNats
      <3> QED BY <1>3, <3>1 DEF Delivers, ReplayIsKnown
    <2> QED BY <2>1, GrownIsKnown DEF Delivers
  <1>8. LogIsOfRow'
    <2> SUFFICES ASSUME asked.record # Nothing
                 PROVE  row.loaded \/ (~srv'.listed /\ es'.st \notin {"open", "ending"})
      BY DEF LogIsOfRow, Delivers
    <2>1. srv.run # 0
      BY DEF NothingYet
    <2>2. es'.st \in {"open", "ending"} => es.st \in {"open", "ending"}
      BY DEF Delivers, StreamGrows
    <2> QED BY <2>1, <2>2 DEF LogIsOfRow, Delivers
  <1>9. NotYetOver'
    <2>1. es'.st \in {"open", "ending"} => es.st \in {"open", "ending"}
      BY DEF Delivers, StreamGrows
    <2>2. es'.st = "connecting" /\ srv'.listed => es.st = "connecting" /\ srv.listed
      BY <1>4 DEF Delivers, StreamGrows
    <2> QED BY <2>1, <2>2 DEF NotYetOver, Delivers
  <1> QED BY <1>1, <1>2, <1>5, <1>r, <1>6, <1>7, <1>8, <1>9

\* The three parts that are left.
LEMMA FirstRunStillGoesOn ==
  ASSUME ViewIInv, NEW E, Delivers(E), crowd' \in BOOLEAN,
         srv.listed /\ srv'.listed /\ Gone \in ToSet(ws.q) \cup ToSet(asked.got) =>
             Active(srv'.state) /\ \A ev \in ToSet(srv'.events) \cup E : Begins(ev),
         ~srv.listed /\ srv'.listed =>
             Active(srv'.state) /\ \A ev \in ToSet(srv'.events) \cup E : Begins(ev)
  PROVE  FirstRunGoesOn'
  <1> USE DEF ViewIInv
  <1> SUFFICES ASSUME srv'.listed, Gone \in ToSet(ws'.q) \cup ToSet(asked'.got)
               PROVE  /\ Active(srv'.state) /\ \A ev \in ToSet(srv'.events) \cup ToSet(es'.q) : Begins(ev)
                      /\ \A s \in ToSet(ws'.q) \cup ToSet(asked'.got) : ~Terminal(s.item)
                      /\ ~Terminal(asked'.record) /\ (row'.present => Active(row'.state))
    BY DEF FirstRunGoesOn, Gone, Begins
  <1> DEFINE told == JobsSnapshot(srv', crowd')
  <1>1. told # Gone /\ (told.item # Nothing => told.item = srv'.state)
    BY SnapshotIs DEF Delivers
  <1>2. /\ ToSet(ws'.q) \subseteq ToSet(ws.q) \cup {told} /\ asked'.got = asked.got
        /\ asked'.record = asked.record /\ row' = row
    BY DEF Delivers, SocketTells
  <1>3. ToSet(es'.q) \subseteq ToSet(es.q) \cup E
    BY GrownHolds DEF Delivers
  <1>4. Gone \in ToSet(ws.q) \cup ToSet(asked.got)
    BY <1>1, <1>2
  <1>5. Active(srv'.state) /\ \A ev \in ToSet(srv'.events) \cup E : Begins(ev)
    BY <1>4
  <1>6. ~Terminal(told.item)
    <2>1. srv'.state \in States
      BY DEF Delivers, Reviews
    <2> QED BY <1>1, <1>5, <2>1, Given
  <1>7. CASE srv.listed
    BY <1>2, <1>3, <1>4, <1>5, <1>6, <1>7 DEF FirstRunGoesOn
  <1>8. CASE ~srv.listed
    <2>1. srv.run = 0
      BY <1>8 DEF Delivers
    <2>2. /\ ~row.present /\ asked.record = Nothing
          /\ \A s \in ToSet(ws.q) \cup ToSet(asked.got) : s.item = Nothing
      BY <2>1 DEF NothingYet
    <2>3. ToSet(es.q) = {}
      BY <2>2, HeldByNone DEF StreamIsOfRow
    <2> QED BY <1>2, <1>3, <1>5, <1>6, <2>2, <2>3, Given
  <1> QED BY <1>7, <1>8

LEMMA Delivered ==
  ASSUME ViewIInv, NEW E, Delivers(E), crowd' \in BOOLEAN, srv'.run # 0,
         ws'.st = "closed" \/ ws'.q # <<>>, FirstRunGoesOn'
  PROVE  ViewIInv'
  <1>1. NothingYet'
    BY DEF NothingYet
  <1>2. StreamedOrTold'
    BY DEF StreamedOrTold
  <1> QED BY <1>1, <1>2, DeliveryKeeps DEF ViewIInv

LEMMA BecomesDelivers ==
  ASSUME ViewIInv, NEW state \in States, NEW evs \in Seq(Events), Becomes(state, evs),
         UNCHANGED <<crowd, row, asked, heard>>, srv.listed, Active(srv.state),
         \A ev \in ToSet(evs) : ev.kind \in Ends => ev.run = srv.run /\ ~Active(state)
  PROVE  /\ Delivers(ToSet(evs)) /\ (ws'.st = "closed" \/ ws'.q # <<>>)
         /\ srv'.listed /\ srv'.state = state /\ srv'.run = srv.run
         /\ ToSet(srv'.events) = ToSet(srv.events) \cup ToSet(evs)
  <1> USE DEF ViewIInv
  <1> DEFINE s == [srv EXCEPT !.state = state, !.events = @ \o evs]
  <1>1. srv' = s /\ BroadcastJobs(s, crowd) /\ PushEvents(evs)
    BY DEF Becomes
  <1>2. srv.events \in Seq(Events) /\ srv \in Reviews /\ srv.run \in Nat /\ es.over \in Nat
    BY RunsAreNats DEF ViewTypes, Reviews
  <1>4. srv.events \o evs \in Seq(Events) /\ ToSet(srv.events \o evs) = ToSet(srv.events) \cup ToSet(evs)
    BY <1>2, HeldByBoth
  <1>5. s \in Reviews /\ s.run = srv.run /\ s.state = state /\ s.listed /\ s.events = srv.events \o evs
    BY <1>2, <1>4 DEF Reviews
  <1> HIDE DEF s
  <1>6. SocketTells(srv', crowd') /\ (ws'.st = "closed" \/ ws'.q # <<>>)
    BY <1>1, <1>5, Broadcast DEF ViewTypes
  <1>7. es' \in Streams /\ StreamGrows(ToSet(evs))
    BY <1>1, Pushed
  <1>8. \A ev \in ToSet(srv'.events) \cup ToSet(evs) : InPast(ev)'
    <2>1. ASSUME NEW ev \in ToSet(evs) PROVE InPast(ev)'
      BY <1>1, <1>2, <1>5, <2>1 DEF InPast
    <2>2. ASSUME NEW ev \in ToSet(srv.events) PROVE InPast(ev)'
      <3>1. ev \in Messages /\ InPast(ev)
        BY <1>2, HeldBy DEF EndsArePast, Messages
      <3> QED BY <1>1, <1>2, <1>5, <3>1, PastStays
    <2> QED BY <1>1, <1>4, <1>5, <2>1, <2>2
  <1>9. ASSUME es.st = "open", NEW ev \in ToSet(evs)
        PROVE  (ev.kind \in Ends => ev.run > es.over) /\ ev.kind # "stream_end"
    <2>1. es.over < srv.run
      BY <1>9 DEF ReplayIsKnown
    <2>2. ev \in Events
      BY <1>9, HeldBy
    <2> QED BY <1>2, <1>9, <2>1, <2>2 DEF Events, Kinds
  <1>10. Delivers(ToSet(evs))
    BY <1>1, <1>2, <1>5, <1>6, <1>7, <1>8, <1>9 DEF Delivers, ViewTypes, RemovedIsOver
  <1> QED BY <1>1, <1>4, <1>5, <1>6, <1>10

LEMMA EventIs ==
  ASSUME ViewTypes, NEW kind \in Kinds
  PROVE  Event(kind) \in Events /\ Event(kind).kind = kind /\ Event(kind).run = srv.run
  BY DEF ViewTypes, Reviews, Event, Events

LEMMA ListedRan == ASSUME ViewIInv, srv.listed PROVE srv.run # 0
  BY DEF ViewIInv, NothingYet

LEMMA StartKeeps == ASSUME ViewIInv, Start PROVE ViewIInv'
  <1>1. /\ srv.listed /\ srv.state = "queued" /\ Becomes("running", <<Event("running")>>)
        /\ UNCHANGED <<crowd, row, asked, heard>> /\ crowd' \in BOOLEAN
    BY DEF Start, ViewIInv, ViewTypes
  <1>2. <<Event("running")>> \in Seq(Events) /\ ToSet(<<Event("running")>>) = {Event("running")}
        /\ Event("running").kind = "running"
    BY EventIs, HeldByOne DEF ViewIInv, Kinds
  <1>3. /\ Delivers({Event("running")}) /\ (ws'.st = "closed" \/ ws'.q # <<>>)
        /\ srv'.listed /\ srv'.state = "running" /\ srv'.run = srv.run
        /\ ToSet(srv'.events) = ToSet(srv.events) \cup {Event("running")}
    BY <1>1, <1>2, BecomesDelivers DEF Active, Ends, States
  <1>4. FirstRunGoesOn'
    <2>1. Begins(Event("running")) /\ Active(srv'.state)
      BY <1>2, <1>3 DEF Begins, Active
    <2>2. srv.listed /\ srv'.listed /\ Gone \in ToSet(ws.q) \cup ToSet(asked.got) =>
             Active(srv'.state) /\ \A ev \in ToSet(srv'.events) \cup {Event("running")} : Begins(ev)
      BY <1>3, <2>1 DEF ViewIInv, FirstRunGoesOn
    <2> QED BY <1>1, <1>3, <2>2, FirstRunStillGoesOn
  <1> QED BY <1>1, <1>3, <1>4, ListedRan, Delivered

\* A run does not end while a list from before the submission is on its way.
LEMMA NothingLags == ASSUME ViewTypes, ~Lagging PROVE Gone \notin ToSet(ws.q) \cup ToSet(asked.got)
  <1>1. ws.q \in Seq(Snapshots) /\ asked.got \in Seq(Snapshots) /\ DOMAIN ws.q = 1..Len(ws.q)
        /\ DOMAIN asked.got = 1..Len(asked.got)
    BY LenProperties DEF ViewTypes, Sockets, Requests
  <1>2. \A i \in 1..Len(ws.q) : ws.q[i] # Gone
    BY <1>1 DEF Lagging, Gone
  <1>3. \A i \in 1..Len(asked.got) : asked.got[i].item # Nothing
    BY <1>1, Given DEF Lagging
  <1>4. \A i \in 1..Len(asked.got) : asked.got[i] # Gone
    BY <1>3 DEF Gone
  <1> QED BY <1>1, <1>2, <1>4, HeldBy

LEMMA EndsKeep ==
  ASSUME ViewIInv, ~Lagging, srv.state = "running", NEW state \in {"done", "failed"},
         NEW evs \in Seq(Events), \A ev \in ToSet(evs) : ev.run = srv.run,
         Becomes(state, evs), UNCHANGED <<crowd, row, asked, heard>>
  PROVE  ViewIInv'
  <1>1. srv.listed /\ crowd' \in BOOLEAN /\ Active(srv.state) /\ ~Active(state) /\ state \in States
    BY DEF ViewIInv, ViewTypes, RemovedIsOver, Active, States
  <1>2. /\ Delivers(ToSet(evs)) /\ (ws'.st = "closed" \/ ws'.q # <<>>)
        /\ srv'.listed /\ srv'.state = state /\ srv'.run = srv.run
    BY <1>1, BecomesDelivers
  <1>3. Gone \notin ToSet(ws.q) \cup ToSet(asked.got)
    BY NothingLags DEF ViewIInv
  <1>4. FirstRunGoesOn'
    BY <1>1, <1>2, <1>3, FirstRunStillGoesOn
  <1> QED BY <1>1, <1>2, <1>4, ListedRan, Delivered

LEMMA EndKeeps == ASSUME ViewIInv, End PROVE ViewIInv'
  <1>1. PICK state \in {"done", "failed"} : Becomes(state, <<Event(state)>>)
    BY DEF End
  <1>2. <<Event(state)>> \in Seq(Events) /\ ToSet(<<Event(state)>>) = {Event(state)} /\ Event(state).run = srv.run
    BY EventIs, HeldByOne DEF ViewIInv, Kinds
  <1>3. ~Lagging /\ srv.state = "running" /\ UNCHANGED <<crowd, row, asked, heard>>
    BY DEF End
  <1> QED BY <1>1, <1>2, <1>3, EndsKeep

LEMMA SkipKeeps == ASSUME ViewIInv, Skip PROVE ViewIInv'
  <1>1. /\ Event("skipped") \in Events /\ Event("done") \in Events
        /\ Event("skipped").run = srv.run /\ Event("done").run = srv.run
    BY EventIs DEF ViewIInv, Kinds
  <1> DEFINE evs == <<Event("skipped"), Event("done")>>
  <1>2. evs \in Seq(Events) /\ \A ev \in ToSet(evs) : ev.run = srv.run
    BY <1>1, HeldByTwo
  <1>3. /\ ~Lagging /\ srv.state = "running" /\ UNCHANGED <<crowd, row, asked, heard>>
        /\ Becomes("done", evs)
    BY DEF Skip
  <1> HIDE DEF evs
  <1> QED BY <1>2, <1>3, EndsKeep

LEMMA PhaseKeeps == ASSUME ViewIInv, Phase PROVE ViewIInv'
  <1> USE DEF ViewIInv
  <1>0. PICK ev : ev = Event("phase")
    OBVIOUS
  <1> DEFINE s == [srv EXCEPT !.events = Append(@, ev)]
  <1>1. /\ srv.state = "running" /\ srv' = s /\ PushEvents(<<ev>>) /\ UNCHANGED <<crowd, ws, row, asked, heard>>
    BY <1>0 DEF Phase
  <1>2. ev \in Events /\ ev.kind = "phase" /\ ev.run = srv.run
    BY <1>0, EventIs DEF Kinds
  <1>3. /\ srv.events \in Seq(Events) /\ srv.run \in Nat /\ srv.listed /\ crowd' \in BOOLEAN /\ Active(srv.state)
        /\ srv.run # 0
    BY <1>1, RunsAreNats, ListedRan DEF ViewTypes, Reviews, RemovedIsOver, Active
  <1>4. /\ <<ev>> \in Seq(Events) /\ ToSet(<<ev>>) = {ev}
        /\ Append(srv.events, ev) \in Seq(Events) /\ ToSet(Append(srv.events, ev)) = ToSet(srv.events) \cup {ev}
    BY <1>2, <1>3, HeldByOne, HeldByAppended
  <1>5. s \in Reviews /\ s.run = srv.run /\ s.state = srv.state /\ s.listed = srv.listed /\ s.events = Append(srv.events, ev)
    BY <1>4 DEF ViewTypes, Reviews
  <1> HIDE DEF s
  <1>6. es' \in Streams /\ StreamGrows({ev})
    BY <1>1, <1>4, Pushed
  <1>7. JobsSnapshot(srv', crowd') = JobsSnapshot(srv, crowd)
    BY <1>1, <1>5 DEF JobsSnapshot
  <1>8. SocketTells(srv', crowd')
    BY <1>1, <1>7 DEF SocketTells, ViewTypes, LastIsCurrent
  <1>9. \A e \in ToSet(srv'.events) \cup {ev} : InPast(e)'
    <2>1. InPast(ev)'
      BY <1>2 DEF InPast, Ends
    <2>2. ASSUME NEW e \in ToSet(srv.events) PROVE InPast(e)'
      <3>1. e \in Messages /\ InPast(e)
        BY <1>3, HeldBy DEF EndsArePast, Messages
      <3> QED BY <1>1, <1>3, <1>5, <3>1, PastStays
    <2> QED BY <1>1, <1>4, <1>5, <2>1, <2>2
  <1>10. Delivers({ev})
    BY <1>1, <1>2, <1>3, <1>5, <1>6, <1>8, <1>9 DEF Delivers, ViewTypes, RemovedIsOver, Ends
  <1>11. FirstRunGoesOn'
    <2>1. Begins(ev)
      BY <1>2 DEF Begins
    <2>2. Gone \in ToSet(ws.q) \cup ToSet(asked.got) =>
             Active(srv'.state) /\ \A e \in ToSet(srv'.events) \cup {ev} : Begins(e)
      BY <1>1, <1>3, <1>4, <1>5, <2>1 DEF FirstRunGoesOn
    <2> QED BY <1>3, <1>10, <2>2, FirstRunStillGoesOn
  <1>12. NothingYet'
    BY <1>1, <1>3, <1>5 DEF NothingYet
  <1>13. StreamedOrTold'
    <2>1. es'.st = "none" => es.st = "none"
      BY <1>6 DEF StreamGrows
    <2> QED BY <1>1, <1>5, <2>1 DEF StreamedOrTold
  <1> QED BY <1>3, <1>10, <1>11, <1>12, <1>13, DeliveryKeeps

LEMMA AsksIs ==
  ASSUME ViewTypes, NEW own \in {"submit", "verify", "delete"}, NEW by, Asks(own, by)
  PROVE  /\ asked' \in Requests /\ asked'.got = asked.got /\ asked'.record = asked.record
         /\ asked'.own = asked.own \/ asked'.own = own
  BY DEF Asks, ViewTypes, Requests

LEMMA SubmitKeeps == ASSUME ViewIInv, NEW by, Submit(by) PROVE ViewIInv'
  <1> USE DEF ViewIInv
  <1> DEFINE ev == [kind |-> "queued", run |-> 1]
             s == [srv EXCEPT !.run = 1, !.listed = TRUE, !.events = <<ev>>]
  <1>1. /\ srv.run = 0 /\ srv' = s /\ BroadcastJobs(s, crowd) /\ UNCHANGED <<crowd, es, row, heard>>
        /\ Asks("submit", by) /\ crowd' \in BOOLEAN
    BY DEF Submit, ViewTypes
  <1>2. ev \in Events /\ ev.kind = "queued" /\ 1 \in 0..MaxRuns
    BY Given DEF Events, Kinds
  <1> HIDE DEF ev
  <1>3. <<ev>> \in Seq(Events) /\ ToSet(<<ev>>) = {ev}
    BY <1>2, HeldByOne
  <1>4. s \in Reviews /\ s.run = 1 /\ s.state = srv.state /\ s.listed /\ s.events = <<ev>>
    BY <1>2, <1>3 DEF ViewTypes, Reviews
  <1> HIDE DEF s
  <1>5. ~srv.listed /\ srv.state = "queued" /\ asked.own = Nothing
    BY <1>1 DEF NothingYet
  <1>6. SocketTells(srv', crowd') /\ (ws'.st = "closed" \/ ws'.q # <<>>)
    BY <1>1, <1>4, Broadcast DEF ViewTypes
  <1>7. asked' \in Requests /\ asked'.got = asked.got /\ asked'.record = asked.record /\ asked'.own # "delete"
    BY <1>1, <1>5, AsksIs, Given
  <1>8. \A e \in ToSet(srv'.events) : InPast(e)' /\ Begins(e)
    BY <1>1, <1>2, <1>3, <1>4 DEF InPast, Ends, Begins
  <1>9. Delivers({})
    BY <1>1, <1>4, <1>5, <1>6, <1>7, <1>8, StreamStays DEF Delivers, ViewTypes
  <1>10. Active(srv'.state)
    BY <1>1, <1>4, <1>5 DEF Active
  <1>11. FirstRunGoesOn'
    BY <1>1, <1>5, <1>8, <1>9, <1>10, FirstRunStillGoesOn
  <1>12. srv'.run # 0
    BY <1>1, <1>4
  <1> QED BY <1>1, <1>6, <1>9, <1>11, <1>12, Delivered

LEMMA ResumeKeeps == ASSUME ViewIInv, NEW by, Resume(by) PROVE ViewIInv'
  <1> USE DEF ViewIInv
  <1>0. PICK next : next = srv.run + 1
    OBVIOUS
  <1> DEFINE queued == [kind |-> "queued", run |-> next]
             again == [kind |-> "verify_restart", run |-> next]
             s == [srv EXCEPT !.run = next, !.state = "queued", !.events = @ \o <<again, queued>>]
  <1>1. /\ srv.listed /\ Terminal(srv.state) /\ srv.run < MaxRuns
        /\ srv' = s /\ BroadcastJobs(s, crowd) /\ PushEvents(<<queued>>)
        /\ UNCHANGED <<crowd, row, heard>> /\ Asks("verify", by) /\ crowd' \in BOOLEAN
    BY <1>0 DEF Resume, ViewTypes
  <1>2. srv.run \in Nat /\ next \in 1..MaxRuns /\ srv.run < next
    BY <1>0, <1>1, RunsAreNats, Given
  <1>3. queued \in Events /\ queued.kind = "queued" /\ again \in Events /\ again.kind = "verify_restart"
    BY <1>2, Given DEF Events, Kinds
  <1> HIDE DEF queued, again
  <1>4. <<queued>> \in Seq(Events) /\ ToSet(<<queued>>) = {queued}
    BY <1>3, HeldByOne
  <1>5. <<again, queued>> \in Seq(Events) /\ ToSet(<<again, queued>>) = {again, queued}
    BY <1>3, HeldByTwo
  <1> DEFINE more == <<again, queued>>
  <1>7. s = [srv EXCEPT !.run = next, !.state = "queued", !.events = @ \o more]
    OBVIOUS
  <1>m. more \in Seq(Events) /\ ToSet(more) = {again, queued}
    BY <1>5
  <1> HIDE DEF s, more
  <1>6. /\ srv.events \in Seq(Events) /\ srv.events \o more \in Seq(Events)
        /\ ToSet(srv.events \o more) = ToSet(srv.events) \cup {again, queued}
    <2>1. srv.events \in Seq(Events)
      BY DEF ViewTypes, Reviews
    <2> QED BY <1>m, <2>1, HeldByBoth
  <1>8. s \in Reviews /\ s.run = next /\ s.state = "queued" /\ s.listed /\ s.events = srv.events \o more
    <2> HIDE DEF ViewIInv
    <2>1. srv \in Reviews /\ next \in 0..MaxRuns /\ srv.listed
      BY <1>1, <1>2 DEF ViewIInv, ViewTypes
    <2> DEFINE r == [srv EXCEPT !.run = next, !.state = "queued", !.events = @ \o more]
    <2>2. /\ r \in Reviews /\ r.state = "queued" /\ r.events = srv.events \o more
          /\ r.run = next /\ r.listed = srv.listed
      BY <1>6, <2>1 DEF Reviews, States
    <2>3. s = r
      BY <1>7
    <2> HIDE DEF r
    <2> QED BY <2>1, <2>2, <2>3
  <1>9. SocketTells(srv', crowd') /\ (ws'.st = "closed" \/ ws'.q # <<>>)
    BY <1>1, <1>8, Broadcast DEF ViewTypes
  <1>10. es' \in Streams /\ StreamGrows({queued})
    BY <1>1, <1>4, Pushed
  <1>11. asked' \in Requests /\ asked'.got = asked.got /\ asked'.record = asked.record /\ asked'.own # "delete"
    BY <1>1, AsksIs DEF RemovedIsOver
  <1>12. \A e \in ToSet(srv'.events) \cup {queued} : InPast(e)'
    <2>1. InPast(queued)' /\ InPast(again)'
      BY <1>3 DEF InPast, Ends
    <2>2. ASSUME NEW e \in ToSet(srv.events) PROVE InPast(e)'
      <3>1. e \in Messages /\ InPast(e)
        BY <1>6, HeldBy DEF EndsArePast, Messages
      <3> QED BY <1>1, <1>2, <1>8, <3>1, PastStays
    <2> QED BY <1>1, <1>6, <1>8, <2>1, <2>2
  <1>13. Delivers({queued})
    BY <1>1, <1>2, <1>3, <1>8, <1>9, <1>10, <1>11, <1>12 DEF Delivers, Ends
  <1>14. FirstRunGoesOn'
    <2>1. ~Active(srv.state)
      BY <1>1 DEF Active, Terminal
    <2>2. Gone \notin ToSet(ws.q) \cup ToSet(asked.got)
      BY <1>1, <2>1 DEF FirstRunGoesOn
    <2> QED BY <1>1, <1>13, <2>2, FirstRunStillGoesOn
  <1>15. srv'.run # 0
    BY <1>1, <1>2, <1>8
  <1> QED BY <1>1, <1>9, <1>13, <1>14, <1>15, Delivered

LEMMA DeleteKeeps == ASSUME ViewIInv, NEW by, Delete(by) PROVE ViewIInv'
  <1> USE DEF ViewIInv
  <1> DEFINE s == [srv EXCEPT !.listed = FALSE]
             bye == [kind |-> "stream_end", state |-> "removed"]
  <1>1. /\ srv.listed /\ Terminal(srv.state) /\ srv' = s /\ BroadcastJobs(s, crowd)
        /\ es' = IF es.st # "open" THEN es ELSE [es EXCEPT !.st = "ending", !.q = Append(@, bye)]
        /\ UNCHANGED <<crowd, row, heard>> /\ Asks("delete", by) /\ crowd' \in BOOLEAN
    BY DEF Delete, ViewTypes
  <1>2. s \in Reviews /\ s.run = srv.run /\ s.state = srv.state /\ ~s.listed /\ s.events = srv.events
    BY DEF ViewTypes, Reviews
  <1>3. bye \in Messages /\ bye.kind = "stream_end" /\ ~Terminal(bye.state)
    BY DEF Messages, Terminal
  <1> HIDE DEF s, bye
  <1>4. SocketTells(srv', crowd') /\ (ws'.st = "closed" \/ ws'.q # <<>>)
    BY <1>1, <1>2, Broadcast DEF ViewTypes
  <1>5. es' \in Streams /\ StreamGrows({bye})
    <2>1. CASE es.st = "open"
      <3>1. es.q \in Seq(Messages) /\ Len(es.q) \in Nat
        BY LenProperties DEF ViewTypes, Streams
      <3>2. /\ Append(es.q, bye) \in Seq(Messages) /\ Len(Append(es.q, bye)) = Len(es.q) + 1
            /\ \A i \in 1..Len(es.q) : Append(es.q, bye)[i] = es.q[i]
            /\ Append(es.q, bye)[Len(es.q) + 1] = bye
        BY <1>3, <3>1, HeldByAppended
      <3>3. es' \in Streams /\ es'.st = "ending" /\ es'.q = Append(es.q, bye) /\ es'.over = es.over /\ es'.again = es.again
        BY <1>1, <2>1, <3>2 DEF ViewTypes, Streams
      <3> QED BY <2>1, <3>1, <3>2, <3>3 DEF StreamGrows
    <2>2. CASE es.st # "open"
      BY <1>1, <2>2, StreamStays DEF ViewTypes
    <2> QED BY <2>1, <2>2
  <1>6. asked' \in Requests /\ asked'.got = asked.got /\ asked'.record = asked.record
    BY <1>1, AsksIs
  <1>7. srv.run \in Nat /\ srv.run # 0 /\ srv.state # "running" /\ ~Active(srv.state)
    BY <1>1, RunsAreNats, ListedRan DEF Active, Terminal
  <1>8. \A e \in ToSet(srv'.events) \cup {bye} : InPast(e)'
    <2>1. InPast(bye)'
      BY <1>3 DEF InPast, Ends
    <2> QED BY <1>1, <1>2, <2>1 DEF EndsArePast, InPast
  <1>9. Delivers({bye})
    BY <1>1, <1>2, <1>3, <1>4, <1>5, <1>6, <1>7, <1>8 DEF Delivers, Ends
  <1>10. FirstRunGoesOn'
    BY <1>1, <1>2 DEF FirstRunGoesOn
  <1> QED BY <1>1, <1>2, <1>4, <1>7, <1>9, <1>10, Delivered

LEMMA OthersChangeKeeps == ASSUME ViewIInv, OthersChange PROVE ViewIInv'
  <1> USE DEF ViewIInv
  <1>1. BroadcastJobs(srv, crowd') /\ UNCHANGED <<srv, es, row, asked, heard>> /\ crowd' \in BOOLEAN
    BY DEF OthersChange, ViewTypes
  <1>2. SocketTells(srv, crowd') /\ (ws'.st = "closed" \/ ws'.q # <<>>)
    BY <1>1, Broadcast DEF ViewTypes
  <1>3. \A e \in ToSet(srv.events) : InPast(e)'
    BY <1>1 DEF EndsArePast, InPast
  <1>4. SocketTells(srv', crowd')
    BY <1>1, <1>2
  <1>5. Delivers({})
    BY <1>1, <1>3, <1>4, StreamStays, RunsAreNats DEF Delivers, ViewTypes, RemovedIsOver
  <1>6. FirstRunGoesOn'
    BY <1>1, <1>5, FirstRunStillGoesOn DEF FirstRunGoesOn
  <1>7. NothingYet'
    <2> SUFFICES ASSUME srv.run = 0 PROVE \A s \in ToSet(ws'.q) : s.item = Nothing
      BY <1>1 DEF NothingYet
    <2>1. JobsSnapshot(srv, crowd').item = Nothing
      BY <1>1, SnapshotIs DEF NothingYet, ViewTypes
    <2> QED BY <1>2, <2>1 DEF SocketTells, NothingYet
  <1>8. StreamedOrTold'
    BY <1>2 DEF StreamedOrTold
  <1> QED BY <1>1, <1>5, <1>6, <1>7, <1>8, DeliveryKeeps

\* What the browser makes of a stream that breaks.
LEMMA BrokenIs ==
  ASSUME ViewTypes, StreamIsOfRow
  PROVE  /\ Broken \in Streams /\ Broken.q = <<>> /\ Broken.st \notin {"open", "ending"}
         /\ Broken.st = "none" <=> es.st = "none"
         /\ Broken.st = "refused" <=> es.st = "refused"
         /\ Broken.st = "connecting" => es.st \in {"open", "ending", "connecting"}
         /\ Broken.st = "connecting" /\ ~Broken.again => es.st = "connecting" /\ ~es.again
  <1>1. CASE es.st \in {"open", "ending"}
    <2>1. Broken = [es EXCEPT !.st = "connecting", !.q = <<>>, !.again = TRUE] /\ <<>> \in Seq(Messages)
      BY <1>1, EmptySeq DEF Broken
    <2>2. Broken \in Streams /\ Broken.q = <<>> /\ Broken.st = "connecting" /\ Broken.again
      BY <2>1 DEF ViewTypes, Streams
    <2> QED BY <1>1, <2>2
  <1>2. CASE es.st \notin {"open", "ending"}
    BY <1>2 DEF Broken, ViewTypes, StreamIsOfRow
  <1> QED BY <1>1, <1>2

LEMMA NoneHeld == \A x : x \notin ToSet(<<>>)
  BY HeldByNone

LEMMA BreakKeeps ==
  ASSUME ViewIInv, es' = Broken, row' = row, srv' \in Reviews, srv'.listed = srv.listed, srv'.run = srv.run
  PROVE  StreamIsOfRow' /\ ReplayIsKnown' /\ NotYetOver'
  <1> USE DEF ViewIInv
  <1>1. /\ es'.q = <<>> /\ Len(es'.q) = 0 /\ es'.st \notin {"open", "ending"}
        /\ es'.st = "none" <=> es.st = "none"
        /\ es'.st = "refused" <=> es.st = "refused"
        /\ es'.st = "connecting" => es.st \in {"open", "ending", "connecting"}
        /\ es'.st = "connecting" /\ ~es'.again => es.st = "connecting" /\ ~es.again
    BY BrokenIs, HeldByNone
  <1>2. StreamIsOfRow'
    BY <1>1 DEF StreamIsOfRow
  <1>3. ReplayIsKnown'
    BY <1>1 DEF ReplayIsKnown
  <1>4. NotYetOver'
    BY <1>1 DEF NotYetOver
  <1> QED BY <1>2, <1>3, <1>4

LEMMA RestartsKeep == ASSUME ViewIInv, ServerRestarts PROVE ViewIInv'
  <1> USE DEF ViewIInv
  <1>0. PICK ev : ev = Event("interrupted")
    OBVIOUS
  <1> DEFINE s == [srv EXCEPT !.state = "interrupted", !.events = Append(@, ev)]
  <1>1. /\ srv' = IF srv.listed /\ Active(srv.state) THEN s ELSE srv
        /\ ws' = NoSocket /\ es' = Broken /\ asked' = NothingAsked /\ UNCHANGED <<crowd, row, heard>>
    BY <1>0 DEF ServerRestarts
  <1>2. ev \in Events /\ ev.kind = "interrupted"
    BY <1>0, EventIs DEF Kinds
  <1>3. srv.events \in Seq(Events) /\ srv.run \in Nat /\ (srv.listed => srv.run # 0)
    BY RunsAreNats, ListedRan DEF ViewTypes, Reviews
  <1>4. Append(srv.events, ev) \in Seq(Events) /\ ToSet(Append(srv.events, ev)) = ToSet(srv.events) \cup {ev}
    BY <1>2, <1>3, HeldByAppended
  <1>5. s \in Reviews /\ s.run = srv.run /\ s.state = "interrupted" /\ s.listed = srv.listed /\ s.events = Append(srv.events, ev)
    BY <1>4 DEF ViewTypes, Reviews, States
  <1> HIDE DEF s
  <1>6. /\ srv' \in Reviews /\ srv'.listed = srv.listed /\ srv'.run = srv.run
        /\ Active(srv'.state) => ~srv.listed /\ srv'.state = srv.state
        /\ ~srv.listed => srv' = srv
        /\ \A e \in ToSet(srv'.events) : e \in ToSet(srv.events) \/ e = ev
    BY <1>1, <1>4, <1>5 DEF ViewTypes, Active
  <1>7. ws' \in Sockets /\ ws'.q = <<>> /\ ws'.st = "closed"
    BY <1>1, EmptySeq DEF NoSocket, Sockets
  <1>8. /\ asked' \in Requests /\ asked'.got = <<>> /\ asked'.record = Nothing /\ asked'.own = Nothing
    BY <1>1, EmptySeq DEF NothingAsked, Requests
  <1>9. es' \in Streams /\ es'.q = <<>> /\ (es'.st = "refused" <=> es.st = "refused")
    BY <1>1, BrokenIs
  <1>10. ViewTypes'
    BY <1>1, <1>6, <1>7, <1>8, <1>9 DEF ViewTypes
  <1>11. LastIsCurrent' /\ StreamedOrTold'
    BY <1>7 DEF LastIsCurrent, StreamedOrTold
  <1>12. NothingYet'
    BY <1>1, <1>3, <1>6, <1>7, <1>8, NoneHeld DEF NothingYet
  <1>13. RemovedIsOver'
    BY <1>6, <1>8, <1>9, Given DEF RemovedIsOver
  <1>14. EndsArePast'
    <2>1. InPast(ev)'
      BY <1>2 DEF InPast, Ends
    <2>2. ASSUME NEW e \in ToSet(srv.events) PROVE InPast(e)'
      <3>1. e \in Messages /\ InPast(e)
        BY <1>3, HeldBy DEF EndsArePast, Messages
      <3>2. Active(srv'.state) => Active(srv.state)
        BY <1>6
      <3> QED BY <1>3, <1>6, <3>1, <3>2, PastStays
    <2>3. \A e \in ToSet(srv'.events) : InPast(e)'
      BY <1>6, <2>1, <2>2
    <2> QED BY <1>9, <2>3, NoneHeld DEF EndsArePast
  <1>15. FirstRunGoesOn'
    BY <1>7, <1>8, NoneHeld DEF FirstRunGoesOn
  <1>16. LogIsOfRow'
    BY <1>8 DEF LogIsOfRow
  <1> QED BY <1>1, <1>6, <1>10, <1>11, <1>12, <1>13, <1>14, <1>15, <1>16, BreakKeeps

-----------------------------------------------------------------------------
(* What the page does by itself.                                           *)

\* A stream that is as it was, for a row that differs elsewhere.
LEMMA StreamKeeps ==
  ASSUME ViewIInv, srv' = srv, es' = es, row'.replaying = row.replaying,
         row.present => row'.present, row'.loaded => row'.present
  PROVE  StreamIsOfRow' /\ ReplayIsKnown'
  BY DEF ViewIInv, StreamIsOfRow, ReplayIsKnown, LiveIn, CaughtUpBefore

\* What the page knows of the review, of the state named.
LEMMA UpsertIs ==
  ASSUME ViewTypes, NEW state \in States
  PROVE  LET r == UpsertReview(row, state)
         IN  /\ r \in Rows /\ r.present /\ r.state = state
             /\ row.present => /\ r.finished = row.finished /\ r.replaying = row.replaying
                               /\ r.notified = row.notified /\ r.loaded = row.loaded
             /\ ~row.present => ~r.finished /\ ~r.replaying /\ ~r.notified /\ ~r.loaded
  <1>1. NoRow \in Rows /\ ~NoRow.finished /\ ~NoRow.replaying /\ ~NoRow.notified /\ ~NoRow.loaded
    BY DEF NoRow, Rows, States
  <1> DEFINE base == IF row.present THEN row ELSE NoRow
  <1>2. base \in Rows
    BY <1>1 DEF ViewTypes
  <1>3. UpsertReview(row, state) = [base EXCEPT !.present = TRUE, !.state = state]
    BY DEF UpsertReview
  <1> HIDE DEF base
  <1>4. LET r == [base EXCEPT !.present = TRUE, !.state = state]
        IN  /\ r \in Rows /\ r.present /\ r.state = state
            /\ r.finished = base.finished /\ r.replaying = base.replaying
            /\ r.notified = base.notified /\ r.loaded = base.loaded
    BY <1>2 DEF Rows
  <1> QED BY <1>1, <1>3, <1>4 DEF base

LEMMA OpenedIs ==
  ASSUME ViewTypes, NEW r \in Rows, OpenStream(r)
  PROVE  /\ row' \in Rows /\ row'.replaying /\ row'.present = r.present /\ row'.state = r.state /\ row'.loaded = r.loaded
         /\ es' \in Streams /\ es'.st = "connecting" /\ es'.q = <<>> /\ ~es'.again
         /\ heard' \in [chimed : SUBSET (0..MaxRuns), misled : BOOLEAN] /\ heard'.chimed = heard.chimed
  <1>1. row' = [r EXCEPT !.replaying = TRUE] /\ heard' = [heard EXCEPT !.misled = FALSE]
        /\ es' = [st |-> "connecting", q |-> <<>>, over |-> 0, again |-> FALSE]
    BY DEF OpenStream, NoStream
  <1>2. <<>> \in Seq(Messages) /\ 0 \in 0..MaxRuns
    BY Given, EmptySeq
  <1> QED BY <1>1, <1>2 DEF Rows, Streams, ViewTypes

\* A stream just opened, for a row the page has.
LEMMA OpenedKeeps ==
  ASSUME ViewIInv, srv' = srv, NEW r \in Rows, OpenStream(r), r.present,
         srv.run # 0, asked'.own = "delete" => ~srv.listed,
         asked'.record # Nothing => r.loaded \/ ~srv.listed
  PROVE  /\ StreamIsOfRow' /\ RemovedIsOver' /\ StreamedOrTold' /\ EndsArePast' /\ ReplayIsKnown'
         /\ LogIsOfRow' /\ NotYetOver'
  <1> USE DEF ViewIInv
  <1>1. /\ row' \in Rows /\ row'.replaying /\ row'.present /\ row'.loaded = r.loaded
        /\ es'.st = "connecting" /\ es'.q = <<>> /\ Len(es'.q) = 0
    BY OpenedIs, HeldByNone
  <1>2. StreamIsOfRow' /\ RemovedIsOver' /\ StreamedOrTold'
    BY <1>1 DEF StreamIsOfRow, RemovedIsOver, StreamedOrTold
  <1>3. EndsArePast'
    BY <1>1, NoneHeld DEF EndsArePast, InPast
  <1>4. ReplayIsKnown' /\ LogIsOfRow' /\ NotYetOver'
    BY <1>1 DEF ReplayIsKnown, LogIsOfRow, NotYetOver
  <1> QED BY <1>2, <1>3, <1>4

LEMMA DroppedIs ==
  ASSUME ViewTypes, DropReview
  PROVE  /\ row' \in Rows /\ ~row'.present /\ ~row'.loaded
         /\ es' \in Streams /\ es'.st = "none" /\ es'.q = <<>> /\ Len(es'.q) = 0
         /\ heard' \in [chimed : SUBSET (0..MaxRuns), misled : BOOLEAN]
         /\ heard'.chimed = heard.chimed /\ heard'.misled = srv.listed
  <1>1. row' = NoRow /\ es' = NoStream /\ heard' = [heard EXCEPT !.misled = srv.listed]
    BY DEF DropReview
  <1>2. <<>> \in Seq(Messages) /\ 0 \in 0..MaxRuns /\ srv.listed \in BOOLEAN /\ Len(<<>>) = 0
    BY Given, EmptySeq DEF ViewTypes, Reviews
  <1> QED BY <1>1, <1>2 DEF NoRow, NoStream, Rows, States, Streams, ViewTypes

\* What a step that applies a snapshot leaves alone.
Applies(snapshot) ==
    /\ ApplySnapshot(snapshot) /\ UNCHANGED <<srv, crowd>>
    /\ ws' \in Sockets /\ ToSet(ws'.q) \subseteq ToSet(ws.q)
    /\ asked' \in Requests /\ ToSet(asked'.got) \subseteq ToSet(asked.got)
    /\ asked'.record = asked.record /\ asked'.own = asked.own

\* The parts that are about the row and its stream.
RowParts ==
    /\ StreamIsOfRow /\ RemovedIsOver /\ EndsArePast /\ ReplayIsKnown /\ LogIsOfRow /\ NotYetOver

LEMMA ApplyTakesRow ==
  ASSUME ViewIInv, NEW snapshot \in ToSet(ws.q) \cup ToSet(asked.got), Applies(snapshot), snapshot.item # Nothing
  PROVE  /\ RowParts' /\ row' \in Rows /\ es' \in Streams /\ row'.present /\ row'.state = snapshot.item
         /\ heard' \in [chimed : SUBSET (0..MaxRuns), misled : BOOLEAN]
         /\ Active(snapshot.item) => es'.st # "none"
         /\ es'.st = "none" => es.st = "none" /\ heard' = heard
         /\ es'.q = es.q /\ heard'.chimed = heard.chimed
  <1> USE DEF ViewIInv
  <1> DEFINE r == UpsertReview(row, snapshot.item)
  <1>1. snapshot \in Snapshots
    BY HeldBy DEF ViewTypes, Sockets, Requests
  <1>2. snapshot.item \in States
    BY <1>1 DEF Snapshots
  <1>3. /\ r \in Rows /\ r.present /\ r.state = snapshot.item
        /\ row.present => /\ r.finished = row.finished /\ r.replaying = row.replaying
                          /\ r.notified = row.notified /\ r.loaded = row.loaded
    BY <1>2, UpsertIs
  <1>4. srv.run # 0
    BY DEF NothingYet
  <1>5. \/ Active(r.state) /\ es.st = "none" /\ OpenStream(r)
        \/ (Active(r.state) => es.st # "none") /\ row' = r /\ UNCHANGED <<es, heard>>
    BY DEF Applies, ApplySnapshot
  <1>6. asked.record # Nothing => r.loaded \/ ~srv.listed
    BY <1>3 DEF LogIsOfRow, StreamIsOfRow
  <1> HIDE DEF r
  <1>7. CASE Active(r.state) /\ es.st = "none" /\ OpenStream(r)
    <2>1. asked'.own = "delete" => ~srv.listed
      BY DEF Applies, RemovedIsOver
    <2>2. asked'.record # Nothing => r.loaded \/ ~srv.listed
      BY <1>6 DEF Applies
    <2>3. RowParts'
      BY <1>3, <1>4, <1>7, <2>1, <2>2, OpenedKeeps DEF RowParts, Applies
    <2>4. es.q = <<>>
      BY <1>7 DEF StreamIsOfRow
    <2> QED BY <1>3, <1>7, <2>3, <2>4, OpenedIs
  <1>8. CASE (Active(r.state) => es.st # "none") /\ row' = r /\ UNCHANGED <<es, heard>>
    <2>1. srv' = srv /\ asked'.record = asked.record /\ asked'.own = asked.own
      BY DEF Applies
    <2>2. RemovedIsOver' /\ EndsArePast'
      BY <1>8, <2>1 DEF RemovedIsOver, EndsArePast, InPast
    <2>3. LogIsOfRow'
      BY <1>3, <1>8, <2>1 DEF LogIsOfRow, StreamIsOfRow
    <2>4. StreamIsOfRow' /\ ReplayIsKnown' /\ NotYetOver'
      <3>1. CASE row.present
        <4>1. NotYetOver'
          BY <1>3, <1>8, <2>1, <3>1 DEF NotYetOver
        <4>2. StreamIsOfRow' /\ ReplayIsKnown'
          BY <1>3, <1>8, <2>1, <3>1, StreamKeeps
        <4> QED BY <4>1, <4>2
      <3>2. CASE ~row.present
        <4>1. es'.st = "none" /\ es'.q = <<>> /\ Len(es'.q) = 0
          BY <1>8, <3>2, HeldByNone DEF StreamIsOfRow
        <4> QED BY <1>3, <1>8, <4>1 DEF StreamIsOfRow, ReplayIsKnown, NotYetOver
      <3> QED BY <3>1, <3>2
    <2> QED BY <1>3, <1>8, <2>2, <2>3, <2>4 DEF RowParts, ViewTypes
  <1> QED BY <1>5, <1>7, <1>8

LEMMA ApplyDropsRow ==
  ASSUME ViewIInv, NEW snapshot \in ToSet(ws.q) \cup ToSet(asked.got), Applies(snapshot), snapshot.item = Nothing
  PROVE  /\ RowParts' /\ row' \in Rows /\ es' \in Streams
         /\ heard' \in [chimed : SUBSET (0..MaxRuns), misled : BOOLEAN]
         /\ \/ UNCHANGED <<row, es, heard>>
            \/ ~srv.listed /\ row.present /\ ~row'.present /\ es'.q = <<>> /\ heard'.chimed = heard.chimed
  <1> USE DEF ViewIInv
  <1>0. snapshot \in Snapshots /\ srv' = srv /\ asked'.record = asked.record /\ asked'.own = asked.own
    BY HeldBy DEF ViewTypes, Sockets, Requests, Applies
  <1>1. CASE UNCHANGED <<row, es, heard>>
    <2>1. StreamIsOfRow' /\ ReplayIsKnown'
      BY <1>0, <1>1, StreamKeeps DEF StreamIsOfRow
    <2>2. RemovedIsOver' /\ EndsArePast' /\ LogIsOfRow' /\ NotYetOver'
      BY <1>0, <1>1 DEF RemovedIsOver, EndsArePast, InPast, LogIsOfRow, NotYetOver
    <2> QED BY <1>1, <2>1, <2>2 DEF RowParts, ViewTypes
  <1>2. CASE snapshot.complete /\ row.present /\ ~Active(row.state) /\ DropReview
    <2>1. snapshot = Gone
      BY <1>0, <1>2 DEF Snapshots, Gone
    <2>2. ~srv.listed
      BY <1>2, <2>1 DEF FirstRunGoesOn
    <2>3. /\ row' \in Rows /\ ~row'.present /\ ~row'.loaded
          /\ es' \in Streams /\ es'.st = "none" /\ es'.q = <<>> /\ Len(es'.q) = 0
          /\ heard' \in [chimed : SUBSET (0..MaxRuns), misled : BOOLEAN] /\ heard'.chimed = heard.chimed
      BY <1>2, DroppedIs
    <2>4. StreamIsOfRow' /\ ReplayIsKnown' /\ NotYetOver'
      BY <2>3 DEF StreamIsOfRow, ReplayIsKnown, NotYetOver
    <2>5. RemovedIsOver' /\ LogIsOfRow'
      BY <1>0, <2>2, <2>3 DEF RemovedIsOver, LogIsOfRow
    <2>6. EndsArePast'
      BY <1>0, <2>3, NoneHeld DEF EndsArePast, InPast
    <2> QED BY <1>2, <2>2, <2>3, <2>4, <2>5, <2>6 DEF RowParts
  <1> QED BY <1>1, <1>2 DEF Applies, ApplySnapshot

\* A row goes only with its review.
LEMMA ApplyKeeps ==
  ASSUME ViewIInv, NEW snapshot \in ToSet(ws.q) \cup ToSet(asked.got), Applies(snapshot)
  PROVE  /\ ViewTypes' /\ RowParts' /\ NothingYet' /\ FirstRunGoesOn'
         /\ row.present /\ ~row'.present => ~srv.listed
         /\ heard'.chimed = heard.chimed
         /\ es'.st = "none" /\ srv.listed => es.st = "none" /\ heard' = heard /\ ~Active(snapshot.item)
  <1> USE DEF ViewIInv
  <1>1. /\ srv' = srv /\ crowd' = crowd /\ asked'.record = asked.record /\ asked'.own = asked.own
        /\ ToSet(ws'.q) \subseteq ToSet(ws.q) /\ ToSet(asked'.got) \subseteq ToSet(asked.got)
        /\ ws' \in Sockets /\ asked' \in Requests
    BY DEF Applies
  <1>2. CASE snapshot.item # Nothing
    <2>1. /\ RowParts' /\ row' \in Rows /\ es' \in Streams /\ row'.present /\ row'.state = snapshot.item
          /\ heard' \in [chimed : SUBSET (0..MaxRuns), misled : BOOLEAN]
          /\ Active(snapshot.item) => es'.st # "none"
          /\ es'.st = "none" => es.st = "none" /\ heard' = heard
          /\ es'.q = es.q /\ heard'.chimed = heard.chimed
      BY <1>2, ApplyTakesRow
    <2>2. NothingYet'
      BY <1>1, <1>2 DEF NothingYet
    <2>3. FirstRunGoesOn'
      <3> SUFFICES ASSUME srv.listed, Gone \in ToSet(ws.q) \cup ToSet(asked.got)
                   PROVE  FirstRunGoesOn'
        BY <1>1 DEF FirstRunGoesOn, Gone
      <3>1. snapshot.item \in States
        <4>1. snapshot \in Snapshots
          BY HeldBy DEF ViewTypes, Sockets, Requests
        <4> QED BY <1>2, <4>1 DEF Snapshots
      <3>2. Active(row'.state)
        BY <2>1, <3>1, Given DEF FirstRunGoesOn
      <3> QED BY <1>1, <2>1, <3>2 DEF FirstRunGoesOn, Begins, Gone
    <2> QED BY <1>1, <2>1, <2>2, <2>3 DEF ViewTypes
  <1>3. CASE snapshot.item = Nothing
    <2>1. /\ RowParts' /\ row' \in Rows /\ es' \in Streams
          /\ heard' \in [chimed : SUBSET (0..MaxRuns), misled : BOOLEAN]
          /\ \/ UNCHANGED <<row, es, heard>>
             \/ ~srv.listed /\ row.present /\ ~row'.present /\ es'.q = <<>> /\ heard'.chimed = heard.chimed
      BY <1>3, ApplyDropsRow
    <2>2. NothingYet'
      BY <1>1, <2>1 DEF NothingYet
    <2>3. FirstRunGoesOn'
      BY <1>1, <2>1 DEF FirstRunGoesOn, Begins, Gone
    <2> QED BY <1>1, <1>3, <2>1, <2>2, <2>3, Given DEF ViewTypes
  <1> QED BY <1>2, <1>3

LEMMA WsMessageKeeps == ASSUME ViewIInv, WsMessage PROVE ViewIInv' /\ heard'.chimed = heard.chimed
  <1> USE DEF ViewIInv
  <1>1. /\ ws.q # <<>> /\ ws' = [ws EXCEPT !.q = Tail(@)] /\ ApplySnapshot(Head(ws.q))
        /\ UNCHANGED <<srv, crowd, asked, scene>>
    BY DEF WsMessage
  <1> DEFINE head == Head(ws.q)
             tail == Tail(ws.q)
  <1>2. ws.q \in Seq(Snapshots)
    BY DEF ViewTypes, Sockets
  <1>3. /\ head \in ToSet(ws.q) /\ head = ws.q[1] /\ tail \in Seq(Snapshots) /\ ToSet(tail) \subseteq ToSet(ws.q)
        /\ Len(ws.q) \in Nat \ {0} /\ Len(tail) = Len(ws.q) - 1
        /\ \A i \in 1..(Len(ws.q) - 1) : tail[i] = ws.q[i + 1]
    BY <1>1, <1>2, HeldByRest
  <1>4. ws' \in Sockets /\ ws'.st = ws.st /\ ws'.q = tail
    BY <1>1, <1>3 DEF ViewTypes, Sockets
  <1>0. PICK snapshot : snapshot = head
    OBVIOUS
  <1> HIDE DEF head, tail
  <1>5. Applies(snapshot) /\ snapshot \in ToSet(ws.q) \cup ToSet(asked.got)
    BY <1>0, <1>1, <1>3, <1>4 DEF Applies, ViewTypes, head
  <1>6. /\ ViewTypes' /\ RowParts' /\ NothingYet' /\ FirstRunGoesOn' /\ heard'.chimed = heard.chimed
        /\ es'.st = "none" /\ srv.listed => es.st = "none" /\ heard' = heard /\ ~Active(snapshot.item)
    BY <1>5, ApplyKeeps
  <1>7. ws.q[Len(ws.q)] = JobsSnapshot(srv, crowd) /\ ws.st # "closed"
    BY <1>1 DEF LastIsCurrent
  <1>8. LastIsCurrent'
    <2>1. ASSUME tail # <<>> PROVE tail[Len(tail)] = JobsSnapshot(srv, crowd)
      <3>1. Len(tail) # 0
        BY <1>3, <2>1, EmptySeq
      <3>2. PICK n, m : n = Len(tail) /\ m = Len(ws.q)
        OBVIOUS
      <3>3. m \in Nat \ {0} /\ n = m - 1 /\ n # 0
        BY <1>3, <3>1, <3>2
      <3>4. n \in 1..(m - 1) /\ n + 1 = m
        BY <3>3
      <3> QED BY <1>3, <1>7, <3>2, <3>4
    <2> QED BY <1>1, <1>4, <1>7, <2>1 DEF LastIsCurrent
  <1>9. StreamedOrTold'
    <2> SUFFICES ASSUME srv.listed, Active(srv.state), ~crowd, ~heard'.misled, es'.st = "none", tail = <<>>
                 PROVE  FALSE
      BY <1>1, <1>4 DEF StreamedOrTold
    <2>1. Len(ws.q) = 1
      BY <1>3, HeldByNone
    <2>2. snapshot = JobsSnapshot(srv, crowd)
      BY <1>0, <1>3, <1>7, <2>1
    <2>3. snapshot.item = srv.state
      BY <2>2, SnapshotIs DEF ViewTypes
    <2> QED BY <1>6, <2>3
  <1> QED BY <1>6, <1>8, <1>9 DEF RowParts

LEMMA RefreshListKeeps == ASSUME ViewIInv, RefreshList PROVE ViewIInv' /\ heard'.chimed = heard.chimed
  <1> USE DEF ViewIInv
  <1>1. /\ asked.got # <<>> /\ asked' = [asked EXCEPT !.got = <<>>] /\ ApplySnapshot(asked.got[1])
        /\ UNCHANGED <<srv, crowd, ws, scene>>
    BY DEF RefreshList
  <1>2. asked.got \in Seq(Snapshots) /\ Len(asked.got) \in Nat \ {0}
    BY <1>1, EmptySeq DEF ViewTypes, Requests
  <1>0. PICK snapshot : snapshot = asked.got[1]
    OBVIOUS
  <1>3. snapshot \in ToSet(asked.got)
    BY <1>0, <1>2, HeldBy
  <1>4. asked' \in Requests /\ asked'.got = <<>> /\ asked'.record = asked.record /\ asked'.own = asked.own
    BY <1>1, EmptySeq DEF ViewTypes, Requests
  <1>5. Applies(snapshot)
    BY <1>0, <1>1, <1>4, NoneHeld DEF Applies, ViewTypes
  <1>6. /\ ViewTypes' /\ RowParts' /\ NothingYet' /\ FirstRunGoesOn' /\ heard'.chimed = heard.chimed
        /\ es'.st = "none" /\ srv.listed => es.st = "none" /\ heard' = heard
    BY <1>3, <1>5, ApplyKeeps
  <1>7. LastIsCurrent' /\ StreamedOrTold'
    BY <1>1, <1>6 DEF LastIsCurrent, StreamedOrTold
  <1> QED BY <1>6, <1>7 DEF RowParts

\* What a step that leaves the server, the row and its stream alone keeps.
LEMMA RowPartsStay ==
  ASSUME ViewIInv, UNCHANGED <<srv, es, row, heard>>, asked'.record = asked.record, asked'.own = asked.own
  PROVE  RowParts'
  <1> USE DEF ViewIInv
  <1>1. StreamIsOfRow' /\ ReplayIsKnown'
    BY StreamKeeps DEF StreamIsOfRow
  <1> QED BY <1>1 DEF RowParts, RemovedIsOver, EndsArePast, InPast, LogIsOfRow, NotYetOver

LEMMA ConnectLiveKeeps == ASSUME ViewIInv, ConnectLive PROVE ViewIInv'
  <1> USE DEF ViewIInv
  <1> DEFINE snapshot == JobsSnapshot(srv, crowd)
  <1>1. ws' = [st |-> "open", q |-> <<snapshot>>] /\ UNCHANGED <<srv, crowd, es, row, asked, heard>>
    BY DEF ConnectLive
  <1>2. /\ snapshot \in Snapshots /\ (srv.listed => snapshot # Gone)
        /\ snapshot.item # Nothing => srv.listed /\ snapshot.item = srv.state
    BY SnapshotIs DEF ViewTypes
  <1> HIDE DEF snapshot
  <1>3. <<snapshot>> \in Seq(Snapshots) /\ Len(<<snapshot>>) = 1 /\ <<snapshot>>[1] = snapshot
        /\ ToSet(<<snapshot>>) = {snapshot} /\ <<snapshot>> # <<>>
    BY <1>2, HeldByOne
  <1>4. ws' \in Sockets /\ ws'.st = "open" /\ ws'.q = <<snapshot>>
    BY <1>1, <1>3 DEF Sockets
  <1>5. ViewTypes' /\ StreamedOrTold'
    BY <1>1, <1>3, <1>4 DEF ViewTypes, StreamedOrTold
  <1>6. LastIsCurrent'
    BY <1>1, <1>3, <1>4 DEF LastIsCurrent, snapshot
  <1>7. NothingYet'
    BY <1>1, <1>2, <1>3, <1>4 DEF NothingYet
  <1>8. FirstRunGoesOn'
    <2>1. srv.listed => Gone \notin ToSet(ws'.q)
      BY <1>2, <1>3, <1>4
    <2>2. srv.listed /\ Active(srv.state) => ~Terminal(snapshot.item)
      BY <1>2, Given DEF Active, Terminal
    <2> QED BY <1>1, <1>3, <1>4, <2>1, <2>2 DEF FirstRunGoesOn, Begins, Gone
  <1> QED BY <1>1, <1>5, <1>6, <1>7, <1>8, RowPartsStay DEF RowParts

LEMMA WsBreaksKeeps == ASSUME ViewIInv, WsBreaks PROVE ViewIInv'
  <1> USE DEF ViewIInv
  <1>1. ws' = NoSocket /\ UNCHANGED <<srv, crowd, es, row, asked, heard>>
    BY DEF WsBreaks
  <1>2. ws' \in Sockets /\ ws'.st = "closed" /\ ws'.q = <<>>
    BY <1>1, EmptySeq DEF NoSocket, Sockets
  <1>3. ViewTypes' /\ StreamedOrTold' /\ LastIsCurrent'
    BY <1>1, <1>2 DEF ViewTypes, StreamedOrTold, LastIsCurrent
  <1>4. NothingYet' /\ FirstRunGoesOn'
    BY <1>1, <1>2, NoneHeld DEF NothingYet, FirstRunGoesOn, Begins, Gone
  <1> QED BY <1>1, <1>3, <1>4, RowPartsStay DEF RowParts

LEMMA ListServedKeeps == ASSUME ViewIInv, ListServed PROVE ViewIInv'
  <1> USE DEF ViewIInv
  <1> DEFINE snapshot == JobsSnapshot(srv, crowd)
  <1>1. asked' = [asked EXCEPT !.list = FALSE, !.got = <<snapshot>>] /\ UNCHANGED <<srv, crowd, ws, es, row, heard>>
    BY DEF ListServed
  <1>2. /\ snapshot \in Snapshots /\ (srv.listed => snapshot # Gone)
        /\ snapshot.item # Nothing => srv.listed /\ snapshot.item = srv.state
    BY SnapshotIs DEF ViewTypes
  <1> HIDE DEF snapshot
  <1>3. <<snapshot>> \in Seq(Snapshots) /\ ToSet(<<snapshot>>) = {snapshot}
    BY <1>2, HeldByOne
  <1>4. asked' \in Requests /\ asked'.got = <<snapshot>> /\ asked'.record = asked.record /\ asked'.own = asked.own
    BY <1>1, <1>3 DEF ViewTypes, Requests
  <1>5. ViewTypes' /\ StreamedOrTold' /\ LastIsCurrent'
    BY <1>1, <1>4 DEF ViewTypes, StreamedOrTold, LastIsCurrent
  <1>7. NothingYet'
    BY <1>1, <1>2, <1>3, <1>4 DEF NothingYet
  <1>8. FirstRunGoesOn'
    <2>1. srv.listed => Gone \notin ToSet(asked'.got)
      BY <1>2, <1>3, <1>4
    <2>2. srv.listed /\ Active(srv.state) => ~Terminal(snapshot.item)
      BY <1>2, Given DEF Active, Terminal
    <2> QED BY <1>1, <1>3, <1>4, <2>1, <2>2 DEF FirstRunGoesOn, Begins, Gone
  <1> QED BY <1>1, <1>4, <1>5, <1>7, <1>8, RowPartsStay DEF RowParts

\* What a step that leaves the server and the stream alone keeps of a row.
LEMMA RowChanges ==
  ASSUME ViewIInv, UNCHANGED <<srv, es, heard>>, row'.replaying = row.replaying, row'.present = row.present,
         row'.loaded => row'.present, asked'.own = asked.own, LogIsOfRow', NotYetOver'
  PROVE  RowParts'
  <1> USE DEF ViewIInv
  <1>1. StreamIsOfRow' /\ ReplayIsKnown'
    BY StreamKeeps
  <1> QED BY <1>1 DEF RowParts, RemovedIsOver, EndsArePast, InPast

LEMMA SelectReviewKeeps == ASSUME ViewIInv, SelectReview PROVE ViewIInv'
  <1> USE DEF ViewIInv
  <1>1. /\ row.present /\ es.st = "none"
        /\ row' = [row EXCEPT !.loaded = TRUE] /\ asked' = [asked EXCEPT !.record = "asked"]
        /\ UNCHANGED <<srv, crowd, ws, es, heard>>
    BY DEF SelectReview
  <1>2. /\ row' \in Rows /\ row'.loaded /\ row'.present = row.present /\ row'.replaying = row.replaying
        /\ row'.state = row.state
    BY <1>1 DEF ViewTypes, Rows
  <1>3. asked' \in Requests /\ asked'.got = asked.got /\ asked'.record = "asked" /\ asked'.own = asked.own
    BY <1>1 DEF ViewTypes, Requests
  <1>4. ViewTypes' /\ LastIsCurrent' /\ NothingYet' /\ StreamedOrTold'
    BY <1>1, <1>2, <1>3 DEF ViewTypes, LastIsCurrent, NothingYet, StreamedOrTold
  <1>5. FirstRunGoesOn'
    BY <1>1, <1>2, <1>3 DEF FirstRunGoesOn, Begins, Gone, Terminal
  <1>6. LogIsOfRow' /\ NotYetOver'
    BY <1>1, <1>2 DEF LogIsOfRow, NotYetOver
  <1> QED BY <1>1, <1>2, <1>3, <1>4, <1>5, <1>6, RowChanges DEF RowParts

LEMMA RecordServedKeeps == ASSUME ViewIInv, RecordServed PROVE ViewIInv'
  <1> USE DEF ViewIInv
  <1> DEFINE record == IF srv.listed THEN srv.state ELSE Nothing
  <1>1. /\ asked.record = "asked" /\ asked' = [asked EXCEPT !.record = record]
        /\ UNCHANGED <<srv, crowd, ws, es, row, heard>>
    BY DEF RecordServed
  <1>2. record \in States \cup {Nothing} /\ (srv.listed /\ Active(srv.state) => ~Terminal(record))
    BY Given DEF ViewTypes, Reviews
  <1> HIDE DEF record
  <1>3. asked' \in Requests /\ asked'.got = asked.got /\ asked'.record = record /\ asked'.own = asked.own
    BY <1>1, <1>2 DEF ViewTypes, Requests
  <1>4. asked.record # Nothing
    BY <1>1, Given
  <1>5. ViewTypes' /\ LastIsCurrent' /\ NothingYet' /\ StreamedOrTold'
    BY <1>1, <1>3, <1>4 DEF ViewTypes, LastIsCurrent, NothingYet, StreamedOrTold
  <1>6. FirstRunGoesOn'
    BY <1>1, <1>2, <1>3 DEF FirstRunGoesOn, Begins, Gone
  <1>7. LogIsOfRow' /\ NotYetOver'
    BY <1>1, <1>4 DEF LogIsOfRow, NotYetOver
  <1>8. row'.loaded => row'.present
    BY <1>1 DEF StreamIsOfRow
  <1> QED BY <1>1, <1>3, <1>5, <1>6, <1>7, <1>8, RowChanges DEF RowParts

LEMMA LoadFinishedLogKeeps == ASSUME ViewIInv, LoadFinishedLog PROVE ViewIInv' /\ row'.present = row.present
  <1> USE DEF ViewIInv
  <1>1. /\ asked.record \in States /\ asked' = [asked EXCEPT !.record = Nothing]
        /\ row' = IF row.present THEN [row EXCEPT !.state = asked.record, !.finished = TRUE] ELSE row
        /\ UNCHANGED <<srv, crowd, ws, es, heard>>
    BY DEF LoadFinishedLog
  <1>2. /\ row' \in Rows /\ row'.present = row.present /\ row'.replaying = row.replaying /\ row'.loaded = row.loaded
        /\ row.present => row'.state = asked.record
    BY <1>1 DEF ViewTypes, Rows
  <1>3. asked' \in Requests /\ asked'.got = asked.got /\ asked'.record = Nothing /\ asked'.own = asked.own
    BY <1>1 DEF ViewTypes, Requests
  <1>4. asked.record # Nothing
    BY <1>1, Given
  <1>5. ViewTypes' /\ LastIsCurrent' /\ NothingYet' /\ StreamedOrTold'
    BY <1>1, <1>2, <1>3, <1>4 DEF ViewTypes, LastIsCurrent, NothingYet, StreamedOrTold
  <1>6. FirstRunGoesOn'
    <2>1. Active(asked.record) <=> ~Terminal(asked.record)
      BY <1>1, Given
    <2> QED BY <1>1, <1>2, <1>3, <2>1, Given DEF FirstRunGoesOn, Begins, Gone
  <1>7. LogIsOfRow'
    BY <1>3 DEF LogIsOfRow
  <1>8. NotYetOver'
    <2>1. row.loaded \/ (~srv.listed /\ es.st \notin {"open", "ending"})
      BY <1>4 DEF LogIsOfRow
    <2> QED BY <1>1, <1>2, <2>1 DEF NotYetOver
  <1>9. row'.loaded => row'.present
    BY <1>2 DEF StreamIsOfRow
  <1> QED BY <1>1, <1>2, <1>3, <1>5, <1>6, <1>7, <1>8, <1>9, RowChanges DEF RowParts

\* The answer to a request of this page.
LEMMA AnsweredKeeps ==
  ASSUME ViewIInv, Answered
  PROVE  ViewIInv' /\ heard'.chimed = heard.chimed /\ (row.present /\ ~row'.present => ~srv.listed)
  <1> USE DEF ViewIInv
  <1>1. asked.own # Nothing /\ UNCHANGED <<srv, crowd, ws>> /\ srv.run # 0
    BY DEF Answered, NothingYet
  <1>2. NothingYet'
    BY <1>1 DEF NothingYet
  <1>3. /\ asked.own = "delete" => ~srv.listed
        /\ asked.record # Nothing => row.loaded \/ ~srv.listed
        /\ row.loaded => row.present
    BY DEF RemovedIsOver, LogIsOfRow, StreamIsOfRow
  <1>4. ASSUME NEW r \in Rows, OpenStream(r), r.present, Active(r.state), row.loaded => r.loaded,
               asked' \in Requests, asked'.got = asked.got, asked'.record = asked.record, asked'.own = Nothing
        PROVE  ViewIInv' /\ heard'.chimed = heard.chimed /\ row'.present
    <2>1. asked'.own # "delete"
      BY <1>4, Given
    <2>2. /\ StreamIsOfRow' /\ RemovedIsOver' /\ StreamedOrTold' /\ EndsArePast' /\ ReplayIsKnown'
          /\ LogIsOfRow' /\ NotYetOver'
      BY <1>1, <1>3, <1>4, <2>1, OpenedKeeps
    <2>3. /\ row' \in Rows /\ row'.present /\ row'.state = r.state
          /\ es' \in Streams /\ es'.q = <<>>
          /\ heard' \in [chimed : SUBSET (0..MaxRuns), misled : BOOLEAN] /\ heard'.chimed = heard.chimed
      BY <1>4, OpenedIs
    <2>4. ViewTypes' /\ LastIsCurrent'
      BY <1>1, <1>4, <2>3 DEF ViewTypes, LastIsCurrent
    <2>5. FirstRunGoesOn'
      BY <1>1, <1>4, <2>3, NoneHeld DEF FirstRunGoesOn, Begins, Gone
    <2> QED BY <1>2, <2>2, <2>3, <2>4, <2>5
  <1>5. CASE asked.own = "submit"
    <2>1. OpenStream(UpsertReview(row, "queued")) /\ asked' = [asked EXCEPT !.own = Nothing, !.list = TRUE]
      BY <1>5 DEF Answered
    <2>2. asked' \in Requests /\ asked'.got = asked.got /\ asked'.record = asked.record /\ asked'.own = Nothing
      BY <2>1 DEF ViewTypes, Requests
    <2>3. PICK r : r = UpsertReview(row, "queued")
      OBVIOUS
    <2>4. /\ r \in Rows /\ r.present /\ r.state = "queued"
          /\ row.present => r.loaded = row.loaded
      BY <2>3, UpsertIs DEF States
    <2> QED BY <1>3, <1>4, <2>1, <2>2, <2>3, <2>4 DEF Active
  <1>6. CASE asked.own = "verify"
    <2>1. /\ asked' = [asked EXCEPT !.own = Nothing]
          /\ IF row.present THEN OpenStream([row EXCEPT !.finished = FALSE, !.state = "running"])
             ELSE UNCHANGED <<row, es, heard>>
      BY <1>6 DEF Answered
    <2>2. asked' \in Requests /\ asked'.got = asked.got /\ asked'.record = asked.record /\ asked'.own = Nothing
      BY <2>1 DEF ViewTypes, Requests
    <2>3. CASE row.present
      <3>1. PICK r : r = [row EXCEPT !.finished = FALSE, !.state = "running"]
        OBVIOUS
      <3>2. r \in Rows /\ r.present /\ r.state = "running" /\ r.loaded = row.loaded
        BY <2>3, <3>1 DEF ViewTypes, Rows, States
      <3> QED BY <1>4, <2>1, <2>2, <2>3, <3>1, <3>2 DEF Active
    <2>4. CASE ~row.present
      <3>1. UNCHANGED <<row, es, heard>>
        BY <2>1, <2>4
      <3>2. ViewTypes' /\ LastIsCurrent' /\ StreamedOrTold'
        BY <1>1, <2>2, <3>1 DEF ViewTypes, LastIsCurrent, StreamedOrTold
      <3>3. FirstRunGoesOn'
        BY <1>1, <2>2, <3>1 DEF FirstRunGoesOn, Begins, Gone
      <3>4. StreamIsOfRow' /\ ReplayIsKnown'
        BY <1>1, <3>1, StreamKeeps DEF StreamIsOfRow
      <3>5. asked'.own # "delete"
        BY <2>2, Given
      <3>6. RemovedIsOver' /\ EndsArePast' /\ LogIsOfRow' /\ NotYetOver'
        BY <1>1, <2>2, <3>1, <3>5 DEF RemovedIsOver, EndsArePast, InPast, LogIsOfRow, NotYetOver
      <3> QED BY <1>2, <2>4, <3>1, <3>2, <3>3, <3>4, <3>6
    <2> QED BY <2>3, <2>4
  <1>7. CASE asked.own = "delete"
    <2>1. asked' = [asked EXCEPT !.own = Nothing] /\ DropReview /\ ~srv.listed
      BY <1>3, <1>7 DEF Answered
    <2>2. asked' \in Requests /\ asked'.got = asked.got /\ asked'.record = asked.record /\ asked'.own = Nothing
      BY <2>1 DEF ViewTypes, Requests
    <2>3. /\ row' \in Rows /\ ~row'.present /\ ~row'.loaded
          /\ es' \in Streams /\ es'.st = "none" /\ es'.q = <<>> /\ Len(es'.q) = 0
          /\ heard' \in [chimed : SUBSET (0..MaxRuns), misled : BOOLEAN] /\ heard'.chimed = heard.chimed
      BY <2>1, DroppedIs
    <2>4. ViewTypes' /\ LastIsCurrent' /\ StreamedOrTold' /\ FirstRunGoesOn'
      BY <1>1, <2>1, <2>2, <2>3 DEF ViewTypes, LastIsCurrent, StreamedOrTold, FirstRunGoesOn
    <2>5. StreamIsOfRow' /\ ReplayIsKnown' /\ NotYetOver'
      BY <2>3 DEF StreamIsOfRow, ReplayIsKnown, NotYetOver
    <2>6. RemovedIsOver' /\ LogIsOfRow'
      BY <1>1, <2>1, <2>3 DEF RemovedIsOver, LogIsOfRow
    <2>7. EndsArePast'
      BY <1>1, <2>3, NoneHeld DEF EndsArePast, InPast
    <2> QED BY <1>2, <2>1, <2>3, <2>4, <2>5, <2>6, <2>7
  <1> QED BY <1>5, <1>6, <1>7 DEF Answered

-----------------------------------------------------------------------------
(* What its event stream brings.                                           *)

\* Nothing of the replay is behind its end, and no run in it goes on.
LEMMA ReplayedIsKnown ==
  ASSUME ViewIInv, EsConnects, srv.listed
  PROVE  /\ es' \in Streams /\ es'.st \in {"open", "ending"} /\ ReplayIsKnown'
         /\ \A ev \in ToSet(es'.q) : ev \in ToSet(srv.events) \/ ev.kind \in {"caught_up", "stream_end"}
         /\ Active(srv.state) => \A ev \in ToSet(es'.q) : ev \in ToSet(srv.events) \/ ev.kind = "caught_up"
  <1> USE DEF ViewIInv
  <1>1. /\ es.st = "connecting" /\ UNCHANGED <<srv, row>>
        /\ es' = [es EXCEPT !.st = Replay(srv).st, !.q = Replay(srv).q, !.over = Over(srv)]
    BY DEF EsConnects
  <1>2. /\ srv.run \in Nat /\ srv.run # 0 /\ srv.run <= MaxRuns
        /\ srv.events \in Seq(Events) /\ srv.state \in States
    BY RunsAreNats, ListedRan DEF ViewTypes, Reviews
  <1> DEFINE over == Over(srv)
             last == IF srv.state \in {"done", "failed"} THEN [kind |-> "stream_end", state |-> srv.state]
                     ELSE [kind |-> "caught_up"]
             st == IF srv.state \in {"done", "failed"} THEN "ending" ELSE "open"
             q == Append(srv.events, last)
  <1>3. over \in 0..MaxRuns /\ over <= srv.run /\ (Active(srv.state) => over = srv.run - 1) /\ (~Active(srv.state) => over = srv.run)
    BY <1>2, Given DEF Over
  <1>4. /\ last \in Messages /\ last.kind \in {"caught_up", "stream_end"}
        /\ st = "open" => last.kind = "caught_up"
        /\ Active(srv.state) => last.kind = "caught_up"
        /\ st \in {"open", "ending"} /\ (st = "open" \/ ~Active(srv.state))
    BY DEF Messages, Active
  <1>5. Replay(srv).st = st /\ Replay(srv).q = q
    BY DEF Replay
  <1> HIDE DEF over, last, st
  <1>6. srv.events \in Seq(Messages) /\ Len(srv.events) \in Nat /\ \A i \in 1..Len(srv.events) : srv.events[i] \in Events
    BY <1>2, SeqMonotonic, LenProperties, ElementOfSeq DEF Messages
  <1>7. /\ q \in Seq(Messages) /\ Len(q) = Len(srv.events) + 1
        /\ \A i \in 1..Len(srv.events) : q[i] = srv.events[i]
        /\ q[Len(srv.events) + 1] = last
        /\ ToSet(q) = ToSet(srv.events) \cup {last}
    BY <1>4, <1>6, HeldByAppended
  <1> HIDE DEF q
  <1>8. es' = [es EXCEPT !.st = st, !.q = q, !.over = over]
    BY <1>1, <1>5 DEF over
  <1>9. es' \in Streams /\ es'.st = st /\ es'.q = q /\ es'.over = over /\ es'.again = es.again
    BY <1>3, <1>4, <1>7, <1>8 DEF ViewTypes, Streams
  <1>10. PICK n \in Nat : n = Len(srv.events)
    BY <1>6
  <1>11. \A i \in 1..n : /\ q[i].kind # "caught_up" /\ q[i].kind # "stream_end"
                         /\ q[i].kind \in Ends => q[i].run <= over
    <2> SUFFICES ASSUME NEW i \in 1..n PROVE /\ q[i].kind # "caught_up" /\ q[i].kind # "stream_end"
                                             /\ q[i].kind \in Ends => q[i].run <= over
      OBVIOUS
    <2>1. PICK ev : ev = q[i]
      OBVIOUS
    <2>2. ev \in Events /\ ev \in ToSet(srv.events)
      BY <1>2, <1>6, <1>7, <1>10, <2>1, HeldBy
    <2>3. InPast(ev)
      BY <2>2 DEF EndsArePast
    <2>4. ev.run \in Nat /\ ev.kind \in Kinds
      BY <2>2, Given DEF Events
    <2> QED BY <1>2, <1>3, <2>1, <2>3, <2>4 DEF InPast, Kinds
  <1>12. \A i \in 1..(n + 1) : ~CaughtUpBefore(q, i)
    <2> SUFFICES ASSUME NEW i \in 1..(n + 1), NEW c \in 1..Len(q), c < i, q[c].kind = "caught_up" PROVE FALSE
      BY DEF CaughtUpBefore
    <2>1. c \in 1..n
      BY <1>10
    <2> QED BY <1>11, <2>1
  <1>13. ~es'.again => row'.replaying
    BY <1>1, <1>9 DEF ReplayIsKnown
  <1>14. ASSUME es'.st = "open"
         PROVE  /\ es'.over <= srv'.run /\ (Active(srv'.state) => es'.over < srv'.run)
                /\ LiveIn(es'.q, row', Len(es'.q) + 1)
    <2>1. q[n + 1].kind = "caught_up" /\ n + 1 \in 1..Len(q) /\ n + 1 < Len(q) + 1
      BY <1>4, <1>7, <1>9, <1>10, <1>14
    <2>2. CaughtUpBefore(q, Len(q) + 1)
      BY <2>1 DEF CaughtUpBefore
    <2>3. over <= srv.run /\ (Active(srv.state) => over < srv.run)
      BY <1>2, <1>3
    <2> QED BY <1>1, <1>9, <2>2, <2>3 DEF LiveIn
  <1>15. ASSUME NEW i \in 1..Len(es'.q)
         PROVE  /\ es'.q[i].kind \in Ends /\ es'.q[i].run > es'.over => LiveIn(es'.q, row', i)
                /\ ~es'.again /\ es'.q[i].kind \in Ends /\ LiveIn(es'.q, row', i) => es'.q[i].run > es'.over
                /\ ~es'.again /\ es'.q[i].kind = "stream_end" /\ Terminal(es'.q[i].state) => ~LiveIn(es'.q, row', i)
    <2>1. i \in 1..(n + 1) /\ (i \in 1..n \/ i = n + 1)
      BY <1>7, <1>9, <1>10
    <2>2. ~es'.again => ~LiveIn(q, row', i)
      BY <1>12, <1>13, <2>1 DEF LiveIn
    <2>3. q[i].kind \in Ends => i \in 1..n
      BY <1>4, <1>7, <1>10, <2>1 DEF Ends
    <2>4. ~(q[i].kind \in Ends /\ q[i].run > over)
      <3> SUFFICES ASSUME q[i].kind \in Ends PROVE ~(q[i].run > over)
        OBVIOUS
      <3>1. PICK ev : ev = q[i]
        OBVIOUS
      <3>2. i \in 1..n
        BY <2>3
      <3>3. ev \in Events
        BY <1>6, <1>7, <1>10, <3>1, <3>2
      <3>4. ev.run \in Nat /\ over \in Nat /\ ev.run <= over
        BY <1>3, <1>11, <3>1, <3>2, <3>3, Given DEF Events
      <3> QED BY <3>1, <3>4
    <2> QED BY <1>9, <2>2, <2>4
  <1>16. es'.st # "connecting"
    BY <1>4, <1>9
  <1>17. ReplayIsKnown'
    BY <1>14, <1>15, <1>16 DEF ReplayIsKnown
  <1> QED BY <1>4, <1>7, <1>9, <1>17

LEMMA EsConnectsKeeps == ASSUME ViewIInv, EsConnects PROVE ViewIInv'
  <1> USE DEF ViewIInv
  <1>1. /\ es.st = "connecting" /\ UNCHANGED <<srv, crowd, ws, row, asked, heard>>
        /\ es' = IF srv.listed
                 THEN [es EXCEPT !.st = Replay(srv).st, !.q = Replay(srv).q, !.over = Over(srv)]
                 ELSE [es EXCEPT !.st = "refused"]
    BY DEF EsConnects
  <1>2. LastIsCurrent' /\ NothingYet' /\ (row.loaded => row.present) /\ row.present
    BY <1>1 DEF LastIsCurrent, NothingYet, StreamIsOfRow
  <1>3. CASE srv.listed
    <2>1. /\ es' \in Streams /\ es'.st \in {"open", "ending"} /\ ReplayIsKnown'
          /\ \A ev \in ToSet(es'.q) : ev \in ToSet(srv.events) \/ ev.kind \in {"caught_up", "stream_end"}
          /\ Active(srv.state) => \A ev \in ToSet(es'.q) : ev \in ToSet(srv.events) \/ ev.kind = "caught_up"
      BY <1>3, ReplayedIsKnown
    <2>2. ViewTypes' /\ StreamIsOfRow' /\ RemovedIsOver' /\ StreamedOrTold'
      BY <1>1, <1>2, <1>3, <2>1 DEF ViewTypes, StreamIsOfRow, RemovedIsOver, StreamedOrTold
    <2>3. EndsArePast'
      <3>1. \A ev \in ToSet(srv.events) : InPast(ev)
        BY DEF EndsArePast
      <3>2. \A ev \in ToSet(srv.events) \cup ToSet(es'.q) : InPast(ev)
        BY <2>1, <3>1 DEF InPast, Ends
      <3> QED BY <1>1, <3>2 DEF EndsArePast, InPast
    <2>4. FirstRunGoesOn'
      BY <1>1, <2>1 DEF FirstRunGoesOn, Begins, Gone
    <2>5. LogIsOfRow' /\ NotYetOver'
      BY <1>1, <1>3 DEF LogIsOfRow, NotYetOver
    <2> QED BY <1>2, <2>1, <2>2, <2>3, <2>4, <2>5
  <1>4. CASE ~srv.listed
    <2>1. es' = [es EXCEPT !.st = "refused"] /\ es.q = <<>>
      BY <1>1, <1>4 DEF StreamIsOfRow
    <2>2. es' \in Streams /\ es'.st = "refused" /\ es'.q = <<>> /\ Len(es'.q) = 0
      BY <2>1, HeldByNone DEF ViewTypes, Streams
    <2>3. ViewTypes' /\ StreamIsOfRow' /\ RemovedIsOver' /\ StreamedOrTold'
      BY <1>1, <1>2, <1>4, <2>2 DEF ViewTypes, StreamIsOfRow, RemovedIsOver, StreamedOrTold
    <2>4. EndsArePast' /\ FirstRunGoesOn'
      BY <1>1, <1>4, <2>2, NoneHeld DEF EndsArePast, InPast, FirstRunGoesOn
    <2>5. LogIsOfRow' /\ NotYetOver' /\ ReplayIsKnown'
      BY <1>1, <1>4, <2>2 DEF LogIsOfRow, NotYetOver, ReplayIsKnown
    <2> QED BY <1>2, <2>3, <2>4, <2>5
  <1> QED BY <1>3, <1>4

LEMMA StreamBreaksKeeps ==
  ASSUME ViewIInv, es' = Broken, UNCHANGED <<srv, crowd, ws, row, asked, heard>>
  PROVE  ViewIInv'
  <1> USE DEF ViewIInv
  <1>1. /\ es' \in Streams /\ es'.q = <<>>
        /\ es'.st = "none" <=> es.st = "none"
        /\ es'.st = "refused" <=> es.st = "refused"
        /\ es'.st \notin {"open", "ending"}
    BY BrokenIs
  <1>2. srv' \in Reviews /\ srv'.listed = srv.listed /\ srv'.run = srv.run
    BY DEF ViewTypes
  <1>3. StreamIsOfRow' /\ ReplayIsKnown' /\ NotYetOver'
    BY <1>2, BreakKeeps
  <1>4. ViewTypes' /\ LastIsCurrent' /\ NothingYet' /\ RemovedIsOver' /\ StreamedOrTold' /\ LogIsOfRow'
    BY <1>1 DEF ViewTypes, LastIsCurrent, NothingYet, RemovedIsOver, StreamedOrTold, LogIsOfRow
  <1>5. EndsArePast' /\ FirstRunGoesOn'
    BY <1>1, NoneHeld DEF EndsArePast, InPast, FirstRunGoesOn, Begins, Gone
  <1> QED BY <1>3, <1>4, <1>5

LEMMA EsReconnectsKeeps == ASSUME ViewIInv, EsReconnects PROVE ViewIInv'
  BY StreamBreaksKeeps DEF EsReconnects

LEMMA EsBreaksKeeps == ASSUME ViewIInv, EsBreaks PROVE ViewIInv'
  BY StreamBreaksKeeps DEF EsBreaks

\* What the stream brings, to a page that has the row.
Comes(ev) ==
    /\ ev = Head(es.q) /\ ev \in Messages /\ ev \in ToSet(es.q) /\ ev = es.q[1] /\ 1 \in 1..Len(es.q)
    /\ es.st \in {"open", "ending"} /\ row.present /\ srv.run # 0
    /\ ~CaughtUpBefore(es.q, 1)

LEMMA EventComes == ASSUME ViewIInv, es.q # <<>> PROVE \E ev : Comes(ev)
  <1> USE DEF ViewIInv
  <1>1. es.q \in Seq(Messages)
    BY DEF ViewTypes, Streams
  <1>2. /\ Len(es.q) \in Nat \ {0} /\ Head(es.q) = es.q[1] /\ Head(es.q) \in Messages /\ Head(es.q) \in ToSet(es.q)
    BY <1>1, HeldByRest
  <1>3. es.st \in {"open", "ending"} /\ row.present
    BY DEF StreamIsOfRow
  <1>4. srv.run # 0
    BY <1>3 DEF NothingYet
  <1>5. 1 \in 1..Len(es.q)
    BY <1>2
  <1>6. ~CaughtUpBefore(es.q, 1)
    BY DEF CaughtUpBefore
  <1> QED BY <1>2, <1>3, <1>4, <1>5, <1>6 DEF Comes

\* What is behind a message taken off the stream is as live as it was.
LEMMA RestIsKnown ==
  ASSUME ViewIInv, NEW ev, Comes(ev), es' = [es EXCEPT !.q = Tail(@)], srv' = srv,
         row' \in Rows, row'.replaying = (row.replaying /\ ev.kind # "caught_up")
  PROVE  /\ ReplayIsKnown' /\ es' \in Streams /\ es'.st = es.st /\ ToSet(es'.q) \subseteq ToSet(es.q)
  <1> USE DEF ViewIInv
  <1>1. es.q \in Seq(Messages) /\ Len(es.q) \in Nat /\ es.q # <<>>
    <2>1. es.q \in Seq(Messages)
      BY DEF ViewTypes, Streams
    <2>2. Len(es.q) \in Nat /\ Len(es.q) # 0
      BY <2>1, LenProperties DEF Comes
    <2> QED BY <2>1, <2>2, HeldByNone
  <1>2. PICK q : q = Tail(es.q)
    OBVIOUS
  <1>3. PICK n \in Nat : n = Len(q)
    BY <1>1, <1>2, HeldByRest, LenProperties
  <1>4. /\ q \in Seq(Messages) /\ Len(es.q) = n + 1 /\ ToSet(q) \subseteq ToSet(es.q)
        /\ \A i \in 1..n : q[i] = es.q[i + 1]
    <2>1. /\ q \in Seq(Messages) /\ Len(q) = Len(es.q) - 1 /\ ToSet(q) \subseteq ToSet(es.q)
          /\ \A i \in 1..(Len(es.q) - 1) : q[i] = es.q[i + 1]
      BY <1>1, <1>2, HeldByRest
    <2> QED BY <1>1, <1>3, <2>1
  <1>5. es' \in Streams /\ es'.st = es.st /\ es'.q = q /\ es'.over = es.over /\ es'.again = es.again
    BY <1>2, <1>4 DEF ViewTypes, Streams
  <1>6. \A i \in 1..(n + 1) : LiveIn(q, row', i) <=> LiveIn(es.q, row, i + 1)
    <2> SUFFICES ASSUME NEW i \in 1..(n + 1) PROVE LiveIn(q, row', i) <=> LiveIn(es.q, row, i + 1)
      OBVIOUS
    <2>1. CASE ev.kind = "caught_up"
      <3>1. CaughtUpBefore(es.q, i + 1)
        <4>1. 1 \in 1..Len(es.q) /\ 1 < i + 1 /\ es.q[1].kind = "caught_up"
          BY <2>1 DEF Comes
        <4> QED BY <4>1 DEF CaughtUpBefore
      <3> QED BY <2>1, <3>1 DEF LiveIn
    <2>2. CASE ev.kind # "caught_up"
      <3>1. ASSUME NEW c \in 1..Len(q), c < i, q[c].kind = "caught_up" PROVE CaughtUpBefore(es.q, i + 1)
        <4>1. c + 1 \in 1..Len(es.q) /\ c + 1 < i + 1 /\ es.q[c + 1] = q[c]
          BY <1>3, <1>4, <3>1
        <4>2. es.q[c + 1].kind = "caught_up"
          BY <3>1, <4>1
        <4> QED BY <4>1, <4>2 DEF CaughtUpBefore
      <3>2. ASSUME NEW c \in 1..Len(es.q), c < i + 1, es.q[c].kind = "caught_up" PROVE CaughtUpBefore(q, i)
        <4>1. c # 1
          BY <2>2, <3>2 DEF Comes
        <4>2. c - 1 \in 1..n /\ c - 1 < i /\ (c - 1) + 1 = c
          BY <1>4, <3>2, <4>1
        <4>3. q[c - 1].kind = "caught_up" /\ c - 1 \in 1..Len(q)
          BY <1>3, <1>4, <3>2, <4>2
        <4> QED BY <4>2, <4>3 DEF CaughtUpBefore
      <3>3. CaughtUpBefore(q, i) <=> CaughtUpBefore(es.q, i + 1)
        BY <3>1, <3>2 DEF CaughtUpBefore
      <3> QED BY <2>2, <3>3 DEF LiveIn
    <2> QED BY <2>1, <2>2
  <1>7. ASSUME es'.st = "open"
        PROVE  /\ es'.over <= srv'.run /\ (Active(srv'.state) => es'.over < srv'.run)
               /\ LiveIn(es'.q, row', Len(es'.q) + 1)
    <2>1. /\ es.over <= srv.run /\ (Active(srv.state) => es.over < srv.run)
          /\ LiveIn(es.q, row, (n + 1) + 1)
      BY <1>4, <1>5, <1>7 DEF ReplayIsKnown
    <2>2. n + 1 \in 1..(n + 1)
      OBVIOUS
    <2> QED BY <1>3, <1>5, <1>6, <2>1, <2>2
  <1>8. ASSUME NEW i \in 1..Len(es'.q)
        PROVE  /\ es'.q[i].kind \in Ends /\ es'.q[i].run > es'.over => LiveIn(es'.q, row', i)
               /\ ~es'.again /\ es'.q[i].kind \in Ends /\ LiveIn(es'.q, row', i) => es'.q[i].run > es'.over
               /\ ~es'.again /\ es'.q[i].kind = "stream_end" /\ Terminal(es'.q[i].state) => ~LiveIn(es'.q, row', i)
    <2>1. i \in 1..n /\ i \in 1..(n + 1) /\ i + 1 \in 1..Len(es.q)
      BY <1>3, <1>4, <1>5
    <2>2. q[i] = es.q[i + 1] /\ (LiveIn(q, row', i) <=> LiveIn(es.q, row, i + 1))
      BY <1>4, <1>6, <2>1
    <2> QED BY <1>5, <2>1, <2>2 DEF ReplayIsKnown
  <1>9. es'.st # "connecting"
    BY <1>5 DEF Comes
  <1>10. ReplayIsKnown'
    BY <1>7, <1>8, <1>9 DEF ReplayIsKnown
  <1> QED BY <1>4, <1>5, <1>10

\* A message that takes the row further, and leaves the stream to the next.
LEMMA GoesOnKeeps ==
  ASSUME ViewIInv, NEW ev, Comes(ev), es' = [es EXCEPT !.q = Tail(@)], UNCHANGED <<srv, crowd, ws, asked>>,
         row' \in Rows, row'.replaying = (row.replaying /\ ev.kind # "caught_up"),
         row'.present = row.present, row'.loaded = row.loaded, heard' = heard,
         Begins(ev) => Active(row'.state) \/ row'.state = row.state,
         NotYetOver'
  PROVE  ViewIInv'
  <1> USE DEF ViewIInv
  <1>1. ReplayIsKnown' /\ es' \in Streams /\ es'.st = es.st /\ ToSet(es'.q) \subseteq ToSet(es.q)
    BY RestIsKnown
  <1>2. ViewTypes' /\ LastIsCurrent' /\ NothingYet'
    BY <1>1 DEF ViewTypes, LastIsCurrent, NothingYet
  <1>3. StreamIsOfRow' /\ RemovedIsOver' /\ StreamedOrTold' /\ LogIsOfRow'
    BY <1>1 DEF Comes, StreamIsOfRow, RemovedIsOver, StreamedOrTold, LogIsOfRow
  <1>4. EndsArePast'
    BY <1>1 DEF EndsArePast, InPast
  <1>5. FirstRunGoesOn'
    BY <1>1 DEF FirstRunGoesOn, Begins, Gone, Comes
  <1> QED BY <1>1, <1>2, <1>3, <1>4, <1>5

\* The end of a run, replayed or live.
LEMMA FinishKeeps ==
  ASSUME ViewIInv, NEW ev, Comes(ev), NEW state \in {"done", "failed"}, NEW run \in 0..MaxRuns, FinishRow(state, run),
         UNCHANGED <<srv, crowd, ws, asked>>,
         (ev.kind \in Ends /\ run = ev.run) \/ (ev.kind = "stream_end" /\ run = 0)
  PROVE  ViewIInv' /\ row'.present = row.present
  <1> USE DEF ViewIInv
  <1> DEFINE first == ~row.finished /\ ~row.notified /\ ~row.replaying
  <1>1. /\ row' = [row EXCEPT !.finished = TRUE, !.state = state, !.notified = @ \/ first]
        /\ es' = IF row.replaying THEN [es EXCEPT !.q = Tail(@)] ELSE NoStream
        /\ heard' = [chimed |-> heard.chimed \cup IF first THEN {run} ELSE {},
                     misled |-> heard.misled \/ (~row.replaying /\ run # srv.run)]
    BY DEF FinishRow
  <1>2. first \in BOOLEAN /\ (first => ~row.replaying)
    BY DEF ViewTypes, Rows
  <1> HIDE DEF first
  <1>3. /\ row' \in Rows /\ row'.replaying = row.replaying /\ row'.present = row.present /\ row'.loaded = row.loaded
    BY <1>1, <1>2 DEF ViewTypes, Rows, States
  <1>4. ~Begins(ev) /\ ev.kind # "caught_up"
    BY DEF Begins, Ends
  <1>5. srv.listed => Gone \notin ToSet(ws.q) \cup ToSet(asked.got)
    BY <1>4 DEF FirstRunGoesOn, Comes
  <1>6. heard' \in [chimed : SUBSET (0..MaxRuns), misled : BOOLEAN]
    <2>1. heard.chimed \cup (IF first THEN {run} ELSE {}) \in SUBSET (0..MaxRuns)
      BY DEF ViewTypes
    <2>2. (heard.misled \/ (~row.replaying /\ run # srv.run)) \in BOOLEAN
      BY DEF ViewTypes
    <2> QED BY <1>1, <2>1, <2>2
  <1>7. LastIsCurrent' /\ NothingYet' /\ FirstRunGoesOn'
    BY <1>3, <1>5 DEF LastIsCurrent, NothingYet, FirstRunGoesOn, Gone, Comes
  <1>8. CASE row.replaying
    <2>1. es' = [es EXCEPT !.q = Tail(@)] /\ row'.replaying = (row.replaying /\ ev.kind # "caught_up")
      BY <1>1, <1>3, <1>4, <1>8
    <2>2. ReplayIsKnown' /\ es' \in Streams /\ es'.st = es.st /\ ToSet(es'.q) \subseteq ToSet(es.q)
      BY <1>3, <2>1, RestIsKnown
    <2>3. ViewTypes' /\ StreamIsOfRow' /\ RemovedIsOver' /\ StreamedOrTold' /\ LogIsOfRow'
      BY <1>3, <1>6, <2>2 DEF ViewTypes, Comes, StreamIsOfRow, RemovedIsOver, StreamedOrTold, LogIsOfRow
    <2>4. EndsArePast' /\ NotYetOver'
      BY <1>3, <1>8, <2>2 DEF EndsArePast, InPast, NotYetOver
    <2> QED BY <1>3, <1>7, <2>2, <2>3, <2>4
  <1>9. CASE ~row.replaying
    <2>1. es' = NoStream
      BY <1>1, <1>9
    <2>2. es' \in Streams /\ es'.st = "none" /\ es'.q = <<>> /\ Len(es'.q) = 0
      BY <2>1, Given, EmptySeq, HeldByNone DEF NoStream, Streams
    <2>3. ViewTypes' /\ StreamIsOfRow' /\ RemovedIsOver'
      BY <1>3, <1>6, <2>2 DEF ViewTypes, Comes, StreamIsOfRow, RemovedIsOver
    <2>4. StreamedOrTold'
      <3> SUFFICES ASSUME Active(srv.state) PROVE heard'.misled
        BY DEF StreamedOrTold
      <3>1. ev.kind \in Ends => ev.run < srv.run
        BY DEF Comes, EndsArePast, InPast
      <3>2. run # srv.run
        <4>1. CASE ev.kind \in Ends /\ run = ev.run
          <5>1. run < srv.run /\ run \in Nat /\ srv.run \in Nat
            BY <3>1, <4>1, RunsAreNats, Given
          <5> QED BY <5>1
        <4>2. CASE ev.kind = "stream_end" /\ run = 0
          BY <4>2 DEF Comes
        <4> QED BY <4>1, <4>2
      <3> QED BY <1>1, <1>9, <3>2
    <2>5. LogIsOfRow'
      BY <1>3, <2>2 DEF LogIsOfRow
    <2>6. EndsArePast' /\ NotYetOver' /\ ReplayIsKnown'
      BY <2>2, NoneHeld DEF EndsArePast, InPast, NotYetOver, ReplayIsKnown
    <2> QED BY <1>3, <1>7, <2>3, <2>4, <2>5, <2>6
  <1> QED BY <1>8, <1>9

\* A message either takes the row further or ends a run.
LEMMA HandledIs ==
  ASSUME ViewIInv, NEW ev, Comes(ev), HandleEvent(ev)
  PROVE  \/ /\ es' = [es EXCEPT !.q = Tail(@)] /\ heard' = heard
            /\ ev.kind \notin Ends
            /\ \/ row' = row /\ ev.kind \in {"verify_restart", "stream_end"}
               \/ row' = CaughtUp(row) /\ ev.kind = "caught_up"
               \/ ev.kind \notin {"caught_up", "stream_end"}
                  /\ \E state \in {"queued", "running", "interrupted"} :
                         row' = [row EXCEPT !.state = state] /\ (state = "interrupted" <=> ev.kind = "interrupted")
         \/ \E state \in {"done", "failed"}, run \in 0..MaxRuns :
                /\ FinishRow(state, run)
                /\ \/ ev.kind \in Ends /\ run = ev.run
                   \/ ev.kind = "stream_end" /\ run = 0 /\ Terminal(ev.state)
  <1>1. ev \in Events \/ ev.kind = "caught_up" \/ (ev.kind = "stream_end" /\ ev.state \in {"done", "failed", "removed"})
    BY DEF Comes, Messages
  <1>2. CASE ev \in Events
    <2>1. ev.kind \in Kinds /\ ev.run \in 0..MaxRuns
      BY <1>2 DEF Events
    <2>2. CASE ev.kind = "queued"
      BY <2>2 DEF HandleEvent, Ends
    <2>3. CASE ev.kind \in {"running", "phase"}
      BY <2>3 DEF HandleEvent, Ends
    <2>4. CASE ev.kind = "interrupted"
      BY <2>4 DEF HandleEvent, Ends
    <2>5. CASE ev.kind = "verify_restart"
      BY <2>5 DEF HandleEvent, Ends
    <2>6. CASE ev.kind \in {"done", "skipped"}
      BY <2>1, <2>6 DEF HandleEvent, Ends
    <2>7. CASE ev.kind = "failed"
      BY <2>1, <2>7 DEF HandleEvent, Ends
    <2> QED BY <2>1, <2>2, <2>3, <2>4, <2>5, <2>6, <2>7 DEF Kinds
  <1>3. CASE ev.kind = "caught_up"
    BY <1>3 DEF HandleEvent, Ends
  <1>4. CASE ev.kind = "stream_end" /\ ev.state \in {"done", "failed", "removed"}
    <2>1. 0 \in 0..MaxRuns
      BY Given
    <2>2. Terminal(ev.state) => ev.state \in {"done", "failed"}
      BY <1>4 DEF Terminal
    <2> QED BY <1>4, <2>1, <2>2 DEF HandleEvent, Ends
  <1> QED BY <1>1, <1>2, <1>3, <1>4

LEMMA EsMessageKeeps == ASSUME ViewIInv, EsMessage PROVE ViewIInv' /\ row'.present = row.present
  <1> USE DEF ViewIInv
  <1>1. es.q # <<>> /\ HandleEvent(Head(es.q)) /\ UNCHANGED <<srv, crowd, ws, asked>>
    BY DEF EsMessage
  <1>2. PICK ev : Comes(ev)
    BY <1>1, EventComes
  <1>3. HandleEvent(ev)
    BY <1>1, <1>2 DEF Comes
  <1>4. ASSUME NEW state \in {"done", "failed"}, NEW run \in 0..MaxRuns, FinishRow(state, run),
               (ev.kind \in Ends /\ run = ev.run) \/ (ev.kind = "stream_end" /\ run = 0)
        PROVE  ViewIInv' /\ row'.present = row.present
    BY <1>1, <1>2, <1>4, FinishKeeps
  <1>5. ASSUME es' = [es EXCEPT !.q = Tail(@)], heard' = heard, row' \in Rows,
               row'.replaying = (row.replaying /\ ev.kind # "caught_up"),
               row'.present = row.present, row'.loaded = row.loaded,
               Begins(ev) => Active(row'.state) \/ row'.state = row.state,
               ~row.replaying => row'.finished \in {FALSE, row.finished} /\ row'.notified \in {FALSE, row.notified},
               row.replaying /\ ~row'.replaying => ~row'.finished /\ ~row'.notified
        PROVE  ViewIInv' /\ row'.present = row.present
    <2>1. es'.st = es.st
      BY <1>2, <1>5, RestIsKnown, <1>1
    <2>2. NotYetOver'
      BY <1>1, <1>2, <1>5, <2>1 DEF NotYetOver, Comes
    <2> QED BY <1>1, <1>2, <1>5, <2>2, GoesOnKeeps
  <1>6. ASSUME NEW state \in {"queued", "running", "interrupted"}, row' = [row EXCEPT !.state = state]
        PROVE  /\ row' \in Rows /\ row'.state = state /\ row'.replaying = row.replaying /\ row'.present = row.present
               /\ row'.loaded = row.loaded /\ row'.finished = row.finished /\ row'.notified = row.notified
    BY <1>6 DEF ViewTypes, Rows, States
  <1>7. ASSUME row' = CaughtUp(row)
        PROVE  /\ row' \in Rows /\ row'.state = row.state /\ ~row'.replaying /\ row'.present = row.present
               /\ row'.loaded = row.loaded /\ ~row'.finished /\ ~row'.notified
               /\ row'.replaying = FALSE /\ row'.finished = FALSE /\ row'.notified = FALSE
    BY <1>7 DEF ViewTypes, Rows, CaughtUp
  <1>8. row.replaying \in BOOLEAN /\ row \in Rows
    BY DEF ViewTypes, Rows
  <1>9. CASE \E state \in {"done", "failed"}, run \in 0..MaxRuns :
                /\ FinishRow(state, run)
                /\ \/ ev.kind \in Ends /\ run = ev.run
                   \/ ev.kind = "stream_end" /\ run = 0 /\ Terminal(ev.state)
    <2>1. PICK state \in {"done", "failed"}, run \in 0..MaxRuns :
              /\ FinishRow(state, run)
              /\ (ev.kind \in Ends /\ run = ev.run) \/ (ev.kind = "stream_end" /\ run = 0)
      BY <1>9
    <2> QED BY <1>4, <2>1
  <1>10. CASE es' = [es EXCEPT !.q = Tail(@)] /\ heard' = heard /\ row' = row /\ ev.kind \in {"verify_restart", "stream_end"}
    BY <1>5, <1>8, <1>10
  <1>11. CASE es' = [es EXCEPT !.q = Tail(@)] /\ heard' = heard /\ row' = CaughtUp(row) /\ ev.kind = "caught_up"
    BY <1>5, <1>7, <1>8, <1>11
  <1>12. CASE /\ es' = [es EXCEPT !.q = Tail(@)] /\ heard' = heard /\ ev.kind \notin {"caught_up", "stream_end"}
              /\ \E state \in {"queued", "running", "interrupted"} :
                     row' = [row EXCEPT !.state = state] /\ (state = "interrupted" <=> ev.kind = "interrupted")
    <2>1. PICK state \in {"queued", "running", "interrupted"} :
              row' = [row EXCEPT !.state = state] /\ (state = "interrupted" <=> ev.kind = "interrupted")
      BY <1>12
    <2>2. Begins(ev) => Active(state)
      BY <2>1 DEF Begins, Active
    <2> QED BY <1>5, <1>6, <1>8, <1>12, <2>1, <2>2
  <1> QED BY <1>2, <1>3, <1>9, <1>10, <1>11, <1>12, HandledIs

-----------------------------------------------------------------------------
(* Every step of the two.                                                  *)

LEMMA ViewStarts == ViewInit => ViewIInv
  <1> SUFFICES ASSUME ViewInit PROVE ViewIInv
    OBVIOUS
  <1>1. /\ srv = [listed |-> FALSE, state |-> "queued", run |-> 0, events |-> <<>>]
        /\ crowd = FALSE /\ ws = NoSocket /\ es = NoStream /\ row = NoRow
        /\ asked = [list |-> TRUE, got |-> <<>>, record |-> Nothing, own |-> Nothing]
        /\ heard = [chimed |-> {}, misled |-> FALSE]
    BY DEF ViewInit, NothingAsked
  <1>2. \A S : <<>> \in Seq(S)
    BY EmptySeq
  <1>3. 0 \in 0..MaxRuns /\ Len(<<>>) = 0
    BY Given
  <1>4. srv \in Reviews /\ ws \in Sockets
    BY <1>1, <1>2, <1>3 DEF Reviews, States, Sockets, NoSocket
  <1>5. es \in Streams /\ row \in Rows /\ asked \in Requests
    BY <1>1, <1>2, <1>3 DEF Streams, NoStream, Rows, NoRow, States, Requests
  <1>6. ViewTypes
    BY <1>1, <1>4, <1>5 DEF ViewTypes
  <1>7. /\ ws.q = <<>> /\ es.q = <<>> /\ es.st = "none" /\ srv.events = <<>> /\ asked.got = <<>>
        /\ ~row.present /\ ~row.loaded /\ ~srv.listed /\ srv.state = "queued" /\ asked.record = Nothing /\ asked.own = Nothing
        /\ Len(es.q) = 0
    BY <1>1, <1>3 DEF NoSocket, NoStream, NoRow
  <1>8. LastIsCurrent /\ NothingYet /\ StreamIsOfRow
    BY <1>7, NoneHeld DEF LastIsCurrent, NothingYet, StreamIsOfRow
  <1>9. RemovedIsOver /\ StreamedOrTold
    BY <1>7, Given DEF RemovedIsOver, StreamedOrTold
  <1>10. EndsArePast /\ FirstRunGoesOn
    BY <1>7, NoneHeld DEF EndsArePast, FirstRunGoesOn
  <1>11. ReplayIsKnown /\ LogIsOfRow /\ NotYetOver
    BY <1>7 DEF ReplayIsKnown, LogIsOfRow, NotYetOver
  <1> QED BY <1>6, <1>8, <1>9, <1>10, <1>11 DEF ViewIInv

LEMMA ViewStutters ==
  ASSUME ViewIInv, UNCHANGED viewVars
  PROVE  ViewIInv'
  <1> USE DEF ViewIInv, viewVars
  <1>1. ViewTypes' /\ LastIsCurrent' /\ NothingYet' /\ StreamIsOfRow' /\ RemovedIsOver' /\ StreamedOrTold'
    BY DEF ViewTypes, LastIsCurrent, NothingYet, StreamIsOfRow, RemovedIsOver, StreamedOrTold
  <1>2. EndsArePast' /\ FirstRunGoesOn' /\ LogIsOfRow' /\ NotYetOver'
    BY DEF EndsArePast, InPast, FirstRunGoesOn, Begins, Gone, LogIsOfRow, NotYetOver
  <1>3. ReplayIsKnown'
    BY StreamKeeps DEF StreamIsOfRow
  <1> QED BY <1>1, <1>2, <1>3

LEMMA ServerKeeps == ASSUME ViewIInv, ServerStep PROVE ViewIInv'
  <1>1. ASSUME NEW by, Submit(by) \/ Resume(by) \/ Delete(by) PROVE ViewIInv'
    BY <1>1, SubmitKeeps, ResumeKeeps, DeleteKeeps
  <1>2. CASE Start \/ Phase \/ End \/ Skip
    BY <1>2, StartKeeps, PhaseKeeps, EndKeeps, SkipKeeps
  <1>3. CASE OthersChange \/ ServerRestarts
    BY <1>3, OthersChangeKeeps, RestartsKeep
  <1> QED BY <1>1, <1>2, <1>3 DEF ServerStep

LEMMA ServerLeaves == ASSUME ServerStep PROVE row' = row /\ heard' = heard
  <1>1. ASSUME NEW by, Submit(by) \/ Resume(by) \/ Delete(by) PROVE row' = row /\ heard' = heard
    BY <1>1 DEF Submit, Resume, Delete
  <1>2. CASE Start \/ Phase \/ End \/ Skip \/ OthersChange \/ ServerRestarts
    BY <1>2 DEF Start, Phase, End, Skip, OthersChange, ServerRestarts
  <1> QED BY <1>1, <1>2 DEF ServerStep

LEMMA ViewStepKeeps == ViewIInv /\ [ViewNext]_viewVars => ViewIInv'
  <1> SUFFICES ASSUME ViewIInv, [ViewNext]_viewVars PROVE ViewIInv'
    OBVIOUS
  <1>1. CASE ServerStep
    BY <1>1, ServerKeeps
  <1>2. CASE ConnectLive \/ WsMessage \/ ListServed \/ RefreshList \/ WsBreaks
    BY <1>2, ConnectLiveKeeps, WsMessageKeeps, ListServedKeeps, RefreshListKeeps, WsBreaksKeeps
  <1>3. CASE RecordServed \/ LoadFinishedLog \/ SelectReview \/ Answered
    BY <1>3, RecordServedKeeps, LoadFinishedLogKeeps, SelectReviewKeeps, AnsweredKeeps
  <1>4. CASE EsConnects \/ EsReconnects \/ EsMessage \/ EsBreaks
    BY <1>4, EsConnectsKeeps, EsReconnectsKeeps, EsMessageKeeps, EsBreaksKeeps
  <1>5. CASE UNCHANGED viewVars
    BY <1>5, ViewStutters
  <1> QED BY <1>1, <1>2, <1>3, <1>4, <1>5 DEF ViewNext, PageStep

\* What the page knows and is owed stays in the order the code assumes.
THEOREM ViewInvariant == ViewSpec => []ViewIInv
  BY ViewStarts, ViewStepKeeps, PTL DEF ViewSpec

\* With nothing on its way, a page that has not let go of an active review streams
\* it: no snapshot, event or answer can be the last one without saying so
\* (applySnapshot, openStream, finish).
THEOREM ActiveReviewsAreStreamed == ViewSpec => []ActiveIsStreamed
  <1>1. ViewIInv => ActiveIsStreamed
    <2> SUFFICES ASSUME ViewIInv PROVE ActiveIsStreamed
      OBVIOUS
    <2> USE DEF ViewIInv
    <2>1. ViewTypeOK
      <3>1. ws.q \in Seq(Snapshots) /\ asked.got \in Seq(Snapshots)
        BY DEF ViewTypes, Sockets, Requests
      <3>2. /\ \A i \in DOMAIN ws.q : ws.q[i] \in Snapshots
            /\ ToSet(asked.got) \subseteq Snapshots
        BY <3>1, HeldBy, LenProperties, ElementOfSeq
      <3> QED BY <3>2 DEF ViewTypes, ViewTypeOK, Reviews, Sockets, Streams, Rows, Requests
    <2>2. ASSUME Settled, srv.listed, Active(srv.state), ~crowd, ~heard.misled PROVE es.st = "open" /\ row.present
      <3>1. ws.st = "open" /\ ws.q = <<>> /\ es.st \notin {"connecting", "ending"}
        BY <2>2 DEF Settled
      <3>2. es.st # "none"
        BY <2>2, <3>1 DEF StreamedOrTold
      <3>3. es.st # "refused"
        BY <2>2 DEF RemovedIsOver
      <3> QED BY <3>1, <3>2, <3>3 DEF ViewTypes, Streams, StreamIsOfRow
    <2> QED BY <2>1, <2>2 DEF ActiveIsStreamed
  <1> QED BY <1>1, ViewInvariant, PTL

\* A row goes only with its review: neither a list cut at the newest nor one from
\* before the submission takes it (applySnapshot, jobsSnapshot).
THEOREM RowsGoWithTheirReviews == ViewSpec => RowGoesWithReview
  <1>1. ViewIInv /\ [ViewNext]_viewVars => [row.present /\ ~row'.present => ~srv.listed]_viewVars
    <2> SUFFICES ASSUME ViewIInv, ViewNext, row.present, ~row'.present PROVE ~srv.listed
      OBVIOUS
    <2> USE DEF ViewIInv
    <2>1. CASE ServerStep
      BY <2>1, ServerLeaves
    <2>2. CASE WsMessage
      <3>1. PICK snapshot : snapshot = Head(ws.q)
        OBVIOUS
      <3>2. snapshot \in ToSet(ws.q)
        BY <2>2, <3>1, HeldByRest DEF WsMessage, ViewTypes, Sockets
      <3>3. Tail(ws.q) \in Seq(Snapshots) /\ ToSet(Tail(ws.q)) \subseteq ToSet(ws.q)
        BY <2>2, HeldByRest DEF WsMessage, ViewTypes, Sockets
      <3>4. Applies(snapshot)
        <4>1. ws' = [ws EXCEPT !.q = Tail(@)] /\ UNCHANGED <<srv, crowd, asked>> /\ ApplySnapshot(snapshot)
          BY <2>2, <3>1 DEF WsMessage
        <4>2. ws' \in Sockets /\ ws'.q = Tail(ws.q)
          BY <3>3, <4>1 DEF ViewTypes, Sockets
        <4> QED BY <3>3, <4>1, <4>2 DEF Applies, ViewTypes
      <3> QED BY <3>2, <3>4, ApplyKeeps
    <2>3. CASE RefreshList
      <3>1. PICK snapshot : snapshot = asked.got[1]
        OBVIOUS
      <3>2. asked.got \in Seq(Snapshots) /\ Len(asked.got) \in Nat \ {0}
        BY <2>3, EmptySeq DEF RefreshList, ViewTypes, Requests
      <3>3. snapshot \in ToSet(asked.got)
        BY <3>1, <3>2, HeldBy
      <3>4. Applies(snapshot)
        <4>1. asked' = [asked EXCEPT !.got = <<>>] /\ UNCHANGED <<srv, crowd, ws>> /\ ApplySnapshot(snapshot)
          BY <2>3, <3>1 DEF RefreshList
        <4>2. asked' \in Requests /\ asked'.got = <<>> /\ asked'.record = asked.record /\ asked'.own = asked.own
          BY <4>1, EmptySeq DEF ViewTypes, Requests
        <4> QED BY <4>1, <4>2, NoneHeld DEF Applies, ViewTypes
      <3> QED BY <3>3, <3>4, ApplyKeeps
    <2>4. CASE ConnectLive \/ ListServed \/ WsBreaks \/ RecordServed \/ EsConnects \/ EsReconnects \/ EsBreaks
      BY <2>4 DEF ConnectLive, ListServed, WsBreaks, RecordServed, EsConnects, EsReconnects, EsBreaks
    <2>5. CASE LoadFinishedLog
      BY <2>5, LoadFinishedLogKeeps
    <2>6. CASE SelectReview
      <3>1. row'.present = row.present
        BY <2>6 DEF SelectReview, ViewTypes, Rows
      <3> QED BY <3>1
    <2>7. CASE Answered
      BY <2>7, AnsweredKeeps
    <2>8. CASE EsMessage
      BY <2>8, EsMessageKeeps
    <2> QED BY <2>1, <2>2, <2>3, <2>4, <2>5, <2>6, <2>7, <2>8 DEF ViewNext, PageStep
  <1> QED BY <1>1, ViewInvariant, PTL DEF ViewSpec, RowGoesWithReview

\* A chime is for the end of a run that was under way when the page opened its
\* stream, told for the first time; and every such end chimes (openStream,
\* caught_up, finish).
THEOREM ChimesAreNews == ViewSpec => ChimeIsNews
  <1> DEFINE News == /\ heard'.chimed # heard.chimed /\ ~es.again =>
                          Head(es.q).run > es.over /\ Head(es.q).run \notin heard.chimed
                     /\ EsMessage /\ Head(es.q).kind \in {"done", "failed"} /\ Head(es.q).run > es.over /\ ~row.loaded =>
                          Head(es.q).run \in heard'.chimed
  <1>1. ASSUME ViewIInv, ViewNext, ~EsMessage PROVE heard'.chimed = heard.chimed
    <2>1. CASE ServerStep
      BY <2>1, ServerLeaves
    <2>2. CASE WsMessage \/ RefreshList \/ Answered
      BY <1>1, <2>2, WsMessageKeeps, RefreshListKeeps, AnsweredKeeps
    <2>3. CASE \/ ConnectLive \/ ListServed \/ WsBreaks \/ RecordServed \/ EsConnects \/ EsReconnects \/ EsBreaks
               \/ LoadFinishedLog \/ SelectReview
      BY <2>3 DEF ConnectLive, ListServed, WsBreaks, RecordServed, EsConnects, EsReconnects, EsBreaks,
                  LoadFinishedLog, SelectReview
    <2> QED BY <1>1, <2>1, <2>2, <2>3 DEF ViewNext, PageStep
  <1>2. ASSUME ViewIInv, EsMessage PROVE News
    <2> USE DEF ViewIInv
    <2>1. es.q # <<>> /\ HandleEvent(Head(es.q))
      BY <1>2 DEF EsMessage
    <2>2. PICK ev : Comes(ev)
      BY <1>2, <2>1, EventComes
    <2>3. ev = Head(es.q) /\ ev = es.q[1] /\ 1 \in 1..Len(es.q) /\ HandleEvent(ev)
      BY <2>1, <2>2 DEF Comes
    <2>4. LiveIn(es.q, row, 1) <=> ~row.replaying
      BY <2>2 DEF Comes, LiveIn
    <2>5. /\ ev.kind \in Ends /\ ev.run > es.over => ~row.replaying
          /\ ~es.again /\ ev.kind \in Ends /\ ~row.replaying => ev.run > es.over
          /\ ~es.again /\ ev.kind = "stream_end" /\ Terminal(ev.state) => row.replaying
      BY <1>2, <2>3, <2>4 DEF ReplayIsKnown
    <2>6. ASSUME heard'.chimed # heard.chimed, ~es.again PROVE ev.run > es.over /\ ev.run \notin heard.chimed
      <3>1. PICK state \in {"done", "failed"}, run \in 0..MaxRuns :
                /\ FinishRow(state, run)
                /\ \/ ev.kind \in Ends /\ run = ev.run
                   \/ ev.kind = "stream_end" /\ run = 0 /\ Terminal(ev.state)
        BY <1>2, <2>2, <2>3, <2>6, HandledIs
      <3>2. ~row.replaying /\ run \notin heard.chimed
        BY <2>6, <3>1 DEF FinishRow
      <3> QED BY <2>5, <2>6, <3>1, <3>2
    <2>7. ASSUME ev.kind \in {"done", "failed"}, ev.run > es.over, ~row.loaded PROVE ev.run \in heard'.chimed
      <3>1. ~row.replaying
        BY <2>5, <2>7 DEF Ends
      <3>2. ~row.finished /\ ~row.notified
        BY <1>2, <2>2, <2>7, <3>1 DEF NotYetOver, Comes
      <3>3. FinishRow("done", ev.run) \/ FinishRow("failed", ev.run)
        BY <2>3, <2>7 DEF HandleEvent
      <3> QED BY <3>1, <3>2, <3>3 DEF FinishRow
    <2> QED BY <2>3, <2>6, <2>7
  <1>3. ViewIInv /\ [ViewNext]_viewVars => [News]_viewVars
    <2> SUFFICES ASSUME ViewIInv, ViewNext PROVE News
      OBVIOUS
    <2>1. CASE EsMessage
      BY <1>2, <2>1
    <2>2. CASE ~EsMessage
      BY <1>1, <2>2
    <2> QED BY <2>1, <2>2
  <1> HIDE DEF News
  <1>4. ViewSpec => [][News]_viewVars
    BY <1>3, ViewInvariant, PTL DEF ViewSpec
  <1> QED BY <1>4 DEF ChimeIsNews, News

=============================================================================

-------------------------- MODULE JobLifecycle_proofs --------------------------
(***************************************************************************)
(* What the list shows and what the queue does, for any number of reviews, *)
(* of resumes under way and of copies, and any limits.                     *)
(***************************************************************************)
EXTENDS JobLifecycle, FiniteSetTheorems, SequenceTheorems, TLAPS

\* A queue s and r runners have work for j; they have it once at most.
WaitsIn(s, j) == \E i \in 1..Len(s) : s[i] = j

HeldIn(s, r, j) == WaitsIn(s, j) \/ r > 0

OnceIn(s, r, j) ==
    /\ r <= 1
    /\ \A a, b \in 1..Len(s) : s[a] = j /\ s[b] = j => a = b
    /\ WaitsIn(s, j) => r = 0

-----------------------------------------------------------------------------
(* The queue as a sequence.                                                *)

Count(s, k, j) == Cardinality({i \in 1..k : s[i] = j})

LEMMA CountIn ==
  ASSUME NEW s, NEW j, NEW k \in Nat
  PROVE  /\ Count(s, k, j) \in Nat
         /\ Count(s, k, j) > 0 <=> \E i \in 1..k : s[i] = j
         /\ \A a \in 1..k : s[a] = j /\ (\A b \in 1..k : s[b] = j => a = b)
                => Count(s, k, j) = 1
  <1> DEFINE C == {i \in 1..k : s[i] = j}
  <1>1. IsFiniteSet(C)
    <2>1. IsFiniteSet(1..k)
      BY FS_Interval
    <2> QED BY <2>1, FS_Subset
  <1>2. Cardinality(C) \in Nat /\ (Cardinality(C) = 0 <=> C = {})
    BY <1>1, FS_CardinalityType, FS_EmptySet
  <1>3. ASSUME NEW a \in 1..k, s[a] = j, \A b \in 1..k : s[b] = j => a = b
        PROVE  Cardinality(C) = 1
    <2>1. C = {a}
      BY <1>3
    <2> QED BY <2>1, FS_Singleton
  <1>4. C = {} <=> ~ \E i \in 1..k : s[i] = j
    OBVIOUS
  <1> HIDE DEF C
  <1>5. /\ Cardinality(C) \in Nat /\ (Cardinality(C) > 0 <=> \E i \in 1..k : s[i] = j)
        /\ \A a \in 1..k : s[a] = j /\ (\A b \in 1..k : s[b] = j => a = b)
                => Cardinality(C) = 1
    BY <1>2, <1>3, <1>4
  <1> QED BY <1>5 DEF C, Count

LEMMA TailOf ==
  ASSUME NEW S, NEW s \in Seq(S), NEW k \in 0..Len(s)
  PROVE  LET t == SubSeq(s, k + 1, Len(s)) IN
         /\ t \in Seq(S) /\ Len(t) = Len(s) - k
         /\ \A i \in 1..Len(t) : t[i] = s[i + k]
  <1>1. CASE k = Len(s)
    <2>1. SubSeq(s, k + 1, Len(s)) = <<>>
      BY <1>1, SubSeqEmpty
    <2> QED BY <1>1, <2>1
  <1>2. CASE k < Len(s)
    BY <1>2, SubSeqProperties
  <1> QED BY <1>1, <1>2

\* Starting the first k of a queue neither loses nor doubles a review.
LEMMA DrainOnce ==
  ASSUME NEW S, NEW s \in Seq(S), NEW k \in 0..Len(s), NEW j, NEW r \in Nat
  PROVE  LET t == SubSeq(s, k + 1, Len(s))
             n == r + Count(s, k, j)
         IN  /\ n \in Nat /\ n >= r
             /\ HeldIn(t, n, j) <=> HeldIn(s, r, j)
             /\ OnceIn(s, r, j) => OnceIn(t, n, j)
  <1> DEFINE t == SubSeq(s, k + 1, Len(s))
             c == Count(s, k, j)
  <1>1. Len(s) \in Nat /\ k \in Nat /\ k <= Len(s)
    BY LenProperties
  <1>2. Len(t) = Len(s) - k /\ \A i \in 1..Len(t) : t[i] = s[i + k]
    BY TailOf
  <1>3. /\ c \in Nat
        /\ c > 0 <=> \E i \in 1..k : s[i] = j
        /\ \A a \in 1..k : s[a] = j /\ (\A b \in 1..k : s[b] = j => a = b) => c = 1
    BY <1>1, CountIn
  <1> HIDE DEF t, c
  <1>4. WaitsIn(s, j) <=> WaitsIn(t, j) \/ c > 0
    <2>1. ASSUME NEW i \in 1..Len(s), s[i] = j, i > k PROVE WaitsIn(t, j)
      <3>1. i - k \in 1..Len(t) /\ (i - k) + k = i
        BY <1>1, <1>2, <2>1
      <3>2. t[i - k] = j
        BY <1>2, <2>1, <3>1
      <3> QED BY <3>1, <3>2 DEF WaitsIn
    <2>2. ASSUME NEW i \in 1..Len(t), t[i] = j PROVE WaitsIn(s, j)
      <3>1. i + k \in 1..Len(s)
        <4>1. i \in Int /\ 1 <= i /\ i <= Len(s) - k
          BY <1>1, <1>2
        <4> QED BY <1>1, <4>1
      <3>2. s[i + k] = j
        BY <1>2, <2>2
      <3> QED BY <3>1, <3>2 DEF WaitsIn
    <2>3. ASSUME NEW i \in 1..k, s[i] = j PROVE WaitsIn(s, j)
      BY <1>1, <2>3 DEF WaitsIn
    <2> QED BY <1>1, <1>3, <2>1, <2>2, <2>3 DEF WaitsIn
  <1>5. ASSUME OnceIn(s, r, j) PROVE OnceIn(t, r + c, j)
    <2>1. r <= 1 /\ (WaitsIn(s, j) => r = 0)
          /\ \A a, b \in 1..Len(s) : s[a] = j /\ s[b] = j => a = b
      BY <1>5 DEF OnceIn
    <2>2. \A a, b \in 1..Len(t) : t[a] = j /\ t[b] = j => a = b
      <3> SUFFICES ASSUME NEW a \in 1..Len(t), NEW b \in 1..Len(t), t[a] = j, t[b] = j
                   PROVE  a = b
        OBVIOUS
      <3>1. a + k \in 1..Len(s) /\ b + k \in 1..Len(s) /\ s[a + k] = j /\ s[b + k] = j
        BY <1>1, <1>2
      <3>2. a + k = b + k
        BY <2>1, <3>1
      <3> QED BY <1>1, <1>2, <3>2
    <2>3. CASE \E a \in 1..k : s[a] = j
      <3>1. PICK a \in 1..k : s[a] = j
        BY <2>3
      <3>2. \A b \in 1..k : s[b] = j => a = b
        BY <1>1, <2>1, <3>1
      <3>3. c = 1 /\ r = 0
        BY <1>3, <1>4, <2>1, <3>1, <3>2
      <3>4. ASSUME NEW b \in 1..Len(t), t[b] = j PROVE FALSE
        <4>1. b + k \in 1..Len(s) /\ s[b + k] = j /\ a \in 1..Len(s) /\ a # b + k
          BY <1>1, <1>2, <3>4
        <4> QED BY <2>1, <3>1, <4>1
      <3> QED BY <2>2, <3>3, <3>4 DEF OnceIn, WaitsIn
    <2>4. CASE ~ \E a \in 1..k : s[a] = j
      <3>1. c = 0
        BY <1>3, <2>4
      <3> QED BY <1>4, <2>1, <2>2, <3>1 DEF OnceIn
    <2> QED BY <2>3, <2>4
  <1>6. r + c \in Nat /\ r + c >= r /\ (HeldIn(t, r + c, j) <=> HeldIn(s, r, j))
    BY <1>3, <1>4 DEF HeldIn
  <1> QED BY <1>5, <1>6 DEF t, c

\* A review put at the end of the queue.
LEMMA EnqueueOnce ==
  ASSUME NEW S, NEW s \in Seq(S), NEW e \in S, NEW j, NEW r \in Nat
  PROVE  LET t == Append(s, e) IN
         /\ t \in Seq(S) /\ WaitsIn(t, e)
         /\ HeldIn(s, r, j) => HeldIn(t, r, j)
         /\ j # e => /\ HeldIn(t, r, j) => HeldIn(s, r, j)
                     /\ OnceIn(s, r, j) => OnceIn(t, r, j)
         /\ ~HeldIn(s, r, e) => OnceIn(t, r, e)
  <1> DEFINE t == Append(s, e)
  <1>1. /\ Len(s) \in Nat /\ t \in Seq(S) /\ Len(t) = Len(s) + 1
        /\ \A i \in 1..Len(s) : t[i] = s[i]
        /\ t[Len(s) + 1] = e
    BY LenProperties, AppendProperties
  <1> HIDE DEF t
  <1>2. WaitsIn(t, e)
    <2>1. Len(s) + 1 \in 1..Len(t)
      BY <1>1
    <2> QED BY <1>1, <2>1 DEF WaitsIn
  <1>3. WaitsIn(s, j) => WaitsIn(t, j)
    BY <1>1 DEF WaitsIn
  <1>4. ASSUME j # e PROVE /\ WaitsIn(t, j) => WaitsIn(s, j)
                           /\ OnceIn(s, r, j) => OnceIn(t, r, j)
    <2>1. \A i \in 1..Len(t) : t[i] = j => i \in 1..Len(s) /\ s[i] = j
      BY <1>1, <1>4
    <2> QED BY <1>1, <2>1 DEF WaitsIn, OnceIn
  <1>5. ASSUME ~HeldIn(s, r, e) PROVE OnceIn(t, r, e)
    <2>1. \A i \in 1..Len(t) : t[i] = e => i = Len(t)
      BY <1>1, <1>5 DEF HeldIn, WaitsIn
    <2>2. r = 0
      BY <1>5 DEF HeldIn
    <2> QED BY <1>1, <2>1, <2>2 DEF OnceIn
  <1> QED BY <1>1, <1>2, <1>3, <1>4, <1>5 DEF HeldIn, t

-----------------------------------------------------------------------------
(* The queue's steps, seen from a job.                                     *)

Had(j) == HeldIn(pending, runs[j], j)

Once(j) == OnceIn(pending, runs[j], j)

\* A row that shows a review as active has it in the queue ...
ShownIsHad == \A j \in known : IsJobActive(j) => Had(j)

\* ... and without a stale check, what the queue has it has once, for a row that
\* shows it.
HadIsShown ==
    \A j \in Jobs \ raced : Once(j) /\ (Had(j) => j \in known /\ IsJobActive(j))

IInv == TypeOK /\ ShownIsHad /\ HadIsShown

LEMMA HeldIsHad == \A j \in Jobs : Q!Held(j) <=> Had(j)
  BY DEF Q!Held, Q!InPending, Had, HeldIn, WaitsIn

LEMMA EnqueueStep ==
  ASSUME TypeOK, NEW e \in Jobs, Q!Enqueue(e)
  PROVE  /\ Q!QueueTypeOK' /\ Had(e)' /\ (~Had(e) => Once(e)')
         /\ \A j \in Jobs : Had(j) => Had(j)'
         /\ \A j \in Jobs \ {e} : (Had(j)' => Had(j)) /\ (Once(j) => Once(j)')
  <1>1. /\ pending \in Seq(Jobs) /\ runs \in [Jobs -> Nat]
        /\ pending' = Append(pending, e) /\ runs' = runs
    BY DEF TypeOK, Q!QueueTypeOK, Q!Enqueue
  <1>2. pending' \in Seq(Jobs) /\ WaitsIn(pending', e)
    BY <1>1, EnqueueOnce
  <1>3. ~HeldIn(pending, runs[e], e) => OnceIn(pending', runs[e], e)
    BY <1>1, EnqueueOnce
  <1>4. ASSUME NEW j \in Jobs
        PROVE  /\ HeldIn(pending, runs[j], j) => HeldIn(pending', runs[j], j)
               /\ j # e => /\ HeldIn(pending', runs[j], j) => HeldIn(pending, runs[j], j)
                           /\ OnceIn(pending, runs[j], j) => OnceIn(pending', runs[j], j)
    BY <1>1, EnqueueOnce
  <1>5. Q!QueueTypeOK'
    BY <1>1, <1>2 DEF TypeOK, Q!QueueTypeOK, Q!Enqueue
  <1> QED BY <1>1, <1>2, <1>3, <1>4, <1>5 DEF Had, Once, HeldIn

LEMMA SameCardinality == \A S : Q!Cardinality(S) = Cardinality(S)
  BY DEF Q!Cardinality, Cardinality

LEMMA DrainStep ==
  ASSUME TypeOK, Q!Drain
  PROVE  /\ Q!QueueTypeOK'
         /\ \A j \in Jobs : /\ runs'[j] \in Nat /\ runs'[j] >= runs[j]
                            /\ Had(j)' <=> Had(j)
                            /\ Once(j) => Once(j)'
  <1>1. PICK k \in 0 .. Len(pending) :
          /\ Q!FillsSlots(k)
          /\ active' = Q!ActiveAfter(k)
          /\ pending' = SubSeq(pending, k + 1, Len(pending))
          /\ runs' = [j \in Jobs |-> runs[j] + Cardinality({i \in 1..k : pending[i] = j})]
    BY SameCardinality DEF Q!Drain
  <1>2. pending \in Seq(Jobs) /\ runs \in [Jobs -> Nat] /\ Len(pending) \in Nat
    BY LenProperties DEF TypeOK, Q!QueueTypeOK
  <1>3. \A j \in Jobs : runs'[j] = runs[j] + Count(pending, k, j)
    BY <1>1 DEF Count
  <1>4. \A j \in Jobs : /\ runs'[j] \in Nat /\ runs'[j] >= runs[j]
                        /\ Had(j)' <=> Had(j)
                        /\ Once(j) => Once(j)'
    <2> SUFFICES ASSUME NEW j \in Jobs
                 PROVE  /\ runs'[j] \in Nat /\ runs'[j] >= runs[j]
                        /\ Had(j)' <=> Had(j)
                        /\ Once(j) => Once(j)'
      OBVIOUS
    <2>1. runs[j] \in Nat /\ runs'[j] = runs[j] + Count(pending, k, j)
      BY <1>2, <1>3
    <2>2. /\ runs[j] + Count(pending, k, j) \in Nat /\ runs[j] + Count(pending, k, j) >= runs[j]
          /\ HeldIn(pending', runs[j] + Count(pending, k, j), j) <=> HeldIn(pending, runs[j], j)
          /\ OnceIn(pending, runs[j], j) => OnceIn(pending', runs[j] + Count(pending, k, j), j)
      BY <1>1, <1>2, <2>1, DrainOnce
    <2> QED BY <2>1, <2>2 DEF Had, Once
  <1>5. Q!QueueTypeOK'
    <2>1. pending' \in Seq(Jobs)
      BY <1>1, <1>2, TailOf
    <2>2. runs' \in [Jobs -> Nat]
      BY <1>1, <1>4
    <2>3. active' \subseteq Jobs
      <3>1. \A i \in 1..k : pending[i] \in Jobs
        BY <1>2, ElementOfSeq
      <3> QED BY <1>1, <3>1 DEF Q!ActiveAfter, TypeOK, Q!QueueTypeOK
    <2> QED BY <2>1, <2>2, <2>3 DEF Q!Drain, TypeOK, Q!QueueTypeOK
  <1> QED BY <1>4, <1>5

LEMMA SettleStep ==
  ASSUME TypeOK, NEW s \in Jobs, Q!Settle(s)
  PROVE  /\ Q!QueueTypeOK' /\ Had(s) /\ (Once(s) => Once(s)' /\ ~Had(s)')
         /\ \A j \in Jobs \ {s} : (Had(j)' <=> Had(j)) /\ (Once(j) => Once(j)')
  <1>1. /\ runs \in [Jobs -> Nat] /\ runs[s] > 0 /\ pending' = pending
        /\ runs' = [runs EXCEPT ![s] = runs[s] - 1]
    BY DEF TypeOK, Q!QueueTypeOK, Q!Settle
  <1>2. runs'[s] = runs[s] - 1 /\ \A j \in Jobs \ {s} : runs'[j] = runs[j]
    BY <1>1
  <1>3. Q!QueueTypeOK'
    BY <1>1 DEF TypeOK, Q!QueueTypeOK, Q!Settle
  <1>4. Had(s) /\ (Once(s) => Once(s)' /\ ~Had(s)')
    BY <1>1, <1>2 DEF Had, Once, HeldIn, OnceIn
  <1>5. \A j \in Jobs \ {s} : (Had(j)' <=> Had(j)) /\ (Once(j) => Once(j)')
    BY <1>1, <1>2 DEF Had, Once
  <1> QED BY <1>3, <1>4, <1>5

LEMMA QueueStays ==
  ASSUME TypeOK, \/ UNCHANGED queueVars \/ \E n \in Limits : Q!SetConcurrency(n)
  PROVE  /\ Q!QueueTypeOK'
         /\ \A j \in Jobs : (Had(j)' <=> Had(j)) /\ (Once(j) => Once(j)')
  <1>1. pending' = pending /\ runs' = runs
    BY DEF queueVars, Q!SetConcurrency
  <1>2. Q!QueueTypeOK'
    BY DEF queueVars, Q!SetConcurrency, TypeOK, Q!QueueTypeOK
  <1> QED BY <1>1, <1>2 DEF Had, Once

-----------------------------------------------------------------------------
(* The handlers.                                                           *)

\* A step of a handler or listener on top of one of the queue: what the queue has
\* changes for job e only, and so does the row.
LEMMA SubmitStep == ASSUME IInv, NEW e \in Jobs, Submit(e) PROVE IInv'
  <1> USE DEF IInv
  <1>1. /\ ~Had(e) /\ known' = known \cup {e} /\ raced' = raced \ {e}
        /\ state' = [state EXCEPT ![e] = "queued"] /\ session' = session \ {e}
        /\ asking' = asking /\ Q!Enqueue(e)
    BY HeldIsHad DEF Submit
  <1>2. /\ Q!QueueTypeOK' /\ Had(e)' /\ Once(e)'
        /\ \A j \in Jobs : Had(j) => Had(j)'
        /\ \A j \in Jobs \ {e} : (Had(j)' => Had(j)) /\ (Once(j) => Once(j)')
    BY <1>1, EnqueueStep
  <1>3. TypeOK'
    BY <1>1, <1>2 DEF TypeOK, States
  <1>4. /\ state'[e] = "queued" /\ \A j \in Jobs \ {e} : state'[j] = state[j]
        /\ known \subseteq Jobs
    BY <1>1 DEF TypeOK
  <1>5. ShownIsHad'
    BY <1>1, <1>2, <1>4 DEF ShownIsHad, IsJobActive
  <1>6. HadIsShown'
    BY <1>1, <1>2, <1>4 DEF HadIsShown, IsJobActive
  <1> QED BY <1>3, <1>5, <1>6

LEMMA CommitStep == ASSUME IInv, NEW h \in Handlers, ResumeCommit(h) PROVE IInv'
  <1> USE DEF IInv
  <1>1. PICK e \in Jobs : e = asking[h]
    BY DEF ResumeCommit, TypeOK
  <1>2. /\ state' = [state EXCEPT ![e] = "queued"]
        /\ raced' = (IF e \notin known \/ IsJobActive(e) THEN raced \cup {e} ELSE raced)
        /\ Q!Enqueue(e) /\ asking' = [asking EXCEPT ![h] = NoJob]
        /\ UNCHANGED <<known, session>>
    BY <1>1 DEF ResumeCommit
  <1>3. /\ Q!QueueTypeOK' /\ Had(e)' /\ (~Had(e) => Once(e)')
        /\ \A j \in Jobs : Had(j) => Had(j)'
        /\ \A j \in Jobs \ {e} : (Had(j)' => Had(j)) /\ (Once(j) => Once(j)')
    BY <1>2, EnqueueStep
  <1>4. TypeOK'
    BY <1>2, <1>3 DEF TypeOK, States
  <1>5. /\ state'[e] = "queued" /\ \A j \in Jobs \ {e} : state'[j] = state[j]
        /\ known \subseteq Jobs
    BY <1>2 DEF TypeOK
  <1>6. ShownIsHad'
    BY <1>2, <1>3, <1>5 DEF ShownIsHad, IsJobActive
  <1>7. raced \subseteq raced' /\ (e \notin raced' => e \in known /\ ~IsJobActive(e))
    BY <1>2
  <1>8. e \notin raced' => ~Had(e)
    BY <1>7 DEF HadIsShown
  <1>9. HadIsShown'
    BY <1>2, <1>3, <1>5, <1>7, <1>8 DEF HadIsShown, IsJobActive
  <1> QED BY <1>4, <1>6, <1>9

LEMMA DrainListenerStep == ASSUME IInv, Drain PROVE IInv'
  <1> USE DEF IInv
  <1>1. /\ Q!Drain /\ UNCHANGED <<known, session, asking, raced>>
        /\ state' = [j \in Jobs |-> IF j \in known /\ runs'[j] > runs[j]
                                   THEN "running" ELSE state[j]]
    BY DEF Drain
  <1>2. /\ Q!QueueTypeOK'
        /\ \A j \in Jobs : /\ runs'[j] \in Nat /\ (Had(j)' <=> Had(j))
                           /\ Once(j) => Once(j)'
    BY <1>1, DrainStep
  <1>3. state' \in [Jobs -> States]
    BY <1>1 DEF TypeOK, States
  <1>4. TypeOK'
    BY <1>1, <1>2, <1>3 DEF TypeOK
  <1>5. \A j \in Jobs : state'[j] = "running" \/ state'[j] = state[j]
    BY <1>1
  <1>6. \A j \in Jobs : IsJobActive(j) => IsJobActive(j)'
    BY <1>5 DEF IsJobActive
  <1>7. \A j \in Jobs : j \in known /\ runs'[j] > runs[j] => Had(j)'
    <2> SUFFICES ASSUME NEW j \in Jobs, runs'[j] > runs[j] PROVE Had(j)'
      OBVIOUS
    <2>1. runs[j] \in Nat /\ runs'[j] \in Nat
      BY <1>2 DEF TypeOK, Q!QueueTypeOK
    <2> QED BY <2>1 DEF Had, HeldIn
  <1>8. \A j \in Jobs : \/ j \in known /\ runs'[j] > runs[j]
                       \/ state'[j] = state[j]
    BY <1>1
  <1>9. ShownIsHad'
    BY <1>1, <1>2, <1>7, <1>8 DEF ShownIsHad, IsJobActive, TypeOK
  <1>10. HadIsShown'
    BY <1>1, <1>2, <1>6 DEF HadIsShown
  <1> QED BY <1>4, <1>9, <1>10

LEMMA SettlesStep == ASSUME IInv, NEW e \in Jobs, RunnerStep(e) PROVE IInv'
  <1> USE DEF IInv
  <1>1. PICK result \in {"done", "failed"}, summary \in BOOLEAN : RunnerSettles(e, result, summary)
    BY DEF RunnerStep
  <1>2. /\ Q!Settle(e) /\ UNCHANGED <<known, asking, raced>>
        /\ state' = IF e \in known THEN [state EXCEPT ![e] = result] ELSE state
        /\ session' = session \/ session' = session \cup {e}
    BY <1>1 DEF RunnerSettles
  <1>3. /\ Q!QueueTypeOK' /\ Had(e) /\ (Once(e) => Once(e)' /\ ~Had(e)')
        /\ \A j \in Jobs \ {e} : (Had(j)' <=> Had(j)) /\ (Once(j) => Once(j)')
    BY <1>2, SettleStep
  <1>4. state' \in [Jobs -> States]
    BY <1>2 DEF TypeOK, States
  <1>5. TypeOK'
    BY <1>2, <1>3, <1>4 DEF TypeOK
  <1>6. /\ \A j \in Jobs \ {e} : state'[j] = state[j]
        /\ e \in known => state'[e] \in {"done", "failed"}
    BY <1>2 DEF TypeOK
  <1>7. ShownIsHad'
    BY <1>2, <1>3, <1>6 DEF ShownIsHad, IsJobActive, TypeOK
  <1>8. HadIsShown'
    BY <1>2, <1>3, <1>6 DEF HadIsShown, IsJobActive
  <1> QED BY <1>5, <1>7, <1>8

LEMMA InvInit == ASSUME Init PROVE IInv
  <1>1. TypeOK
    <2>1. pending \in Seq(Jobs)
      BY EmptySeq DEF Init, Q!QueueInit
    <2> QED BY <2>1, InitialLimitAssumption DEF Init, Q!QueueInit, TypeOK, Q!QueueTypeOK, States
  <1>2. \A j \in Jobs : Once(j) /\ ~Had(j)
    BY DEF Init, Q!QueueInit, Once, Had, OnceIn, HeldIn, WaitsIn
  <1> QED BY <1>1, <1>2 DEF Init, IInv, ShownIsHad, HadIsShown

LEMMA InvStep == ASSUME IInv, [Next]_vars PROVE IInv'
  <1>1. ASSUME NEW h \in Handlers, NEW j \in Jobs, ResumeAsk(h, j) PROVE IInv'
    BY <1>1, QueueStays DEF ResumeAsk, IInv, ShownIsHad, HadIsShown, IsJobActive, TypeOK
  <1>2. ASSUME NEW h \in Handlers, ResumeRefused(h) PROVE IInv'
    BY <1>2, QueueStays DEF ResumeRefused, IInv, ShownIsHad, HadIsShown, IsJobActive, TypeOK
  <1>3. ASSUME NEW e \in Jobs, Delete(e) PROVE IInv'
    <2>1. /\ e \in known /\ ~IsJobActive(e) /\ known' = known \ {e}
          /\ UNCHANGED <<state, session, asking, raced, queueVars>>
      BY <1>3 DEF Delete
    <2>2. /\ Q!QueueTypeOK'
          /\ \A j \in Jobs : (Had(j)' <=> Had(j)) /\ (Once(j) => Once(j)')
      BY <2>1, QueueStays DEF IInv
    <2> QED BY <2>1, <2>2 DEF IInv, ShownIsHad, HadIsShown, IsJobActive, TypeOK
  <1>4. ASSUME NEW n \in Limits, SetConcurrency(n) PROVE IInv'
    <2>1. Q!SetConcurrency(n) /\ UNCHANGED <<known, state, session, asking, raced>>
      BY <1>4 DEF SetConcurrency, jobVars
    <2>2. /\ Q!QueueTypeOK'
          /\ \A j \in Jobs : (Had(j)' <=> Had(j)) /\ (Once(j) => Once(j)')
      BY <2>1, QueueStays DEF IInv
    <2> QED BY <2>1, <2>2 DEF IInv, ShownIsHad, HadIsShown, IsJobActive, TypeOK
  <1>5. CASE UNCHANGED vars
    <2>1. UNCHANGED queueVars /\ UNCHANGED <<known, state, session, asking, raced>>
      BY <1>5 DEF vars, queueVars
    <2>2. /\ Q!QueueTypeOK'
          /\ \A j \in Jobs : (Had(j)' <=> Had(j)) /\ (Once(j) => Once(j)')
      BY <2>1, QueueStays DEF IInv
    <2> QED BY <2>1, <2>2 DEF IInv, ShownIsHad, HadIsShown, IsJobActive, TypeOK
  <1> QED BY <1>1, <1>2, <1>3, <1>4, <1>5, SubmitStep, CommitStep, DrainListenerStep, SettlesStep
          DEF Next

LEMMA InvAlways == Spec => []IInv
  BY InvInit, InvStep, PTL DEF Spec

\* A row shown as queued or running is in the queue's hands, however resumes race
\* (enqueueReview, resumeReviewJob, the queue's "state" listener).
THEOREM ActiveRowsAreHeld == Spec => []ActiveIsHeld
  <1>1. IInv => ActiveIsHeld
    BY HeldIsHad DEF IInv, ShownIsHad, ActiveIsHeld, TypeOK
  <1> QED BY <1>1, InvAlways, PTL

\* The check resumeReviewJob makes before its awaits is the only way to lose or
\* double a review: a job it was not stale for is held once, by a row that shows it.
THEOREM OnlyRacesDouble == Spec => []HeldOnceUnlessRaced
  <1>1. IInv => HeldOnceUnlessRaced
    <2> SUFFICES ASSUME IInv, NEW j \in Jobs \ raced, Had(j)
                 PROVE  j \in known /\ IsJobActive(j) /\ Q!Copies(j) = 1
      BY HeldIsHad DEF HeldOnceUnlessRaced
    <2>1. j \in known /\ IsJobActive(j) /\ Once(j) /\ runs[j] \in Nat
      BY DEF IInv, HadIsShown, TypeOK, Q!QueueTypeOK
    <2>2. Len(pending) \in Nat
      BY LenProperties DEF IInv, TypeOK, Q!QueueTypeOK
    <2>3. Q!Copies(j) = Count(pending, Len(pending), j) + runs[j]
      BY SameCardinality DEF Q!Copies, Count
    <2>4. Count(pending, Len(pending), j) + runs[j] = 1
      <3>1. CASE WaitsIn(pending, j)
        <4>1. PICK a \in 1..Len(pending) : pending[a] = j
          BY <3>1 DEF WaitsIn
        <4>2. \A b \in 1..Len(pending) : pending[b] = j => a = b
          BY <2>1, <4>1 DEF Once, OnceIn
        <4>3. Count(pending, Len(pending), j) = 1 /\ runs[j] = 0
          BY <2>1, <2>2, <3>1, <4>1, <4>2, CountIn DEF Once, OnceIn
        <4> QED BY <4>3
      <3>2. CASE ~WaitsIn(pending, j)
        <4>1. Count(pending, Len(pending), j) = 0
          BY <2>2, <3>2, CountIn DEF WaitsIn
        <4>2. runs[j] = 1
          BY <2>1, <3>2 DEF Had, HeldIn, Once, OnceIn
        <4> QED BY <4>1, <4>2
      <3> QED BY <3>1, <3>2
    <2> QED BY <2>1, <2>3, <2>4
  <1> QED BY <1>1, InvAlways, PTL
================================================================================

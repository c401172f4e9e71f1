---------------------------- MODULE ReviewQueue ----------------------------
(***************************************************************************)
(* The in-memory review queue of lib/queue.js.                             *)
(*                                                                         *)
(* Node runs one callback at a time, so every action below is one callback *)
(* run to completion: a call of enqueue or setConcurrency, a setImmediate  *)
(* callback that runs _drain, or the continuation of _runJob after the     *)
(* runner's promise has settled.  What interleaves is the order of those   *)
(* callbacks.                                                              *)
(*                                                                         *)
(* `active` is the code's Map, which is keyed by job id.  `runs` counts    *)
(* the _runJob calls whose runner has not settled, which the code itself   *)
(* does not keep: two entries of one job are one key of the Map and two    *)
(* runners.                                                                *)
(***************************************************************************)
EXTENDS Integers, Sequences, FiniteSets

CONSTANTS
    Jobs,          \* the job objects callers may enqueue
    Limits,        \* the values the settings may give `concurrency`
    InitialLimit,  \* the value it has when the queue is constructed
    MaxCopies,     \* bound on the copies of one job the queue may hold at once
    Unchecked      \* jobs some caller enqueues without looking whether they are held

ASSUME LimitsAssumption ==
    /\ Limits \subseteq Nat \ {0}
    /\ InitialLimit \in Limits

ASSUME MaxCopiesAssumption == MaxCopies \in Nat \ {0}

ASSUME UncheckedAssumption == Unchecked \subseteq Jobs

VARIABLES
    pending,      \* FIFO of jobs that wait for a slot
    active,       \* keys of the Map of running jobs
    concurrency,  \* the limit _drain compares active.size with
    drainDue,     \* a setImmediate callback that will run _drain exists
    runs          \* runs[j]: unsettled runners of job j

queueVars == <<pending, active, concurrency, drainDue, runs>>

QueueTypeOK ==
    /\ pending \in Seq(Jobs)
    /\ active \in SUBSET Jobs
    /\ concurrency \in Limits
    /\ drainDue \in BOOLEAN
    /\ runs \in [Jobs -> Nat]

-----------------------------------------------------------------------------
InPending(j) == \E i \in 1..Len(pending) : pending[i] = j

\* The queue still has something to do for j.
Held(j) == InPending(j) \/ runs[j] > 0

Running == {j \in Jobs : runs[j] > 0}

\* active.size once the first k pending entries have been started.
ActiveAfter(k) == active \cup {pending[i] : i \in 1..k}

\* Defect: `<=` for `<`.
HasFreeSlot_OffByOne(k) == Cardinality(ActiveAfter(k)) <= concurrency

HasFreeSlot(k) == Cardinality(ActiveAfter(k)) < concurrency

\* The while loop of _drain stops after k iterations: every iteration before
\* the k-th found a free slot, and the next one finds none or nothing to start.
FillsSlots(k) ==
    /\ \A i \in 0..(k - 1) : HasFreeSlot(i)
    /\ k = Len(pending) \/ ~HasFreeSlot(k)

-----------------------------------------------------------------------------
QueueInit ==
    /\ pending = <<>>
    /\ active = {}
    /\ concurrency = InitialLimit
    /\ drainDue = FALSE
    /\ runs = [j \in Jobs |-> 0]

Copies(j) == Cardinality({i \in 1..Len(pending) : pending[i] = j}) + runs[j]

\* Defect: unshift instead of push.
Enqueue_Unshift(j) ==
    /\ Copies(j) < MaxCopies
    /\ pending' = <<j>> \o pending
    /\ drainDue' = TRUE
    /\ UNCHANGED <<active, concurrency, runs>>

\* The code looks at nothing before it pushes; the guard is the bound.
Enqueue(j) ==
    /\ Copies(j) < MaxCopies
    /\ pending' = Append(pending, j)
    /\ drainDue' = TRUE
    /\ UNCHANGED <<active, concurrency, runs>>

\* Running reviews are not stopped when the limit is lowered.
SetConcurrency(n) ==
    /\ concurrency' = n
    /\ drainDue' = TRUE
    /\ UNCHANGED <<pending, active, runs>>

\* A later callback of the same kind finds nothing left to do unless something
\* changed, and every change schedules a callback of its own, so one flag
\* stands for all callbacks that are due.
Drain ==
    /\ drainDue
    /\ \E k \in 0..Len(pending) :
          /\ FillsSlots(k)
          /\ active' = ActiveAfter(k)
          /\ pending' = SubSeq(pending, k + 1, Len(pending))
          /\ runs' = [j \in Jobs |->
                        runs[j] + Cardinality({i \in 1..k : pending[i] = j})]
    /\ drainDue' = FALSE
    /\ UNCHANGED concurrency

\* Defects: the finally block forgets the new drain, or the Map entry.
Settle_NoDrain(j) ==
    /\ runs[j] > 0
    /\ runs' = [runs EXCEPT ![j] = @ - 1]
    /\ active' = active \ {j}
    /\ UNCHANGED <<pending, concurrency, drainDue>>

Settle_KeepsSlot(j) ==
    /\ runs[j] > 0
    /\ runs' = [runs EXCEPT ![j] = @ - 1]
    /\ drainDue' = TRUE
    /\ UNCHANGED <<pending, concurrency, active>>

\* One runner of j has returned or thrown; the finally block is the same.
Settle(j) ==
    /\ runs[j] > 0
    /\ runs' = [runs EXCEPT ![j] = @ - 1]
    /\ active' = active \ {j}
    /\ drainDue' = TRUE
    /\ UNCHANGED <<pending, concurrency>>

QueueSteps ==
    \/ Drain
    \/ \E n \in Limits : SetConcurrency(n)
    \/ \E j \in Jobs : Settle(j)

-----------------------------------------------------------------------------
(* The queue and its callers.  The ALREADY_RUNNING check of server.js is   *)
(* there to enqueue a job only while the queue does not hold it; callers   *)
(* of the jobs in Unchecked do not look, or what they saw has changed.     *)

\* Defect: nobody looks.
Call_Unchecked(j) == Enqueue(j)

Call(j) == (Held(j) => j \in Unchecked) /\ Enqueue(j)

QueueNext == QueueSteps \/ \E j \in Jobs : Call(j)

QueueSpec == QueueInit /\ [][QueueNext]_queueVars

\* Node runs every scheduled callback; that a runner settles is an assumption
\* about the runner (lib/review-job.js puts no deadline on the agent).
QueueFairness ==
    /\ WF_queueVars(Drain)
    /\ \A j \in Jobs : WF_queueVars(Settle(j))

FairQueueSpec == QueueSpec /\ QueueFairness

-----------------------------------------------------------------------------
(* Properties.                                                             *)

\* No lost wake-up: whenever a job waits and the Map has a free slot, a drain
\* has been scheduled, whatever callers, settings and runners do in between.
NoLostWakeup ==
    pending # <<>> /\ Cardinality(active) < concurrency => drainDue

\* A key of the Map always stands for a live runner: a slot is never leaked
\* to a job that is not running.
SlotsAreRunners == active \subseteq Running

\* A job whose callers enqueue it only while the queue does not hold it never
\* has two runners (they would share one worktree path) and never waits twice
\* or while it runs, and it has a key in the Map exactly while it runs,
\* whatever happens to other jobs.
OneRunnerPerJob ==
    \A j \in Jobs \ Unchecked :
        /\ runs[j] <= 1
        /\ \A i, k \in 1..Len(pending) :
              pending[i] = j /\ pending[k] = j => i = k
        /\ InPending(j) => runs[j] = 0
        /\ j \in active <=> runs[j] > 0

\* "The queue never runs more than this many runners concurrently": a step
\* that starts a runner leaves at most `concurrency` jobs running, those that
\* were enqueued unchecked left out of the count.  A limit lowered below the
\* number running stops nothing; it only starts nothing more.
StartsWithinLimit ==
    [][(\E j \in Jobs : runs'[j] > runs[j])
         => Cardinality(Running' \ Unchecked) <= concurrency']_queueVars

\* Every waiting job is started, however often the limit changes and however
\* often other jobs are enqueued: the queue is FIFO, so nothing overtakes.
WaitingIsStarted ==
    \A j \in Jobs : InPending(j) ~> runs[j] > 0

\* After the limit has been lowered below the number of running reviews, the
\* queue comes back within it.
ComesBackWithinLimit ==
    Cardinality(Running \ Unchecked) > concurrency
        ~> Cardinality(Running \ Unchecked) <= concurrency

=============================================================================

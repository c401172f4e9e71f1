---------------------------- MODULE JobLifecycle ----------------------------
(***************************************************************************)
(* The life of a review job in server.js: submitted, run by the queue,     *)
(* resumed, removed.  Composes the review queue (ReviewQueue) with the     *)
(* route handlers that enqueue into it and with the listener that copies   *)
(* the queue's "state" events onto the job.                                *)
(*                                                                         *)
(* A submission and a removal change the job list in one synchronous run   *)
(* of their handler.  A resume does not: resumeReviewJob looks at the job, *)
(* awaits the admission checks and a round trip to GitHub, and only then   *)
(* writes to it, without looking again.  `asking` is that gap.             *)
(***************************************************************************)
EXTENDS Integers, Sequences, FiniteSets, FiniteSetsExt

CONSTANTS
    Jobs,          \* job ids; an id removed and forgotten stands for a new one
    Handlers,      \* resumes in progress: browser, CLI, mention watch, auto-resume
    NoJob,
    Limits, InitialLimit, MaxCopies    \* see ReviewQueue

ASSUME NoJobAssumption == NoJob \notin Jobs

ASSUME InitialLimitAssumption == InitialLimit \in Limits

VARIABLES
    pending, active, concurrency, drainDue, runs,   \* the queue
    known,     \* keys of the `jobs` Map
    state,     \* job.state
    session,   \* jobs that have a provider session to resume
    asking,    \* asking[h]: the job a resume has checked and not yet written to
    raced      \* history: jobs a resume wrote to although its check was stale

jobVars == <<known, state, session, asking, raced>>

queueVars == <<pending, active, concurrency, drainDue, runs>>

vars == <<pending, active, concurrency, drainDue, runs,
          known, state, session, asking, raced>>

Q == INSTANCE ReviewQueue WITH Unchecked <- Jobs

States == {"queued", "running", "done", "failed"}

TypeOK ==
    /\ Q!QueueTypeOK
    /\ known \in SUBSET Jobs
    /\ state \in [Jobs -> States]
    /\ session \in SUBSET Jobs
    /\ asking \in [Handlers -> Jobs \cup {NoJob}]
    /\ raced \in SUBSET Jobs

\* isJobActive
IsJobActive(j) == state[j] \in {"queued", "running"}

Init ==
    /\ Q!QueueInit
    /\ known = {}
    /\ state = [j \in Jobs |-> "done"]
    /\ session = {}
    /\ asking = [h \in Handlers |-> NoJob]
    /\ raced = {}

-----------------------------------------------------------------------------
\* enqueueReview, once admission has passed: a fresh id.
Submit(j) ==
    /\ j \notin known /\ ~Q!Held(j) /\ \A h \in Handlers : asking[h] # j
    /\ known' = known \cup {j}
    /\ state' = [state EXCEPT ![j] = "queued"]
    /\ session' = session \ {j}
    /\ raced' = raced \ {j}
    /\ Q!Enqueue(j)
    /\ UNCHANGED asking

\* resumeReviewJob up to its first await: the job exists, has a session and is
\* not active.
ResumeAsk(h, j) ==
    /\ asking[h] = NoJob
    /\ j \in known /\ j \in session /\ ~IsJobActive(j)
    /\ asking' = [asking EXCEPT ![h] = j]
    /\ UNCHANGED <<known, state, session, raced, queueVars>>

\* Admission or resumeGate refuses.
ResumeRefused(h) ==
    /\ asking[h] # NoJob
    /\ asking' = [asking EXCEPT ![h] = NoJob]
    /\ UNCHANGED <<known, state, session, raced, queueVars>>

\* Defect: the job is marked queued and never handed to the queue.
ResumeCommit_ForgetsQueue(h) ==
    /\ asking[h] # NoJob
    /\ state' = [state EXCEPT ![asking[h]] = "queued"]
    /\ raced' = raced
    /\ asking' = [asking EXCEPT ![h] = NoJob]
    /\ UNCHANGED <<known, session, queueVars>>

\* resumeReviewJob after its awaits: the job object it still holds is written
\* to and enqueued, whatever has become of it meanwhile.
ResumeCommit(h) ==
    /\ asking[h] # NoJob
    /\ LET j == asking[h] IN
          /\ state' = [state EXCEPT ![j] = "queued"]
          /\ raced' = IF j \notin known \/ IsJobActive(j)
                      THEN raced \cup {j} ELSE raced
          /\ Q!Enqueue(j)
    /\ asking' = [asking EXCEPT ![h] = NoJob]
    /\ UNCHANGED <<known, session>>

\* Defect: only queued reviews are refused.
Delete_WhileRunning(j) ==
    /\ j \in known /\ state[j] # "queued"
    /\ known' = known \ {j}
    /\ UNCHANGED <<state, session, asking, raced, queueVars>>

\* DELETE /api/jobs/:id
Delete(j) ==
    /\ j \in known /\ ~IsJobActive(j)
    /\ known' = known \ {j}
    /\ UNCHANGED <<state, session, asking, raced, queueVars>>

\* The listener on the queue's "state" events ignores jobs not in the Map.
Drain ==
    /\ Q!Drain
    /\ state' = [j \in Jobs |->
                   IF j \in known /\ runs'[j] > runs[j] THEN "running" ELSE state[j]]
    /\ UNCHANGED <<known, session, asking, raced>>

\* Defects: a runner that threw passes its error on as the state; a runner
\* that skips reports no state.
RunnerSettles_ErrorAsState(j, result, summary) ==
    /\ Q!Settle(j)
    /\ state' = IF j \in known
                THEN [state EXCEPT ![j] = IF result = "done" THEN result ELSE "error"]
                ELSE state
    /\ session' = IF j \in known /\ summary THEN session \cup {j} ELSE session
    /\ UNCHANGED <<known, asking, raced>>

RunnerSettles_SilentSkip(j, result, summary) ==
    /\ Q!Settle(j)
    /\ state' = IF j \in known /\ (result = "failed" \/ summary)
                THEN [state EXCEPT ![j] = result] ELSE state
    /\ session' = IF j \in known /\ summary THEN session \cup {j} ELSE session
    /\ UNCHANGED <<known, asking, raced>>

\* A runner returned, skipped or threw.  Only one that returned after a
\* completed agent run has emitted a summary with a session id.
RunnerSettles(j, result, summary) ==
    /\ Q!Settle(j)
    /\ state' = IF j \in known THEN [state EXCEPT ![j] = result] ELSE state
    /\ session' = IF j \in known /\ summary THEN session \cup {j} ELSE session
    /\ UNCHANGED <<known, asking, raced>>

\* POST /api/settings with another maxConcurrentReviews.
SetConcurrency(n) == Q!SetConcurrency(n) /\ UNCHANGED jobVars

RunnerStep(j) ==
    \/ \E summary \in BOOLEAN : RunnerSettles(j, "done", summary)
    \/ RunnerSettles(j, "failed", FALSE)

Next ==
    \/ \E j \in Jobs : Submit(j) \/ Delete(j) \/ RunnerStep(j)
    \/ \E h \in Handlers :
          \/ \E j \in Jobs : ResumeAsk(h, j)
          \/ ResumeRefused(h) \/ ResumeCommit(h)
    \/ Drain
    \/ \E n \in Limits : SetConcurrency(n)

Spec == Init /\ [][Next]_vars

\* Scheduled callbacks run; that every runner settles is an assumption about
\* git, gh and the agent.  Nobody is obliged to submit, resume or remove.
FairSpec ==
    /\ Spec
    /\ WF_vars(Drain)
    /\ \A j \in Jobs : WF_vars(RunnerStep(j))

-----------------------------------------------------------------------------
(* Properties.                                                             *)

\* A job the list shows as queued or running is really in the queue's hands,
\* even when resumes race: no row is stuck active, where it could be neither
\* resumed nor removed until a restart.
ActiveIsHeld == TypeOK /\ \A j \in known : IsJobActive(j) => Q!Held(j)

\* As long as no resume wrote to a job on a stale check, a job the queue
\* holds is in the list, is shown as active, and is held once.  So removal is
\* safe, and the stale check is the only way to lose or double a review.
HeldOnceUnlessRaced ==
    \A j \in Jobs \ raced :
        Q!Held(j) => j \in known /\ IsJobActive(j) /\ Q!Copies(j) = 1

\* Every review that enters the queue comes to an end the list shows, or its
\* record has been removed.
QueuedEnds ==
    \A j \in Jobs :
        j \in known /\ state[j] = "queued"
            ~> j \notin known \/ state[j] \in {"done", "failed"}

\* "The queue never runs more than this many runners concurrently".
NeverMoreRunnersThanLimit ==
    MapThenSumSet(LAMBDA j : runs[j], Jobs) <= concurrency

=============================================================================

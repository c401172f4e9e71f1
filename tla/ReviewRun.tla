----------------------------- MODULE ReviewRun ------------------------------
(***************************************************************************)
(* The runs of lib/review-job.js (runReviewJob, runVerifyJob): the steps   *)
(* between two awaits, the worktree each run makes and removes, the        *)
(* repository lock around the git commands, the agent process, and the     *)
(* graceful shutdown of server.js that comes in between.                   *)
(*                                                                         *)
(* All reviews here are of one repository.  Of the queue only what it      *)
(* promises is kept (ReviewQueue: a limit on running jobs and, unless      *)
(* resumes race, one run per job); of the lock too (FifoLock, which        *)
(* RepoLock implements).                                                   *)
(***************************************************************************)
EXTENDS Integers, Sequences, FiniteSets

CONSTANTS
    Runs,       \* runner calls; one that has settled stands for a later one
    Jobs,       \* review ids
    Repo,       \* the repository
    Limit,      \* concurrent reviews
    Racing      \* TRUE: a resume may enqueue a job that runs (JobLifecycle)

ASSUME RunAssumption == Limit \in Nat \ {0} /\ Racing \in BOOLEAN

ASSUME SomeAssumption == Runs # {} /\ Jobs # {}

VARIABLES
    server,     \* "up", "stopping" (shutdown has run) or "down"
    waiting,    \* jobs in the queue
    submitted,  \* jobs that have been enqueued before
    session,    \* jobs with a provider session: resumed in verify mode
    at,         \* where each run is
    job,        \* the job of each run
    verify,     \* runs that are runVerifyJob
    abort,      \* job.abort: the run whose controller the job object holds
    line,       \* the repository lock
    worktree,   \* jobs whose worktree path exists on disk
    agent,      \* runs whose agent process exists
    signalled,  \* agents that were sent SIGTERM
    late        \* history: agents started after the shutdown

vars == <<server, waiting, submitted, session, at, job, verify, abort, line,
          worktree, agent, signalled, late>>

lockUsers == <<at, job, verify, abort>>

Stages == {"idle", "resolving", "wantSetup", "syncing", "adding", "preparing",
           "reviewing", "settling", "wantCleanup", "removing"}

TypeOK ==
    /\ server \in {"up", "stopping", "down"}
    /\ waiting \in SUBSET Jobs /\ submitted \in SUBSET Jobs /\ session \in SUBSET Jobs
    /\ at \in [Runs -> Stages]
    /\ job \in [Runs -> Jobs]
    /\ verify \in SUBSET Runs
    /\ abort \in [Jobs -> Runs]
    /\ line \in [{Repo} -> Seq(Runs)]
    /\ worktree \in SUBSET Jobs
    /\ agent \in SUBSET Runs /\ signalled \in SUBSET Runs /\ late \in SUBSET Runs

\* withRepoLock as the runs see it.
Lock == INSTANCE FifoLock WITH
    Tasks <- Runs, Keys <- {Repo},
    stage <- [r \in Runs |->
                IF at[r] \in {"wantSetup", "wantCleanup"} THEN "waiting"
                ELSE IF at[r] \in {"syncing", "adding", "removing"} THEN "inside" ELSE "idle"]

IsRunning(j) == \E r \in Runs : at[r] # "idle" /\ job[r] = j

RunningJobs == {j \in Jobs : IsRunning(j)}

Init ==
    /\ server = "up"
    /\ waiting = {} /\ submitted = {} /\ session = {}
    /\ at = [r \in Runs |-> "idle"]
    /\ job \in [Runs -> {CHOOSE j \in Jobs : TRUE}]
    /\ verify = {}
    /\ abort \in [Jobs -> {CHOOSE r \in Runs : TRUE}]
    /\ line = [k \in {Repo} |-> <<>>]
    /\ worktree = {} /\ agent = {} /\ signalled = {} /\ late = {}

Goes(r, stage) == at' = [at EXCEPT ![r] = stage]

-----------------------------------------------------------------------------
(* Enqueued and started.                                                   *)

\* Defect: a review that failed, without a session, is run again in place.
Submit_Retry(j) ==
    /\ server # "down" /\ j \notin waiting
    /\ ~IsRunning(j)
    /\ waiting' = waiting \cup {j}
    /\ submitted' = submitted \cup {j}
    /\ UNCHANGED <<server, session, lockUsers, line, worktree, agent, signalled, late>>

\* Defect: a resume does not look whether the job is active.
Submit_Unchecked(j) ==
    /\ server # "down" /\ j \notin waiting
    /\ j \notin submitted \/ j \in session
    /\ waiting' = waiting \cup {j}
    /\ submitted' = submitted \cup {j}
    /\ UNCHANGED <<server, session, lockUsers, line, worktree, agent, signalled, late>>

\* enqueueReview under a fresh id, or resumeReviewJob of a review that has a
\* session.  Requests already past their checks still arrive while the server
\* is stopping.
Submit(j) ==
    /\ server # "down" /\ j \notin waiting
    /\ j \notin submitted \/ j \in session
    /\ IsRunning(j) => Racing
    /\ waiting' = waiting \cup {j}
    /\ submitted' = submitted \cup {j}
    /\ UNCHANGED <<server, session, lockUsers, line, worktree, agent, signalled, late>>

\* The queue starts runners as long as there are slots, while stopping too.
Start(r, j) ==
    /\ server # "down" /\ at[r] = "idle" /\ j \in waiting
    /\ r \notin agent
    /\ Cardinality(RunningJobs) < Limit
    /\ waiting' = waiting \ {j}
    /\ Goes(r, "resolving")
    /\ job' = [job EXCEPT ![r] = j]
    /\ abort' = [abort EXCEPT ![j] = r]
    /\ verify' = IF j \in session THEN verify \cup {r} ELSE verify \ {r}
    /\ UNCHANGED <<server, submitted, session, line, worktree, agent, signalled, late>>

-----------------------------------------------------------------------------
(* The run.                                                                *)

\* The pull request and its checks are read; the lock is asked for.
Resolved(r) ==
    /\ server # "down" /\ at[r] = "resolving"
    /\ Goes(r, "wantSetup")
    /\ Lock!Request(r, Repo)
    /\ UNCHANGED <<server, waiting, submitted, session, job, verify, abort,
                   worktree, agent, signalled, late>>

\* Skipped, closed, unreadable; or no skill could be resolved.
EndsEarly(r) ==
    /\ server # "down" /\ at[r] \in {"resolving", "preparing"}
    /\ Goes(r, "idle")
    /\ UNCHANGED <<server, waiting, submitted, session, job, verify, abort, line,
                   worktree, agent, signalled, late>>

EnterLock(r) ==
    /\ server # "down" /\ at[r] \in {"wantSetup", "wantCleanup"}
    /\ Goes(r, IF at[r] = "wantSetup" THEN "syncing" ELSE "removing")
    /\ Lock!Enter(r, Repo)
    /\ UNCHANGED <<server, waiting, submitted, session, job, verify, abort,
                   worktree, agent, signalled, late>>

\* The clone is fetched; a verify run also removes a leftover worktree, as
\* well as it can.
Synced(r) ==
    /\ server # "down" /\ at[r] = "syncing"
    /\ Goes(r, "adding")
    /\ \/ r \in verify /\ worktree' = worktree \ {job[r]}
       \/ worktree' = worktree
    /\ UNCHANGED <<server, waiting, submitted, session, job, verify, abort, line,
                   agent, signalled, late>>

\* git worktree add refuses a path that exists.
Added(r) ==
    /\ server # "down" /\ at[r] = "adding" /\ job[r] \notin worktree
    /\ worktree' = worktree \cup {job[r]}
    /\ Goes(r, "preparing")
    /\ Lock!Leave(r, Repo)
    /\ UNCHANGED <<server, waiting, submitted, session, job, verify, abort,
                   agent, signalled, late>>

\* Any git command before or including the add fails: the run throws.
SetupFails(r) ==
    /\ server # "down" /\ at[r] \in {"syncing", "adding"}
    /\ Goes(r, "idle")
    /\ Lock!Leave(r, Repo)
    /\ UNCHANGED <<server, waiting, submitted, session, job, verify, abort,
                   worktree, agent, signalled, late>>

\* Defect: the run's stage is mixed up with the phase its record shows.
Spawn_StageName(r) ==
    /\ server # "down" /\ at[r] = "preparing"
    /\ Goes(r, "running-review")
    /\ agent' = agent \cup {r}
    /\ signalled' = signalled \ {r}
    /\ late' = IF server = "stopping" THEN late \cup {r} ELSE late
    /\ UNCHANGED <<server, waiting, submitted, session, job, verify, abort, line, worktree>>

\* runProviderProcess: spawned detached; the abort listener is added now.
Spawn(r) ==
    /\ server # "down" /\ at[r] = "preparing"
    /\ Goes(r, "reviewing")
    /\ agent' = agent \cup {r}
    /\ signalled' = signalled \ {r}
    /\ late' = IF server = "stopping" THEN late \cup {r} ELSE late
    /\ UNCHANGED <<server, waiting, submitted, session, job, verify, abort, line, worktree>>

\* The agent ends; a non-zero exit rejects and the worktree stays.
AgentExits(r) ==
    /\ r \in agent
    /\ agent' = agent \ {r}
    /\ signalled' = signalled \ {r}
    /\ IF server = "down" THEN at' = at ELSE \E s \in {"settling", "idle"} : Goes(r, s)
    /\ UNCHANGED <<server, waiting, submitted, session, job, verify, abort, line, worktree, late>>

\* settleOutcome is over and KEEP_WORKTREES_ON_SUCCESS is set (any run may find
\* it either way): summary, return.
SettledKeeping(r) ==
    /\ server # "down" /\ at[r] = "settling"
    /\ Goes(r, "idle")
    /\ session' = session \cup {job[r]}
    /\ UNCHANGED <<server, waiting, submitted, job, verify, abort, line,
                   worktree, agent, signalled, late>>

\* Defect: the removal does not take the lock.
Settled_NoLock(r) ==
    /\ server # "down" /\ at[r] = "settling"
    /\ Goes(r, "removing")
    /\ UNCHANGED <<server, waiting, submitted, session, job, verify, abort, line,
                   worktree, agent, signalled, late>>

\* Otherwise the lock is asked for again.
Settled(r) ==
    /\ server # "down" /\ at[r] = "settling"
    /\ Goes(r, "wantCleanup")
    /\ Lock!Request(r, Repo)
    /\ UNCHANGED <<server, waiting, submitted, session, job, verify, abort,
                   worktree, agent, signalled, late>>

\* Defect: the run returns inside the lock's function and never leaves it.
Removed_KeepsLock(r) ==
    /\ server # "down" /\ at[r] = "removing"
    /\ worktree' = worktree \ {job[r]}
    /\ session' = session \cup {job[r]}
    /\ Goes(r, "idle")
    /\ UNCHANGED <<server, waiting, submitted, job, verify, abort, line,
                   agent, signalled, late>>

\* removeWorktree swallows its failures; then summary, return.
Removed(r) ==
    /\ server # "down" /\ at[r] = "removing"
    /\ worktree' \in {worktree, worktree \ {job[r]}}
    /\ session' = session \cup {job[r]}
    /\ Goes(r, "idle")
    /\ Lock!Leave(r, Repo)
    /\ UNCHANGED <<server, waiting, submitted, job, verify, abort, agent, signalled, late>>

-----------------------------------------------------------------------------
(* Shutdown.                                                               *)

\* Defect: only the first running review is told.
Stop_FirstOnly ==
    /\ server = "up"
    /\ server' = "stopping"
    /\ signalled' = IF agent = {} THEN {} ELSE {CHOOSE r \in agent : TRUE}
    /\ UNCHANGED <<waiting, submitted, session, lockUsers, line, worktree, agent, late>>

\* Every running job's controller is aborted.  Only runProviderProcess listens
\* to it, from the moment there is an agent.
Stop ==
    /\ server = "up"
    /\ server' = "stopping"
    /\ signalled' = {r \in agent : abort[job[r]] = r}
    /\ UNCHANGED <<waiting, submitted, session, lockUsers, line, worktree, agent, late>>

\* process.exit, 1.5 seconds later: the agents are processes of their own.
Exit ==
    /\ server = "stopping"
    /\ server' = "down"
    /\ UNCHANGED <<waiting, submitted, session, lockUsers, line, worktree, agent,
                   signalled, late>>

-----------------------------------------------------------------------------
RunStep(r) ==
    \/ Resolved(r) \/ EndsEarly(r) \/ EnterLock(r) \/ Synced(r) \/ Added(r)
    \/ SetupFails(r) \/ Spawn(r) \/ AgentExits(r)
    \/ SettledKeeping(r) \/ Settled(r) \/ Removed(r)

Next ==
    \/ \E j \in Jobs : Submit(j) \/ \E r \in Runs : Start(r, j)
    \/ \E r \in Runs : RunStep(r)
    \/ Stop \/ Exit

Spec == Init /\ [][Next]_vars

\* Awaited commands return and agents end: assumptions about gh, git and the
\* agent, none of which the code puts a deadline on here.
FairSpec == Spec /\ \A r \in Runs : WF_vars(RunStep(r))

-----------------------------------------------------------------------------
(* Properties.                                                             *)

\* Commands that change the shared .git never overlap: one review's setup or
\* cleanup with another's.
GitIsSerialized ==
    LET inGit == {r \in Runs : at[r] \in {"syncing", "adding", "removing"}} IN
    \A r, s \in inGit : r = s

\* A first review finds its worktree path free: runReviewJob, unlike
\* runVerifyJob, does not clear it, and a run that failed left one there.
FreshPathIsFree ==
    \A r \in Runs \ verify : at[r] = "adding" => job[r] \notin worktree

\* What a graceful shutdown leaves running has been sent SIGTERM, or was
\* started after it.
MissedAgentsAreLate == server = "down" => agent \subseteq signalled \cup late

\* No run hangs: the lock is always handed on, whatever fails on the way.
EveryRunSettles ==
    \A r \in Runs : at[r] = "resolving" ~> at[r] = "idle" \/ server = "down"

\* "a graceful stop leaves nothing behind": no agent that nobody has told to
\* stop outlives the server.
GracefulStopLeavesNothing == server = "down" => agent \subseteq signalled

\* "cwd is a private detached git worktree prsnooze created for this review":
\* while an agent works, its worktree exists and no other run works on it. Nor
\* do runs get in each other's way in git, or find their path taken.
WorktreeIsPrivate ==
    TypeOK /\ GitIsSerialized /\ FreshPathIsFree /\ \A r \in agent :
        server = "down"
            \/ /\ job[r] \in worktree
               /\ \A s \in agent : job[s] = job[r] => s = r

=============================================================================

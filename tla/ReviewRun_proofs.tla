---------------------------- MODULE ReviewRun_proofs ----------------------------
(***************************************************************************)
(* The runs of lib/review-job.js for any number of runs, reviews and slots *)
(* of the queue: what git, the worktrees and the agents of several reviews *)
(* have to do with one another, up to and after a graceful shutdown.       *)
(***************************************************************************)
EXTENDS ReviewRun, SequenceTheorems, TLAPS

Active(r) == at[r] # "idle"

InGit(r) == at[r] \in {"syncing", "adding", "removing"}

\* It has yet to make the worktree.
BeforeAdd(r) == at[r] \in {"resolving", "wantSetup", "syncing", "adding"}

\* Whoever runs git commands is the head of the line.
HeadWorks == \A r \in Runs : InGit(r) => line[Repo] # <<>> /\ Head(line[Repo]) = r

\* A review has one run at a time, whose controller is the one it holds, and does
\* not wait for another.
OneRunPerJob ==
    \A r \in Runs : Active(r) =>
        /\ abort[job[r]] = r
        /\ job[r] \in submitted \ waiting

\* Only a resume may find the worktree of an earlier run.
FreshPaths ==
    /\ worktree \cup waiting \subseteq submitted
    /\ waiting \cap worktree \subseteq session
    /\ \A r \in Runs \ verify : BeforeAdd(r) => job[r] \notin worktree

\* Until it has settled, the worktree of a run is there.
WorktreesStay ==
    \A r \in Runs : at[r] \in {"preparing", "reviewing"} => job[r] \in worktree

\* While the server lives, it follows every agent.
AgentsFollowed == server # "down" => \A r \in agent : at[r] = "reviewing"

\* From the shutdown on, an agent has been signalled or is late.
Told == server # "up" => agent \subseteq signalled \cup late

\* What holds however resumes are asked for, and what needs them not to race.
Always == TypeOK /\ HeadWorks /\ AgentsFollowed

IInv == Always /\ OneRunPerJob /\ FreshPaths /\ WorktreesStay /\ Told

-----------------------------------------------------------------------------
(* The steps, seen by what they do.                                        *)

LEMMA GoesFacts ==
  ASSUME TypeOK, NEW r \in Runs, NEW stage \in Stages, Goes(r, stage)
  PROVE  /\ at' \in [Runs -> Stages]
         /\ at'[r] = stage /\ \A s \in Runs \ {r} : at'[s] = at[s]
  BY DEF Goes, TypeOK

\* Asking for the lock, taking it and handing it on, as steps of the line.
LEMMA RequestFacts ==
  ASSUME TypeOK, NEW r \in Runs, Lock!Request(r, Repo)
  PROVE  /\ line' \in [{Repo} -> Seq(Runs)] /\ line'[Repo] # <<>>
         /\ line[Repo] # <<>> => Head(line'[Repo]) = Head(line[Repo])
  <1> PICK s : s = line[Repo]
    OBVIOUS
  <1>1. s \in Seq(Runs)
    BY DEF TypeOK
  <1>2. line' = [line EXCEPT ![Repo] = Append(s, r)]
    BY DEF Lock!Request
  <1>3. Append(s, r) \in Seq(Runs) /\ Append(s, r) # <<>>
    BY <1>1, AppendProperties
  <1>4. s # <<>> => Head(Append(s, r)) = Head(s)
    BY <1>1
  <1> QED BY <1>2, <1>3, <1>4 DEF TypeOK

LEMMA EnterFacts ==
  ASSUME TypeOK, NEW r \in Runs, Lock!Enter(r, Repo)
  PROVE  line' = line /\ line[Repo] # <<>> /\ Head(line[Repo]) = r
  BY DEF Lock!Enter

LEMMA LeaveFacts ==
  ASSUME TypeOK, NEW r \in Runs, Lock!Leave(r, Repo)
  PROVE  line' \in [{Repo} -> Seq(Runs)] /\ line[Repo] # <<>> /\ Head(line[Repo]) = r
  <1>1. line[Repo] \in Seq(Runs) /\ line[Repo] # <<>> /\ Head(line[Repo]) = r
    BY DEF TypeOK, Lock!Leave
  <1>2. line' = [line EXCEPT ![Repo] = Tail(line[Repo])]
    BY DEF Lock!Leave
  <1>3. Tail(line[Repo]) \in Seq(Runs)
    BY <1>1, HeadTailProperties
  <1> QED BY <1>1, <1>2, <1>3 DEF TypeOK

-----------------------------------------------------------------------------
LEMMA TypeInit == ASSUME Init PROVE TypeOK
  <1>1. (CHOOSE j \in Jobs : TRUE) \in Jobs /\ (CHOOSE r \in Runs : TRUE) \in Runs
    BY SomeAssumption
  <1>2. <<>> \in Seq(Runs)
    BY EmptySeq
  <1> QED BY <1>1, <1>2 DEF Init, TypeOK, Stages

LEMMA TypeRunStep == ASSUME TypeOK, NEW r \in Runs, RunStep(r) PROVE TypeOK'
  <1> USE GoesFacts DEF TypeOK, Stages
  <1>1. CASE Resolved(r)
    BY <1>1, RequestFacts DEF Resolved
  <1>2. CASE EndsEarly(r)
    BY <1>2 DEF EndsEarly
  <1>3. CASE EnterLock(r)
    BY <1>3, EnterFacts DEF EnterLock
  <1>4. CASE Synced(r)
    BY <1>4 DEF Synced
  <1>5. CASE Added(r)
    BY <1>5, LeaveFacts DEF Added
  <1>6. CASE SetupFails(r)
    BY <1>6, LeaveFacts DEF SetupFails
  <1>7. CASE Spawn(r)
    BY <1>7 DEF Spawn
  <1>8. CASE AgentExits(r)
    BY <1>8 DEF AgentExits
  <1>9. CASE SettledKeeping(r)
    BY <1>9 DEF SettledKeeping
  <1>10. CASE Settled(r)
    BY <1>10, RequestFacts DEF Settled
  <1>11. CASE Removed(r)
    BY <1>11, LeaveFacts DEF Removed
  <1> QED BY <1>1, <1>2, <1>3, <1>4, <1>5, <1>6, <1>7, <1>8, <1>9, <1>10, <1>11 DEF RunStep

LEMMA TypeStep == ASSUME TypeOK, [Next]_vars PROVE TypeOK'
  <1> USE DEF TypeOK
  <1>1. ASSUME NEW j \in Jobs, Submit(j) PROVE TypeOK'
    BY <1>1 DEF Submit, lockUsers
  <1>2. ASSUME NEW j \in Jobs, NEW r \in Runs, Start(r, j) PROVE TypeOK'
    BY <1>2, GoesFacts DEF Start, Stages
  <1>3. ASSUME NEW r \in Runs, RunStep(r) PROVE TypeOK'
    BY <1>3, TypeRunStep
  <1>4. CASE Stop
    BY <1>4 DEF Stop, lockUsers
  <1>5. CASE Exit
    BY <1>5 DEF Exit, lockUsers
  <1>6. CASE UNCHANGED vars
    BY <1>6 DEF vars
  <1> QED BY <1>1, <1>2, <1>3, <1>4, <1>5, <1>6 DEF Next

-----------------------------------------------------------------------------
(* Git.                                                                    *)

\* Entering needs the head of the line, which whoever is in git has; leaving, the
\* one that leaves was the only one in git.
LEMMA HeadWorksStep ==
  ASSUME TypeOK, HeadWorks, [Next]_vars PROVE HeadWorks'
  <1> USE DEF HeadWorks, InGit
  <1>1. ASSUME NEW j \in Jobs, Submit(j) PROVE HeadWorks'
    BY <1>1 DEF Submit, lockUsers
  <1>2. ASSUME NEW j \in Jobs, NEW r \in Runs, Start(r, j) PROVE HeadWorks'
    BY <1>2, GoesFacts DEF Start, Stages
  <1>3. ASSUME NEW r \in Runs, RunStep(r) PROVE HeadWorks'
    <2> USE GoesFacts DEF Stages
    <2>1. CASE Resolved(r) \/ Settled(r)
      BY <2>1, RequestFacts DEF Resolved, Settled
    <2>2. CASE EndsEarly(r) \/ Spawn(r) \/ SettledKeeping(r)
      BY <2>2 DEF EndsEarly, Spawn, SettledKeeping
    <2>3. CASE EnterLock(r)
      BY <2>3, EnterFacts DEF EnterLock
    <2>4. CASE Synced(r)
      BY <2>4 DEF Synced
    <2>5. CASE Added(r) \/ SetupFails(r) \/ Removed(r)
      <3>1. line[Repo] # <<>> /\ Head(line[Repo]) = r /\ ~InGit(r)'
        BY <2>5, LeaveFacts DEF Added, SetupFails, Removed
      <3>2. \A s \in Runs \ {r} : ~InGit(s) /\ at'[s] = at[s]
        BY <2>5, <3>1 DEF Added, SetupFails, Removed
      <3> QED BY <3>1, <3>2
    <2>6. CASE AgentExits(r)
      BY <2>6 DEF AgentExits
    <2> QED BY <1>3, <2>1, <2>2, <2>3, <2>4, <2>5, <2>6 DEF RunStep
  <1>4. CASE Stop \/ Exit
    BY <1>4 DEF Stop, Exit, lockUsers
  <1>5. CASE UNCHANGED vars
    BY <1>5 DEF vars
  <1> QED BY <1>1, <1>2, <1>3, <1>4, <1>5 DEF Next

-----------------------------------------------------------------------------
(* Reviews and their runs.                                                 *)

\* What a run does leaves alone which review it is for, and what waits.
LEMMA RunKeeps ==
  ASSUME NEW r \in Runs, RunStep(r)
  PROVE  /\ UNCHANGED <<server, waiting, submitted, job, verify, abort>>
         /\ session \subseteq session'
  BY DEF RunStep, Resolved, EndsEarly, EnterLock, Synced, Added, SetupFails, Spawn, AgentExits,
         SettledKeeping, Settled, Removed

\* Only its start makes a run active.
LEMMA RunMoves ==
  ASSUME TypeOK, AgentsFollowed, NEW r \in Runs, RunStep(r)
  PROVE  \A s \in Runs : Active(s)' => Active(s)
  <1> USE GoesFacts DEF Stages, Active
  <1>1. CASE AgentExits(r)
    BY <1>1 DEF AgentExits, AgentsFollowed
  <1>2. CASE ~AgentExits(r)
    <2>1. at[r] # "idle" /\ \A s \in Runs \ {r} : at'[s] = at[s]
      BY <1>2 DEF RunStep, Resolved, EndsEarly, EnterLock, Synced, Added, SetupFails, Spawn,
           SettledKeeping, Settled, Removed
    <2> QED BY <2>1
  <1> QED BY <1>1, <1>2

\* A review that is running is not put in the queue, unless resumes race.
LEMMA OneRunPerJobStep ==
  ASSUME ~Racing, TypeOK, OneRunPerJob, FreshPaths, AgentsFollowed, [Next]_vars
  PROVE  OneRunPerJob'
  <1> USE DEF OneRunPerJob, Active
  <1>1. ASSUME NEW j \in Jobs, Submit(j) PROVE OneRunPerJob'
    BY <1>1 DEF Submit, lockUsers, IsRunning, TypeOK
  <1>2. ASSUME NEW j \in Jobs, NEW r \in Runs, Start(r, j)
        PROVE  OneRunPerJob'
    <2>1. at'[r] = "resolving" /\ \A s \in Runs \ {r} : at'[s] = at[s]
      BY <1>2, GoesFacts DEF Start, Stages
    <2>2. /\ job'[r] = j /\ \A s \in Runs \ {r} : job'[s] = job[s]
          /\ abort'[j] = r /\ \A i \in Jobs \ {j} : abort'[i] = abort[i]
      BY <1>2 DEF Start, TypeOK
    <2>3. waiting' = waiting \ {j} /\ submitted' = submitted /\ j \in waiting \cap submitted
      BY <1>2 DEF Start, FreshPaths
    <2> QED BY <1>2, <2>1, <2>2, <2>3 DEF TypeOK
  <1>3. ASSUME NEW r \in Runs, RunStep(r) PROVE OneRunPerJob'
    BY <1>3, RunKeeps, RunMoves
  <1>4. CASE Stop \/ Exit
    BY <1>4 DEF Stop, Exit, lockUsers
  <1>5. CASE UNCHANGED vars
    BY <1>5 DEF vars
  <1> QED BY <1>1, <1>2, <1>3, <1>4, <1>5 DEF Next

\* While the server lives, an agent is where its run has put it.
LEMMA AgentsFollowedStep ==
  ASSUME TypeOK, AgentsFollowed, [Next]_vars PROVE AgentsFollowed'
  <1> USE DEF AgentsFollowed, TypeOK
  <1>1. ASSUME NEW j \in Jobs, Submit(j) PROVE AgentsFollowed'
    BY <1>1 DEF Submit, lockUsers
  <1>2. ASSUME NEW j \in Jobs, NEW r \in Runs, Start(r, j) PROVE AgentsFollowed'
    BY <1>2, GoesFacts DEF Start, Stages
  <1>3. ASSUME NEW r \in Runs, RunStep(r) PROVE AgentsFollowed'
    <2> USE GoesFacts DEF Stages
    <2>1. CASE Spawn(r)
      BY <2>1 DEF Spawn
    <2>2. CASE AgentExits(r)
      BY <2>2 DEF AgentExits
    <2>3. CASE ~Spawn(r) /\ ~AgentExits(r)
      BY <1>3, <2>3 DEF RunStep, Resolved, EndsEarly, EnterLock, Synced, Added, SetupFails,
         SettledKeeping, Settled, Removed
    <2> QED BY <2>1, <2>2, <2>3
  <1>4. CASE Stop \/ Exit
    BY <1>4 DEF Stop, Exit, lockUsers
  <1>5. CASE UNCHANGED vars
    BY <1>5 DEF vars
  <1> QED BY <1>1, <1>2, <1>3, <1>4, <1>5 DEF Next

-----------------------------------------------------------------------------
(* Worktrees.                                                              *)

\* Which steps change what is on disk, and how.
LEMMA WorktreeMoves ==
  ASSUME TypeOK, NEW r \in Runs, RunStep(r)
  PROVE  \/ worktree' = worktree
         \/ Added(r) /\ worktree' = worktree \cup {job[r]}
         \/ Synced(r) /\ r \in verify /\ worktree' = worktree \ {job[r]}
         \/ Removed(r) /\ worktree' = worktree \ {job[r]}
  BY DEF RunStep, Resolved, EndsEarly, EnterLock, Synced, Added, SetupFails, Spawn, AgentExits,
     SettledKeeping, Settled, Removed

\* A run comes to a stage only from the one before it.
LEMMA StageMoves ==
  ASSUME TypeOK, AgentsFollowed, NEW r \in Runs, RunStep(r)
  PROVE  \A s \in Runs :
           /\ BeforeAdd(s)' => BeforeAdd(s)
           /\ at'[s] \in {"preparing", "reviewing"} =>
                at[s] \in {"preparing", "reviewing"} \/ (s = r /\ Added(r))
  <1> USE GoesFacts DEF Stages, BeforeAdd
  <1>1. CASE AgentExits(r)
    BY <1>1 DEF AgentExits, AgentsFollowed
  <1>2. CASE Added(r)
    BY <1>2 DEF Added
  <1>3. CASE ~AgentExits(r) /\ ~Added(r)
    BY <1>3 DEF RunStep, Resolved, EndsEarly, EnterLock, Synced, SetupFails, Spawn,
       SettledKeeping, Settled, Removed
  <1> QED BY <1>1, <1>2, <1>3

LEMMA FreshPathsStep ==
  ASSUME ~Racing, TypeOK, OneRunPerJob, FreshPaths, AgentsFollowed, [Next]_vars
  PROVE  FreshPaths'
  <1> USE DEF FreshPaths, TypeOK
  <1>1. ASSUME NEW j \in Jobs, Submit(j) PROVE FreshPaths'
    BY <1>1 DEF Submit, lockUsers, BeforeAdd
  <1>2. ASSUME NEW j \in Jobs, NEW r \in Runs, Start(r, j) PROVE FreshPaths'
    <2>1. at'[r] = "resolving" /\ \A s \in Runs \ {r} : at'[s] = at[s]
      BY <1>2, GoesFacts DEF Start, Stages
    <2>2. job'[r] = j /\ \A s \in Runs \ {r} : job'[s] = job[s]
      BY <1>2 DEF Start
    <2>3. r \notin verify' => j \notin worktree
      BY <1>2 DEF Start
    <2> QED BY <1>2, <2>1, <2>2, <2>3 DEF Start, BeforeAdd
  <1>3. ASSUME NEW r \in Runs, RunStep(r) PROVE FreshPaths'
    <2>1. \A s \in Runs : BeforeAdd(s)' => BeforeAdd(s)
      BY <1>3, StageMoves
    <2>2. CASE Added(r)
      <3>1. Active(r) /\ ~BeforeAdd(r)' /\ worktree' = worktree \cup {job[r]}
        BY <2>2, GoesFacts DEF Added, Active, BeforeAdd, Stages
      <3>2. \A s \in Runs \ {r} : BeforeAdd(s) => job[s] # job[r]
        BY <3>1 DEF OneRunPerJob, Active, BeforeAdd
      <3> QED BY <1>3, <2>1, <3>1, <3>2, RunKeeps DEF OneRunPerJob
    <2>3. CASE ~Added(r)
      <3>1. worktree' \subseteq worktree
        BY <1>3, <2>3, WorktreeMoves
      <3> QED BY <1>3, <2>1, <3>1, RunKeeps
    <2> QED BY <2>2, <2>3
  <1>4. CASE Stop \/ Exit
    BY <1>4 DEF Stop, Exit, lockUsers, BeforeAdd
  <1>5. CASE UNCHANGED vars
    BY <1>5 DEF vars, BeforeAdd
  <1> QED BY <1>1, <1>2, <1>3, <1>4, <1>5 DEF Next

\* A worktree is only removed by the one run of its review, before that run has
\* made it or when it is over.
LEMMA WorktreesStayStep ==
  ASSUME TypeOK, OneRunPerJob, WorktreesStay, AgentsFollowed, [Next]_vars
  PROVE  WorktreesStay'
  <1> USE DEF WorktreesStay, TypeOK
  <1>1. ASSUME NEW j \in Jobs, Submit(j) PROVE WorktreesStay'
    BY <1>1 DEF Submit, lockUsers
  <1>2. ASSUME NEW j \in Jobs, NEW r \in Runs, Start(r, j) PROVE WorktreesStay'
    BY <1>2, GoesFacts DEF Start, Stages
  <1>3. ASSUME NEW r \in Runs, RunStep(r) PROVE WorktreesStay'
    <2>1. \A s \in Runs \ {r} : Active(r) /\ Active(s) => job[s] # job[r]
      BY DEF OneRunPerJob
    <2>2. CASE Added(r)
      BY <1>3, <2>2, StageMoves, RunKeeps DEF Added
    <2>3. CASE Synced(r) \/ Removed(r)
      <3>1. /\ Active(r) /\ at'[r] \notin {"preparing", "reviewing"}
            /\ worktree \subseteq worktree' \cup {job[r]}
        BY <2>3, GoesFacts DEF Synced, Removed, Active, Stages
      <3> QED BY <1>3, <2>1, <2>3, <3>1, StageMoves, RunKeeps DEF Active, Synced, Removed, Added
    <2>4. CASE ~Added(r) /\ ~Synced(r) /\ ~Removed(r)
      BY <1>3, <2>4, StageMoves, WorktreeMoves, RunKeeps
    <2> QED BY <2>2, <2>3, <2>4
  <1>4. CASE Stop \/ Exit
    BY <1>4 DEF Stop, Exit, lockUsers
  <1>5. CASE UNCHANGED vars
    BY <1>5 DEF vars
  <1> QED BY <1>1, <1>2, <1>3, <1>4, <1>5 DEF Next

-----------------------------------------------------------------------------
(* The shutdown.                                                           *)

\* It reaches every agent there is, since its run is the one the review holds;
\* those to come are late.
LEMMA ToldStep ==
  ASSUME TypeOK, OneRunPerJob, AgentsFollowed, Told, [Next]_vars PROVE Told'
  <1> USE DEF Told
  <1>1. ASSUME NEW j \in Jobs, Submit(j) PROVE Told'
    BY <1>1 DEF Submit
  <1>2. ASSUME NEW j \in Jobs, NEW r \in Runs, Start(r, j) PROVE Told'
    BY <1>2 DEF Start
  <1>3. ASSUME NEW r \in Runs, RunStep(r) PROVE Told'
    <2>1. CASE Spawn(r)
      BY <2>1 DEF Spawn, TypeOK
    <2>2. CASE AgentExits(r)
      BY <2>2 DEF AgentExits
    <2>3. CASE ~Spawn(r) /\ ~AgentExits(r)
      BY <1>3, <2>3 DEF RunStep, Resolved, EndsEarly, EnterLock, Synced, Added, SetupFails,
         SettledKeeping, Settled, Removed
    <2> QED BY <2>1, <2>2, <2>3
  <1>4. CASE Stop
    <2>1. \A r \in agent : r \in Runs /\ Active(r)
      BY <1>4 DEF Stop, AgentsFollowed, Active, TypeOK
    <2> QED BY <1>4, <2>1 DEF Stop, OneRunPerJob
  <1>5. CASE Exit
    BY <1>5 DEF Exit
  <1>6. CASE UNCHANGED vars
    BY <1>6 DEF vars
  <1> QED BY <1>1, <1>2, <1>3, <1>4, <1>5, <1>6 DEF Next

-----------------------------------------------------------------------------
LEMMA AlwaysHolds == Spec => []Always
  <1>1. Init => Always
    BY TypeInit DEF Init, Always, HeadWorks, InGit, AgentsFollowed
  <1>2. Always /\ [Next]_vars => Always'
    BY TypeStep, HeadWorksStep, AgentsFollowedStep DEF Always
  <1> QED BY <1>1, <1>2, PTL DEF Spec

LEMMA Invariant == ASSUME ~Racing PROVE Spec => []IInv
  <1>1. Init /\ Always => IInv
    <2> SUFFICES ASSUME Init, Always PROVE IInv
      OBVIOUS
    <2>1. \A r \in Runs : at[r] = "idle"
      BY DEF Init
    <2> QED BY <2>1 DEF Init, IInv, OneRunPerJob, Active, FreshPaths, BeforeAdd, WorktreesStay, Told
  <1>2. IInv /\ Always' /\ [Next]_vars => IInv'
    BY OneRunPerJobStep, FreshPathsStep, WorktreesStayStep, ToldStep DEF Always, IInv
  <1> QED BY <1>1, <1>2, AlwaysHolds, PTL DEF Spec

\* Whatever resumes do, commands in the shared .git never overlap (withRepoLock
\* around syncRepo, addWorktree and removeWorktree).
THEOREM GitIsShared == Spec => []GitIsSerialized
  <1>1. Always => GitIsSerialized
    BY DEF Always, GitIsSerialized, HeadWorks, InGit
  <1> QED BY <1>1, AlwaysHolds, PTL

\* As long as no resume is put in the queue while its review runs, an agent has
\* its worktree to itself, commands in the shared .git never overlap, and a first
\* review finds its path free, whatever fails and whenever the server is stopped
\* (runReviewJob, runVerifyJob, withRepoLock).
THEOREM WorktreesArePrivate == ASSUME ~Racing PROVE Spec => []WorktreeIsPrivate
  <1>1. IInv => WorktreeIsPrivate
    <2> SUFFICES ASSUME IInv PROVE WorktreeIsPrivate
      OBVIOUS
    <2> USE DEF IInv, Always
    <2>1. GitIsSerialized
      BY DEF GitIsSerialized, HeadWorks, InGit
    <2>2. FreshPathIsFree
      BY DEF FreshPathIsFree, FreshPaths, BeforeAdd
    <2>3. ASSUME server # "down", NEW r \in agent
          PROVE  job[r] \in worktree /\ \A s \in agent : job[s] = job[r] => s = r
      <3>1. \A s \in agent : s \in Runs /\ at[s] = "reviewing"
        BY <2>3 DEF AgentsFollowed, TypeOK
      <3> QED BY <3>1 DEF WorktreesStay, OneRunPerJob, Active
    <2> QED BY <2>1, <2>2, <2>3 DEF WorktreeIsPrivate
  <1> QED BY <1>1, Invariant, PTL

\* Under the same condition, every agent that outlives a graceful shutdown was
\* told to stop by it or started after it (shutdown, runProviderProcess).
THEOREM ShutdownReachesAgents == ASSUME ~Racing PROVE Spec => []MissedAgentsAreLate
  <1>1. IInv => MissedAgentsAreLate
    BY DEF IInv, Told, MissedAgentsAreLate
  <1> QED BY <1>1, Invariant, PTL

-----------------------------------------------------------------------------
(* The lock.                                                               *)

\* Where a run is, as the lock sees it.
LockStage == [r \in Runs |->
                IF at[r] \in {"wantSetup", "wantCleanup"} THEN "waiting"
                ELSE IF InGit(r) THEN "inside" ELSE "idle"]

LEMMA LockStep ==
  ASSUME TypeOK, AgentsFollowed, [Next]_vars
  PROVE  [Lock!Next]_(Lock!lockVars)
  <1> USE DEF Lock!lockVars, InGit
  <1>1. ASSUME NEW r \in Runs, RunStep(r) PROVE [Lock!Next]_(Lock!lockVars)
    <2>1. CASE Resolved(r) \/ Settled(r) \/ EnterLock(r) \/ Added(r) \/ SetupFails(r) \/ Removed(r)
      <3>1. Lock!Request(r, Repo) \/ Lock!Enter(r, Repo) \/ Lock!Leave(r, Repo)
        BY <2>1 DEF Resolved, Settled, EnterLock, Added, SetupFails, Removed
      <3> QED BY <3>1 DEF Lock!Next
    <2>2. CASE EndsEarly(r) \/ Synced(r) \/ Spawn(r) \/ SettledKeeping(r) \/ AgentExits(r)
      <3>1. line' = line
        BY <2>2 DEF EndsEarly, Synced, Spawn, SettledKeeping, AgentExits
      <3>2. LockStage' = LockStage
        <4> USE GoesFacts DEF Stages
        <4>1. CASE AgentExits(r)
          BY <4>1 DEF AgentExits, AgentsFollowed, LockStage
        <4>2. CASE EndsEarly(r) \/ Synced(r) \/ Spawn(r) \/ SettledKeeping(r)
          BY <4>2 DEF EndsEarly, Synced, Spawn, SettledKeeping, LockStage
        <4> QED BY <2>2, <4>1, <4>2
      <3> QED BY <3>1, <3>2 DEF LockStage
    <2> QED BY <1>1, <2>1, <2>2 DEF RunStep
  <1>2. ASSUME NEW j \in Jobs, NEW r \in Runs, Start(r, j) PROVE UNCHANGED Lock!lockVars
    <2>1. line' = line /\ LockStage' = LockStage
      BY <1>2, GoesFacts DEF Start, Stages, LockStage
    <2> QED BY <2>1 DEF LockStage
  <1>3. CASE UNCHANGED <<at, line>>
    BY <1>3
  <1>4. (\E j \in Jobs : Submit(j)) \/ Stop \/ Exit \/ UNCHANGED vars => UNCHANGED <<at, line>>
    BY DEF Submit, Stop, Exit, lockUsers, vars
  <1> QED BY <1>1, <1>2, <1>3, <1>4 DEF Next

\* The runs ask for the lock, take it and hand it on only as a lock that serves in
\* call order allows, which is what withRepoLock is (FifoLock; RepoLock_proofs).
THEOREM RunsUseTheLock == Spec => Lock!Spec
  <1>1. Init => Lock!Init
    <2> SUFFICES ASSUME Init PROVE Lock!Init
      OBVIOUS
    <2>1. \A r \in Runs : at[r] = "idle"
      BY DEF Init
    <2> QED BY <2>1 DEF Init, Lock!Init
  <1>2. Always /\ [Next]_vars => [Lock!Next]_(Lock!lockVars)
    BY LockStep DEF Always
  <1> QED BY <1>1, <1>2, AlwaysHolds, PTL DEF Spec, Lock!Spec
=============================================================================

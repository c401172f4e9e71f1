------------------------------ MODULE RepoLock ------------------------------
(***************************************************************************)
(* withRepoLock of lib/repo-lock.js: per-repository serialization by a     *)
(* chain of promises.                                                      *)
(*                                                                         *)
(* A task is one call of withRepoLock.  The call chains it behind the      *)
(* promise found in `tails`; its function starts once that promise has     *)
(* settled; when the function has returned or thrown, the finally block    *)
(* updates the two Maps and only then does the task's own promise settle,  *)
(* which is what a later task waits for.  `line` is a history variable:    *)
(* the calls of each repository that have not settled, in call order.  The *)
(* code has nothing like it; no guard below reads it.                      *)
(***************************************************************************)
EXTENDS Integers, Sequences

CONSTANTS
    Tasks,   \* calls of withRepoLock
    Keys,    \* repositories
    NoTask     \* no promise

ASSUME NoneAssumption == NoTask \notin Tasks

ASSUME KeysAssumption == Keys # {}

VARIABLES
    tails,     \* tails[k]: the task whose promise is registered for k, or NoTask
    holders,   \* holders[k]: calls queued or running (0: no entry in the Map)
    pc,        \* where each task is
    key,       \* the repository each task was called for
    prev,      \* the task each task is chained behind, or NoTask
    line       \* history

chainVars == <<tails, holders, pc, key, prev, line>>

Stages == {"idle", "queued", "inside", "returned", "threw", "settled"}

LockTypeOK ==
    /\ tails \in [Keys -> Tasks \cup {NoTask}]
    /\ holders \in [Keys -> Nat]
    /\ pc \in [Tasks -> Stages]
    /\ key \in [Tasks -> Keys]
    /\ prev \in [Tasks -> Tasks \cup {NoTask}]
    /\ line \in [Keys -> Seq(Tasks)]

\* Called, and its promise has not settled.
Live(t) == pc[t] \in {"queued", "inside", "returned", "threw"}

\* The function passed to withRepoLock is running.
Inside(t) == pc[t] = "inside"

LockInit ==
    /\ tails = [k \in Keys |-> NoTask]
    /\ holders = [k \in Keys |-> 0]
    /\ pc = [t \in Tasks |-> "idle"]
    /\ key = [t \in Tasks |-> CHOOSE k \in Keys : TRUE]
    /\ prev = [t \in Tasks |-> NoTask]
    /\ line = [k \in Keys |-> <<>>]

-----------------------------------------------------------------------------
\* withRepoLock(k, fn), up to its return.
Register(t, k) ==
    /\ pc[t] = "idle"
    /\ pc' = [pc EXCEPT ![t] = "queued"]
    /\ key' = [key EXCEPT ![t] = k]
    /\ prev' = [prev EXCEPT ![t] = tails[k]]
    /\ tails' = [tails EXCEPT ![k] = t]
    /\ holders' = [holders EXCEPT ![k] = @ + 1]
    /\ line' = [line EXCEPT ![k] = Append(@, t)]

\* Defect: the function is started without waiting for the previous promise.
Begin_NoWait(t) ==
    /\ pc[t] = "queued"
    /\ pc' = [pc EXCEPT ![t] = "inside"]
    /\ UNCHANGED <<tails, holders, key, prev, line>>

\* prev.then(fn, fn): the previous promise is gone or has settled.
Begin(t) ==
    /\ pc[t] = "queued"
    /\ prev[t] # NoTask => pc[prev[t]] = "settled"
    /\ pc' = [pc EXCEPT ![t] = "inside"]
    /\ UNCHANGED <<tails, holders, key, prev, line>>

\* The function returns, or throws (a failed fetch, say).
Finish(t) ==
    /\ Inside(t)
    /\ \E how \in {"returned", "threw"} : pc' = [pc EXCEPT ![t] = how]
    /\ UNCHANGED <<tails, holders, key, prev, line>>

\* Defects of the finally block: the tail is cleared although a later call
\* registered its own; never cleared; the block is not reached after a throw.
Release_ClearsAnyTail(t) ==
    /\ pc[t] \in {"returned", "threw"}
    /\ pc' = [pc EXCEPT ![t] = "settled"]
    /\ holders' = [holders EXCEPT ![key[t]] = @ - 1]
    /\ tails' = [tails EXCEPT ![key[t]] = NoTask]
    /\ line' = [line EXCEPT ![key[t]] = Tail(@)]
    /\ UNCHANGED <<key, prev>>

Release_KeepsTail(t) ==
    /\ pc[t] \in {"returned", "threw"}
    /\ pc' = [pc EXCEPT ![t] = "settled"]
    /\ holders' = [holders EXCEPT ![key[t]] = @ - 1]
    /\ line' = [line EXCEPT ![key[t]] = Tail(@)]
    /\ UNCHANGED <<tails, key, prev>>

Release_OnlyAfterReturn(t) ==
    /\ pc[t] = "returned"
    /\ pc' = [pc EXCEPT ![t] = "settled"]
    /\ holders' = [holders EXCEPT ![key[t]] = @ - 1]
    /\ tails' = [tails EXCEPT ![key[t]] = IF @ = t THEN NoTask ELSE @]
    /\ line' = [line EXCEPT ![key[t]] = Tail(@)]
    /\ UNCHANGED <<key, prev>>

\* catch and finally: the Maps are updated and the task's promise settles,
\* the same way whether the function returned or threw.
Release(t) ==
    /\ pc[t] \in {"returned", "threw"}
    /\ pc' = [pc EXCEPT ![t] = "settled"]
    /\ holders' = [holders EXCEPT ![key[t]] = @ - 1]
    /\ tails' = [tails EXCEPT ![key[t]] = IF @ = t THEN NoTask ELSE @]
    /\ line' = [line EXCEPT ![key[t]] = Tail(@)]
    /\ UNCHANGED <<key, prev>>

\* Not a step of the code: a task nobody is chained behind any more may stand
\* for a later call, so that behaviours with finitely many tasks go on.
Reuse(t) ==
    /\ pc[t] = "settled"
    /\ \A u \in Tasks : pc[u] = "queued" => prev[u] # t
    /\ pc' = [pc EXCEPT ![t] = "idle"]
    /\ prev' = [prev EXCEPT ![t] = NoTask]
    /\ UNCHANGED <<tails, holders, key, line>>

TaskStep(t) == Begin(t) \/ Finish(t) \/ Release(t)

LockNext ==
    \E t \in Tasks :
        \/ \E k \in Keys : Register(t, k)
        \/ TaskStep(t)
        \/ Reuse(t)

LockSpec == LockInit /\ [][LockNext]_chainVars

\* Promise callbacks always run; that the function settles is an assumption
\* about the git commands it awaits.
FairLockSpec == LockSpec /\ \A t \in Tasks : WF_chainVars(TaskStep(t))

-----------------------------------------------------------------------------
(* Properties.                                                             *)

\* Two functions never run on one repository at the same time, however calls,
\* completions and failures interleave.
MutualExclusion ==
    \A t, u \in Tasks : Inside(t) /\ Inside(u) /\ key[t] = key[u] => t = u

\* repoLockBusy(k) is true exactly while some call for k owns the repository
\* or waits for it.
BusyHintExact ==
    \A k \in Keys : holders[k] > 0 <=> \E t \in Tasks : Live(t) /\ key[t] = k

\* A failed function does not wedge those behind it: every call settles.
EveryCallSettles == \A t \in Tasks : pc[t] = "queued" ~> pc[t] = "settled"

\* The chain of promises is a first-come first-served lock: a task holds the
\* repository from the start of its function until its promise settles.
Lock == INSTANCE FifoLock WITH
            stage <- [t \in Tasks |->
                        CASE pc[t] = "queued" -> "waiting"
                          [] pc[t] \in {"inside", "returned", "threw"} -> "inside"
                          [] OTHER -> "idle"]

ServesInCallOrder == Lock!Spec

-----------------------------------------------------------------------------
(* Why: the promises of a repository form one chain.                       *)

\* The line holds exactly the live tasks of its repository, each once.
LineIsLive ==
    /\ \A k \in Keys : \A i \in 1..Len(line[k]) :
          Live(line[k][i]) /\ key[line[k][i]] = k
    /\ \A k \in Keys : \A i, j \in 1..Len(line[k]) :
          line[k][i] = line[k][j] => i = j
    /\ \A t \in Tasks : Live(t) =>
          \E i \in 1..Len(line[key[t]]) : line[key[t]][i] = t

\* Everyone behind the head waits for the promise of the task just ahead.
BehindWaits ==
    \A k \in Keys : \A i \in 2..Len(line[k]) :
        pc[line[k][i]] = "queued" /\ prev[line[k][i]] = line[k][i - 1]

\* The Maps describe the chain: its last promise and its length.  So a
\* repository nobody uses has no entry left in either.
MapsMatchLine ==
    \A k \in Keys :
        /\ tails[k] = IF line[k] = <<>> THEN NoTask ELSE line[k][Len(line[k])]
        /\ holders[k] = Len(line[k])

\* At every moment the promises registered for a repository form one chain,
\* in call order, that starts at the task which owns the repository and ends
\* at the registered tail (the promise bookkeeping of withRepoLock).
OneChainPerKey == LineIsLive /\ BehindWaits /\ MapsMatchLine

=============================================================================

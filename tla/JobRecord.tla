----------------------------- MODULE JobRecord ------------------------------
(***************************************************************************)
(* One review's record in memory and its file data/jobs/<id>.json, across  *)
(* crashes and restarts of the server (persistJob, pushEvent, DELETE,      *)
(* hydrateJobs of server.js).                                              *)
(*                                                                         *)
(* persistJob starts an fsp.writeFile and awaits nothing, so several file  *)
(* operations of one record may be in flight.  Node serves them on a       *)
(* thread pool, in any order; a write first truncates the file and then    *)
(* fills it, through a descriptor that a removal leaves dangling.  Two     *)
(* writes with the file open together can leave a mixture of their texts.  *)
(* `ops` lists the operations in flight in the order they were issued.     *)
(*                                                                         *)
(* One resume and one approval may be between their check and their write  *)
(* (two resumes of one review are in JobLifecycle).                        *)
(***************************************************************************)
EXTENDS Integers, Sequences, SequencesExt

CONSTANTS
    Pids,      \* process ids the agent of this review may get
    NoPid,
    Absent,    \* there is no file
    Torn,      \* the file was truncated and not filled
    Garbled,   \* the file is a mixture of two writes
    MaxOps,    \* bound on the file operations in flight
    InOrder    \* TRUE: the thread pool happens to serve them in order

ASSUME NoPidAssumption == NoPid \notin Pids

States == {"queued", "running", "done", "failed", "interrupted"}

Records == [state : States, pid : Pids \cup {NoPid}]

\* JSON.parse fails on the last two.
NoRecord == {Absent, Torn, Garbled}

ASSUME FileAssumption ==
    /\ NoRecord \cap Records = {}
    /\ Absent # Torn /\ Absent # Garbled /\ Torn # Garbled

ASSUME BoundsAssumption == MaxOps \in Nat /\ InOrder \in BOOLEAN

VARIABLES
    up,       \* the server runs
    listed,   \* the job is in the `jobs` Map
    job,      \* the job object: its state and agentPid
    held,     \* what the queue does for it
    late,     \* handlers that have looked at the job and not yet written to it
    alive,    \* agent processes of this job that exist
    ops,      \* file operations in flight
    disk,     \* the file
    current,  \* history: what last took effect on the file is of the last turn
              \* of the server that issued any operation
    stale,    \* history: a handler wrote to the job after it had been removed
    removed,  \* history: the host removed the review and the file is gone
    escaped   \* history: agents alive at a crash that left a file behind the record

vars == <<up, listed, job, held, late, alive, ops, disk,
          current, stale, removed, escaped>>

Ops == [kind : {"write", "rm"}, snap : Records, newest : BOOLEAN, mixed : BOOLEAN,
        stage : {"issued", "open", "dangling"}]

TypeOK ==
    /\ up \in BOOLEAN /\ listed \in BOOLEAN
    /\ job \in Records
    /\ held \in {"no", "waiting", "running"}
    /\ late \in SUBSET {"resume", "approve"}
    /\ alive \in SUBSET Pids
    /\ ops \in Seq(Ops)
    /\ disk \in Records \cup NoRecord
    /\ current \in BOOLEAN /\ stale \in BOOLEAN /\ removed \in BOOLEAN
    /\ escaped \in SUBSET Pids

IsActive(s) == s \in {"queued", "running"}

Init ==
    /\ up = TRUE /\ listed = FALSE
    /\ job = [state |-> "done", pid |-> NoPid]
    /\ held = "no" /\ late = {} /\ alive = {}
    /\ ops = <<>> /\ disk = Absent
    /\ current = TRUE /\ stale = FALSE /\ removed = FALSE /\ escaped = {}

-----------------------------------------------------------------------------
(* Issuing file operations.                                                *)

Issued(kind, s) ==
    [kind |-> kind, snap |-> s, newest |-> TRUE, mixed |-> FALSE, stage |-> "issued"]

Aged(queue) == [i \in DOMAIN queue |-> [queue[i] EXCEPT !.newest = FALSE]]

\* n writes of the record r, issued in one turn; none of them waits for another.
Writes(n, r) ==
    /\ Len(ops) + n <= MaxOps
    /\ ops' = IF n = 0 THEN ops ELSE Aged(ops) \o [i \in 1..n |-> Issued("write", r)]
    /\ current' = (current /\ n = 0)
    /\ UNCHANGED disk

\* pushEvent and the queue's "state" listener drop what they get for a job
\* that is not in the Map.
WritesIfListed(n, r) == Writes(IF listed THEN n ELSE 0, r)

-----------------------------------------------------------------------------
(* The job.                                                                *)

\* enqueueReview, with the "queued" event of Queue.enqueue: a fresh id.
Create ==
    /\ up /\ ~listed /\ current /\ disk = Absent /\ ~removed
    /\ listed' = TRUE /\ held' = "waiting"
    /\ job' = [state |-> "queued", pid |-> NoPid]
    /\ Writes(2, job')
    /\ UNCHANGED <<up, late, alive, stale, removed, escaped>>

\* _runJob up to the runner's first await.
Start ==
    /\ up /\ held = "waiting"
    /\ held' = "running"
    /\ job' = IF listed THEN [job EXCEPT !.state = "running"] ELSE job
    /\ WritesIfListed(1, job')
    /\ UNCHANGED <<up, listed, late, alive, stale, removed, escaped>>

\* A "phase" or "summary" event.
Phase ==
    /\ up /\ held = "running" /\ listed
    /\ Writes(1, job)
    /\ UNCHANGED <<up, listed, job, held, late, alive, stale, removed, escaped>>

\* runProviderProcess sets the pid and emits the event that persists it.
AgentStarts(p) ==
    /\ up /\ held = "running" /\ job.pid = NoPid /\ p \notin alive
    /\ job' = [job EXCEPT !.pid = p]
    /\ alive' = alive \cup {p}
    /\ WritesIfListed(1, job')
    /\ UNCHANGED <<up, listed, held, late, stale, removed, escaped>>

\* The exit handler clears the pid and persists nothing.
AgentExits(p) ==
    /\ p \in alive
    /\ alive' = alive \ {p}
    /\ job' = IF up /\ job.pid = p THEN [job EXCEPT !.pid = NoPid] ELSE job
    /\ UNCHANGED <<up, listed, held, late, ops, disk, current, stale, removed, escaped>>

\* Defects: a skipped run ends in a state of its own; the terminal state is
\* not persisted, or is set between the two writes.
Finish_Skipped(s) ==
    /\ up /\ held = "running" /\ job.pid = NoPid
    /\ held' = "no"
    /\ job' = IF listed THEN [job EXCEPT !.state = "skipped"] ELSE job
    /\ WritesIfListed(2, job')
    /\ UNCHANGED <<up, listed, late, alive, stale, removed, escaped>>

Finish_NotPersisted(s) ==
    /\ up /\ held = "running" /\ job.pid = NoPid
    /\ held' = "no"
    /\ job' = IF listed THEN [job EXCEPT !.state = s] ELSE job
    /\ Writes(0, job')
    /\ UNCHANGED <<up, listed, late, alive, stale, removed, escaped>>

Finish_PersistsFirst(s) ==
    /\ up /\ held = "running" /\ job.pid = NoPid /\ listed /\ Len(ops) + 2 <= MaxOps
    /\ held' = "no"
    /\ job' = [job EXCEPT !.state = s]
    /\ ops' = Aged(ops) \o <<Issued("write", job), Issued("write", job')>>
    /\ current' = FALSE
    /\ UNCHANGED <<up, listed, late, alive, disk, stale, removed, escaped>>

\* The runner settles: the "state" listener and the event both persist.
Finish(s) ==
    /\ up /\ held = "running" /\ job.pid = NoPid
    /\ held' = "no"
    /\ job' = IF listed THEN [job EXCEPT !.state = s] ELSE job
    /\ WritesIfListed(2, job')
    /\ UNCHANGED <<up, listed, late, alive, stale, removed, escaped>>

-----------------------------------------------------------------------------
(* Handlers that await between their check and their write.                *)

\* resumeReviewJob and the approve route up to their first await.
Ask(handler) ==
    /\ up /\ listed /\ handler \notin late
    /\ handler = "resume" => ~IsActive(job.state)
    /\ late' = late \cup {handler}
    /\ UNCHANGED <<up, listed, job, held, alive, ops, disk, current, stale, removed, escaped>>

\* GitHub or a gate refused.
Refused(handler) ==
    /\ up /\ handler \in late
    /\ late' = late \ {handler}
    /\ UNCHANGED <<up, listed, job, held, alive, ops, disk, current, stale, removed, escaped>>

\* resumeReviewJob after its awaits: persistJob, then the "queued" event.
ResumeCommit ==
    /\ up /\ "resume" \in late
    /\ late' = late \ {"resume"}
    /\ job' = [job EXCEPT !.state = "queued"]
    /\ held' = "waiting"
    /\ Writes(IF listed THEN 2 ELSE 1, job')
    /\ stale' = (stale \/ ~listed)
    /\ UNCHANGED <<up, listed, alive, removed, escaped>>

\* The approve route after its awaits, allowed or refused by the gate.
ApproveCommit ==
    /\ up /\ "approve" \in late
    /\ late' = late \ {"approve"}
    /\ Writes(1, job)
    /\ stale' = (stale \/ ~listed)
    /\ UNCHANGED <<up, listed, job, held, alive, removed, escaped>>

\* DELETE /api/jobs/:id
Delete ==
    /\ up /\ listed /\ ~IsActive(job.state)
    /\ listed' = FALSE
    /\ Len(ops) < MaxOps
    /\ ops' = Append(Aged(ops), Issued("rm", job))
    /\ current' = FALSE
    /\ UNCHANGED <<up, job, held, late, alive, disk, stale, removed, escaped>>

-----------------------------------------------------------------------------
(* The thread pool.                                                        *)

MayProceed(i) == InOrder => i = 1

\* open(2) with O_TRUNC; from here on two open writes may spoil each other.
Open(i) ==
    /\ MayProceed(i) /\ ops[i].kind = "write" /\ ops[i].stage = "issued"
    /\ LET others == {k \in DOMAIN ops : ops[k].stage = "open"} IN
          ops' = [k \in DOMAIN ops |->
                    CASE k = i -> [ops[k] EXCEPT !.stage = "open", !.mixed = others # {}]
                      [] k \in others -> [ops[k] EXCEPT !.mixed = TRUE]
                      [] OTHER -> ops[k]]
    /\ disk' = Torn /\ current' = FALSE
    /\ UNCHANGED removed

\* The last of the data is written.  If another write had the file open
\* meanwhile, a longer text of that one may reach beyond it.
Land(i) ==
    /\ MayProceed(i) /\ ops[i].stage \in {"open", "dangling"}
    /\ IF ops[i].stage = "dangling" THEN UNCHANGED <<disk, current>>
       ELSE /\ disk' \in {ops[i].snap} \cup (IF ops[i].mixed THEN {Garbled} ELSE {})
            /\ current' = ops[i].newest
    /\ ops' = RemoveAt(ops, i)
    /\ UNCHANGED removed

\* The route answers once this is done.
Unlink(i) ==
    /\ MayProceed(i) /\ ops[i].kind = "rm"
    /\ disk' = Absent /\ current' = ops[i].newest
    /\ removed' = TRUE
    /\ ops' = RemoveAt([k \in DOMAIN ops |->
                          IF ops[k].stage = "open"
                          THEN [ops[k] EXCEPT !.stage = "dangling"] ELSE ops[k]], i)

\* The operation fails; both callers ignore it.
Fail(i) ==
    /\ MayProceed(i)
    /\ ops' = RemoveAt(ops, i)
    /\ UNCHANGED <<disk, current, removed>>

FileStep ==
    /\ up
    /\ \E i \in DOMAIN ops : Open(i) \/ Land(i) \/ Unlink(i) \/ Fail(i)
    /\ UNCHANGED <<up, listed, job, held, late, alive, stale, escaped>>

-----------------------------------------------------------------------------
(* Crash and restart.                                                      *)

FileIsOpen == \E i \in DOMAIN ops : ops[i].stage = "open"

\* The process dies (or exits), perhaps in the middle of a write.  `listed` and
\* `job` keep, as history, what the host was last shown.
Crash ==
    /\ up
    /\ up' = FALSE /\ held' = "no" /\ late' = {} /\ ops' = <<>>
    /\ disk' \in {disk} \cup (IF FileIsOpen THEN {Torn} ELSE {})
    /\ current' = (current /\ ~FileIsOpen)
    /\ escaped' = IF current' /\ disk' # Garbled /\ ~stale THEN escaped ELSE escaped \cup alive
    /\ UNCHANGED <<listed, job, alive, stale, removed>>

\* hydrateJobs: a file that does not parse is skipped; a review in one of the
\* states `cut` is interrupted and its agent, if it still exists, gets SIGTERM.
Boot(cut, reap) ==
    /\ ~up /\ up' = TRUE
    /\ listed' = (disk \notin NoRecord)
    /\ LET wasCut == listed' /\ disk.state \in cut IN
          /\ job' = CASE wasCut -> [state |-> "interrupted", pid |-> NoPid]
                      [] listed' /\ ~wasCut -> disk
                      [] OTHER -> job
          /\ alive' = IF wasCut /\ reap THEN alive \ {disk.pid} ELSE alive
          /\ Writes(IF wasCut THEN 1 ELSE 0, job')
    /\ UNCHANGED <<held, late, stale, removed, escaped>>

\* Defects: an orphan is not reaped; a review that only waited keeps its
\* state; a review that had ended is interrupted too.
Restart_NoReap == Boot({"queued", "running"}, FALSE)

Restart_RunningOnly == Boot({"running"}, TRUE)

Restart_InterruptsAll == Boot(States, TRUE)

Restart == Boot({"queued", "running"}, TRUE)

-----------------------------------------------------------------------------
Next ==
    \/ Create \/ Start \/ Phase \/ Finish("done") \/ Finish("failed")
    \/ \E p \in Pids : AgentStarts(p) \/ AgentExits(p)
    \/ \E handler \in {"resume", "approve"} : Ask(handler) \/ Refused(handler)
    \/ ResumeCommit \/ ApproveCommit \/ Delete
    \/ FileStep \/ Crash \/ Restart

Spec == Init /\ [][Next]_vars

-----------------------------------------------------------------------------
(* Properties.                                                             *)

\* Whatever order the thread pool serves them in: once an operation of the last
\* turn is the last to have taken effect and nobody has the file open, the file
\* shows the review as the server does, same state and the pid of the agent that
\* runs, and there is none if there is no review; or it is the mixture that two
\* overlapping writes have left.  The persist points of pushEvent and of the
\* queue's listener miss no state a restart would need, and the writes one turn
\* issues side by side agree on it.
DiskCatchesUp ==
    up /\ current /\ ~FileIsOpen /\ ~stale =>
        \/ disk = Garbled
        \/ ~listed /\ disk = Absent
        \/ /\ listed /\ disk \in Records
           /\ disk.state = job.state
           /\ job.pid # NoPid => disk.pid = job.pid

\* A review shown as queued or running is in the hands of this server's
\* queue, across any number of crashes: none is left waiting for a runner
\* that died with the last process.
ActiveIsRunHere == up /\ listed /\ IsActive(job.state) => held # "no"

\* A restart after a crash at any moment: if the file was left to an operation
\* of the server's last turn, overlapping or not, the review is back, ended the
\* way it had ended, or interrupted if it was active.  Only a file that
\* overlapping writes have garbled is skipped, and the review with it, however
\* long ago they completed.
RestartKeepsReview ==
    [][~up /\ up' /\ current /\ ~stale /\ listed
         => \/ disk = Garbled /\ ~listed'
            \/ /\ listed'
               /\ job'.state = IF IsActive(job.state) THEN "interrupted" ELSE job.state]_vars

\* "Load persisted jobs into memory on boot so the UI shows history across
\* restarts": what the server has persisted, with nothing left in flight that
\* could hide it, a restart shows.  (Not so where writes overlapped.)
HistoryIsShown ==
    [][~up /\ up' /\ current /\ ~stale /\ listed => listed']_vars

\* After a restart every agent that still runs is the one this server
\* started, save those alive when a crash left a file that was behind the
\* record or garbled (their pid may not be in it).
OrphansAreReaped ==
    up => \A p \in alive : p = job.pid \/ p \in escaped

\* "Remove a finished review from the list, and from disk so it stays gone
\* across a restart": once the file has been removed, the review never comes
\* back into the list.
StaysGone == removed => ~listed

\* A server that has started again is rid of what the last one had under way: no
\* row waits for a runner of then, no agent of then is left.
RestartTakesOver == TypeOK /\ ActiveIsRunHere /\ OrphansAreReaped

=============================================================================

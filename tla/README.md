# Verification of PRSnooze

PRSnooze reviews GitHub pull requests: a Node.js server takes a pull request,
queues a review, checks the repository out into a worktree of its own, lets a
coding agent (Claude Code or Codex) work there, and keeps a record of what came
of it.  This directory holds TLA+ models of that server, TLC configurations that
check them on small instances, and proofs of the main results for every size of
instance.  Paths below are those of the repository.

## 1. The system

| Component (source) | State | Operations | What is hard | What makes it correct |
|---|---|---|---|---|
| Queue (`lib/queue.js`) | `pending`, `active` (Map by job id), `concurrency` | `enqueue`, `setConcurrency`, `_drain`, end of a runner | slots, wake-ups, a limit that changes, a job held twice | no lost wake-up, no leaked slot, limit at every start, FIFO |
| Repository lock (`lib/repo-lock.js`) | `tails`, `holders` per repository | `withRepoLock`, `repoLockBusy` | a chain of promises that must survive failures and forget idle keys | mutual exclusion, order of calls, exact busy hint |
| Review records (`server.js`) | `jobs`, each with state, events, process id | submit, resume, remove, approve, events of the queue | checks before an await, writes after it | a row shown as active is in the queue's hands; nothing in the queue is without a row |
| Files of the records (`server.js`) | `data/jobs/<id>.json` | `persistJob`, removal, `hydrateJobs` | unawaited writes in a thread pool, crashes at any point | the file catches up with the record, and a restart takes over what it shows: no review is lost and no agent left, unless overlapping writes have garbled the file |
| Runs (`lib/review-job.js`, `lib/git-ops.js`) | worktree, agent process, controller | resolve, sync, add worktree, agent, settle, remove worktree | lock and failures on every path, shutdown in between | git is serialized, the worktree is private, every run ends |
| Mention watch (`lib/mention-watch.js`) | clock `since`, handled and pending comments, a file | `configure`, `pollOnce` | late search results, refusals, a poll that fails half-way, restarts | every mention is acted on, once |
| Auto-resume (`lib/auto-resume.js`) | timer, pass in progress, a marker on each review | `configure`, `pollOnce` | marker and resume are two steps; resumes by hand, removals in between | each push to an open pull request nobody has approved is followed up, once; checks never cease |
| Pull request state (`server.js`, `lib/pr-state-store.js`) | cache, probe in flight, store | request, forced refresh, background refresh, approval | callers that join an old probe; forgetting against a probe in flight | bounded age, the store never goes back |
| Admission (`server.js`, `lib/admission-policy.js`) | settings, readings of model and usage | `enforceAdmission` | decided across awaits, on readings shared with others | who is let in met the conditions about when he asked |
| Decisions over GitHub's answers (`lib/github.js`) | none | `assessResumability`, `resumeGate`, `ciGate`, `outcomeFromOwnPosts` | what GitHub shows by the time it is asked; lookups that fail | an approval is withheld unless CI is known sound; an outcome claims what is there |
| Approval gate (`lib/approval-gate.js`) | none | `assessForcedApproval` | severity in free text, state of threads, a head that moves | no blocker that could be read is approved over, and nothing else is refused |
| Settings, sessions, limiters (`lib/instance-settings.js`, `lib/settings-sessions.js`, `lib/remote-api.js`) | settings file, sessions, attempts per address | save, issue, valid, revoke, check, failed | overlapping attempts, expiry, restart under another password, writes that fail | wrong passwords keep to the pace of the locks; a session was earned |
| Usage and model readings (`lib/claude-usage.js`, `lib/claude-model.js`) | cache, reading in flight | `getUsage`, `getModel` | forced readings that join an old one, stale fall-backs | no stale reading admits a review |
| Workspace trust (`lib/claude-trust.js`) | a lock directory, another program's file | `ensureWorkspaceTrusted` | stale locks | no update of the file is lost |
| Event stream and page (`server.js`, `public/app.js`) | subscribers, rows of the page | SSE replay, WebSocket snapshots | replay, reconnects, two channels | the page converges to the record |
| Remote API and `snooze` (`lib/remote-api.js`, `bin/snooze`, `lib/snooze-client.js`) | configuration of the client | review, resume, status | retries, choice of a server | a review is submitted once |
| Agents (`lib/claude-runner.js`, `lib/providers/`) | output buffer, last result and message | spawn, read lines, exit | output cut anywhere, an exit that awaits | all that was said is heard once, in order, before the run ends |
| Skills and prompt (`lib/skill-resolver.js`, `lib/claude-runner.js`) | files of base branch, pull request and host | resolve, build the prompt | who may say how a review is done | the pull request has no say |
| Identity, launcher (`lib/instance*.js`, `bin/`) | files read at the start | start, install | processes | - |

Everything in the server runs in one Node process.  Code between two awaits is
atomic, so an action of a model is a stretch of a handler from one await to the
next, and the interleavings are those of handlers at their awaits.  Two things
run outside: the thread pool that serves file operations, and the child
processes (`gh`, `git`, the agents).

Interactions: HTTP handlers, mention watch and auto-resume change records and
call `queue.enqueue`; the queue calls the runner and reports by its `job` and
`state` events; listeners in `server.js` change the record, persist it and
broadcast; runs take the repository lock around git and spawn an agent; an
approval drops the cached pull request state; auto-resume reads the stored one.

`PROJECT.json` lists under "hazards" each place where this can go wrong in a way
a test would hardly reach, with the properties that watch over it.

## 2. The modules

| Module | Models | Uses |
|---|---|---|
| `ReviewQueue` | `lib/queue.js` | |
| `FifoLock` | what `withRepoLock` promises | |
| `RepoLock` | `lib/repo-lock.js`, promise by promise | `FifoLock` (refined) |
| `JobLifecycle` | records and handlers of `server.js` in memory | `ReviewQueue` (its actions are joined with the listeners) |
| `JobRecord` | one record and its file, crashes, restarts | |
| `ReviewRun` | runs, worktrees, agents, shutdown | `FifoLock` (instead of `RepoLock`, which implements it) |
| `MentionWatch`, `MCMentionWatch` | `lib/mention-watch.js` | |
| `AutoResume` | `lib/auto-resume.js` | |
| `PrStateCache` | cache, probe, store, approval | |
| `PrReading` | decisions over GitHub's answers (`lib/github.js`, `lib/review-job.js`), as operators | |
| `ApprovalGate` | `lib/approval-gate.js`, as operators | |
| `ReviewPrompt` | skill precedence, approval policy and blocks of the prompts, as operators | |
| `Approval`, `MCApproval` | reviews of one pull request, the owner's approval, GitHub | the three modules above |
| `LiveView`, `MCLiveView` | one review as a page shows it, and what the server sends | |
| `TrustLock` | `lib/claude-trust.js` against Claude Code | |
| `Access` | limiter and sessions of the settings | |
| `Admission` | `enforceAdmission`, `getUsage`, `getModel` | |
| `FollowUp` | the note and the mode of resumes of one review | |
| `AgentRun` | reading and ending of an agent's process | |
| `Briefing` | skill files that change, and the prompt they give | `ReviewPrompt` |
| `MCHost` | the six modules above in one run | each as an INSTANCE |
| `Shared_proofs` | proofs about what reviews share: queue, lock, state of pull requests, the page | `ReviewQueue`, `RepoLock`, `PrStateCache`, `LiveView`, TLAPS |
| `JobLifecycle_proofs`, `JobRecord_proofs`, `ReviewRun_proofs`, `MentionWatch_proofs`, `AutoResume_proofs`, `Approval_proofs` | proofs about the module each is named after | TLAPS |
| `Host_proofs` | proofs about the six parts of the host | `MCHost`, TLAPS |

Each module's type invariant is `TypeOK` (with a prefix in the queue, the lock and
the page, which one module of proofs extends together).  The runs
check it as a conjunct of an invariant of the module, so that a run's list of
properties names only what could surprise.

`map` in `PROJECT.json` gives for each definition the lines it stands for.  A
definition named `X_Something` before `X` is a defect: what `X` would be with a
plausible mistake.  It is used nowhere; it documents which mistake the property
named beside it in `mutants` would catch.

**ReviewQueue.**  `pending`, `active` and `concurrency` are the fields of the
class; `runs[j]` counts the live runners of job j (the code has no such count,
which is the point: `active` is a Map by id), `drainDue` says that a
`setImmediate(_drain)` is outstanding.  `Drain` is the whole loop: it starts
runners until there is no slot or nothing pending.  Callers enqueue a job only
while the queue does not hold it, which is what `isJobActive` is meant to
ensure, except for the jobs in `Unchecked`: those stand for reviews whose check
was stale when it was used, and may be held several times.

**RepoLock.**  `Register` registers the promise (`prev`, `tails`, `holders`), `Begin`
runs the function when the promise before it has settled, `Finish` is its
return or throw, `Release` is the `finally`.  `line` is a history variable: the
order of calls.  `FifoLock` is three actions on a line per key.

**JobLifecycle.**  `Submit` and `ResumeAsk`/`ResumeRefused`/`ResumeCommit` are
`enqueueReview` and `resumeReviewJob`, the latter cut at its awaits; `Delete` is
the removal; `Drain` and `RunnerSettles` are the queue's actions together with
what the listeners do in the same turn.  `raced` marks jobs a resume wrote to on
a check that no longer held.

**JobRecord.**  `ops` holds the unawaited file operations of one record.  One
turn of the server often issues two writes (`Create`, `Finish`, `ResumeCommit`),
neither of which waits for the other.  A write truncates (`Open`) and then fills
the file (`Land`), operations take effect in any order, a crash stops them
anywhere.  Neither of two files parses: `Torn` was truncated and not filled,
`Garbled` is the mixture that two writes with the file open together may leave,
also when both complete.  `current` is a history variable: what last took effect
on the file is of the last turn that issued any operation, overlapping or not.
`Restart` is `hydrateJobs`: interrupted, reaped, persisted.

**ReviewRun.**  `at[r]` is the await a run is at.  `Synced`, `Added`, `SetupFails`,
`Removed` happen inside the lock.  `Stop` is the shutdown: it aborts the
controllers of running jobs, and only a run whose agent exists listens.  `Exit`
comes later and leaves the agents, which are process groups of their own.

**MentionWatch.**  Time is discrete; GitHub may show a comment up to `Overlap`
after its creation.  `PollStart`, `ReadPr`, `Queued`/`Refused`, `PollDone` are
the pass cut at its awaits; `PollThrows` is the `catch` that drops the pass's
own list, `forgotten` the comments that were on it.  The filters on authors and text are left out: a mention of the model
is one that passes them.  `via[m]` follows the later mention in whose place m is
retried, through any number of refusals.

**AutoResume.**  A pass asks GitHub (`Ask`), decides and marks (`Skip`, `Mark`),
and awaits the resume (`Resume`, `Refused`).  `armed` and `chained` are the
timer and the `.finally(schedule)` that sets it again.  `approved` are the pull
requests GitHub shows as approved, by this host or by anybody: a pass skips them
(`assessResumability`), and approvals come and go at any time.  Reviews run, are
resumed by hand and are removed meanwhile.  `cut` names the reviews whose resume a crash
ended between the marker and the queue.

**PrStateCache.**  One pull request.  A probe reads GitHub at some moment and
ends at a later one; requests join it.  `readAt` and `kept` are known to the
model only: when GitHub was read, and that the cache or the store had the answer
when an approval came back.

**Approval.**  One pull request, posts on it (`posts`: reviews and comments, in
order), one thread, CI checks per commit, and people who push, merge, dismiss,
comment and resolve.  `PreFlight`, `ReadPr`, `ApplyCiGate`, `Spawn`, `AgentPosts`,
`AgentExits`, `OwnPostsSince`, `Settle` are a run cut at its awaits; a resume
(`runVerifyJob`) has no pre-flight.  An agent is any agent that keeps to the
policy of its prompt: what it finds is free, what it may post is what
`ReviewPrompt` allows.  `Ask`, `AskReads`, `ApproveLands` are the approve route.
Texts are sequences of units that say a severity, deny one, or fence a quote;
`ClassifySeverity` reads them as the regular expressions do.

**LiveView.**  `srv` is one review on the server with its events, `es` the page's
EventSource with what is on its way, `ws` the WebSocket with snapshots on their
way, `asked` the answers of `fetch` on their way, `row` what the page shows.
`Replay` is the history an opened stream sends, with `caught_up` behind it;
`heard` remembers what chimed.  `Scenes` bounds what happens together.

**The six parts of `MCHost`.**  `TrustLock` is a read, change and write of
another program's file under a directory as lock; `age` is what `mtime` tells.
`Access` has the limiter's record of one address, hashes under way (`checking`)
between its two calls, and sessions in memory and in the file.  `Admission` has
the readings in flight (`inflight`, `first`: what held when the CLI started),
requests that wait for them, and the page that asks as well.  `FollowUp` keeps
the note as the resume it came with, so that a run given another's shows.
`AgentRun` has lines of two halves and a newline in a pipe that `Data` reads in
chunks of any size; events name the line they are from.  `Briefing` compares the
prompt of a review with the one every other branch would have given.  The parts
share no state in the code either, so their product would only multiply their
states; `MCHost` explores their sum: the initial state picks the part that
moves.

## 3. The runs

Passing runs:

| Run | Shows | Bounds |
|---|---|---|
| `queue` | no lost wake-up, every waiting job starts; jobs enqueued one at a time have one runner and keep to the limit at every start | 3 jobs enqueued with a check and 1 without, limits 1 and 3, a job at most twice in the queue |
| `repo_lock` | mutual exclusion, one chain per repository that leaves nothing behind, every call settles, FIFO refinement | 3 tasks, 2 repositories |
| `job_lifecycle` | no row is stuck as active; the stale check is the only way to double or lose a review; what is queued ends | 2 jobs, 2 concurrent handlers, limits 1-2 |
| `job_record` | the file follows the record, or overlapping writes garble it; a restart keeps reviews whose file is not garbled, leaves none active and reaps agents | 2 process ids, 3 file operations in flight, the two of one turn among them, in any order and overlap |
| `review_run` | git serialized, first worktree path free, worktree private (together `WorktreeIsPrivate`), agents missed by a shutdown started after it, every run ends | 2 runs, 2 jobs, 1 repository |
| `mentions` | no mention falls between two polls; none causes two reviews, unless the pass that dealt with it was lost | 2 comments, 2 pull requests, 3 time steps, overlap 1, day 2, polls that fail, crashes |
| `auto_resume` | the marker never hides an unread push (a crash between marker and resume excepted) and the timer chain never breaks (`NoPushForgotten`); no head is followed up twice; a push to a pull request nobody has approved is followed up in the end | 1 pull request, 2 pushes, approvals that come and go, crashes, removals, skewed dates |
| `pr_state` | bounded age of answers; nothing kept from before an approval goes out unflagged; the store moves forward | 7 time steps with lifetime 3, failure lifetime 2, timeout 2 |
| `approval` | an automatic approval rests on CI known sound and on no finding; a commit is reviewed once; the owner's approval never lands over a blocker that could be read, and is not refused without one; outcomes shown as confirmed are there | 2 reviews, or a review and the owner with 2 acts of people; 2 commits, 2 posts, 2 runs, 2 checks; 1 comment of a thread and 1 review read |
| `live_view` | the page settles on the server's state (or, its stream replayed without end, comes back to it each time), streams what is active, drops no row the server has and chimes once for what ended under its eyes | 2 runs of one review, 1 snapshot behind, and in each scene two of: broken connections, removal, restart, other reviews, refused requests, clicks |
| `host` | six parts, see below | see below |

`host` checks one invariant per part:

| Invariant (module) | Shows | Bounds |
|---|---|---|
| `WrittenStays` (`TrustLock`) | no entry of the agent's file is lost while no lock is old enough to be removed | 2 calls and Claude Code, 3 attempts, a lock stale after 1 tick |
| `UnlockIsEarned` (`Access`) | wrong answers keep to the pace of the locks however hashes overlap; a session that opens the settings was issued under today's password and is neither revoked nor past its time | 2 requests, 2 misses to a lock of 1, then 2 ticks, forgotten after 2; 2 tokens of which 1 is kept, life 1; 2 passwords; 3 ticks |
| `AdmittedOnTrueReadings` (`Admission`) | who is in met open intake, an allowed model and a plan above the floor no earlier than one CLI call before he asked | 1 request beside the page's, CLI timeout 1, reuse 1, fall-back 3, 2 ticks, 1 change of settings, model or plan |
| `NoteIsOfItsResume` (`FollowUp`) | a resume's run is a resume and hears its own note or none | 3 resumes |
| `AgentIsHeard` (`AgentRun`) | all an agent wrote is passed on once and in order before its run is over; the outcome and the reason are the last said | 3 lines of 7 kinds in chunks of any size, 2 providers |
| `BriefedByTheHost` (`Briefing`) | the pull request's branch does not change its reviewer's prompt; the host's skill, floor and focus are in it | 2 project paths, 1 of the user, files absent, empty or with text |

Why the bounds are enough: every invariant and every action property the runs
check is proved without them (see 5). They matter for liveness, and for the
mistakes the runs are meant to catch. The races in the handlers need two
handlers and one or two reviews: they concern one record, and a second review is
there to take a slot. File operations of one record interact in pairs, and a
third lets a newer one follow both. In the model of the cache time runs past
lifetime and timeout together, so every order of expiry and reading occurs; in
that of the mention watch it runs long enough for a poll's window to be cut at a
day and for a refused mention to be given up. Auto-resume treats candidates one
after the other and keeps its marker on each of them, so one pull request with
two pushes has all of its races; what two candidates could share is the pass,
which `todo` keeps apart. An approval races with at most one other actor at each
of its awaits: the other review, a person, or the owner; two commits and two
posts let each come before, between and after the readings. In the page's model
two runs are what it takes for a replay to hold an end that is history. Reading
limits of 1 stand for those of 20, 50 and 100: what lies beyond them is reached.
Three lines let an agent say something, post, and end in the middle of a line;
three resumes let a note be followed by one that fails and by one without a
note.

One run expects a violation: `limit_with_racing_resumes` checks what
`lib/queue.js:10-11` says of its limit.  Two resumes of one review pass their
check before either commits; the review is in the queue twice, takes one slot
for two runners, and one runner too many starts.

Known divergences.  Each was met while modelling and seen as a TLC trace; where
a property is named it is defined in the module, stated as the text has it, and
not among those the runs check.

- A review removed while its resume waits is persisted again and is back after
  the next start (`server.js:965`, against `server.js:750-751`; `StaysGone` in
  `JobRecord`).
- The two writes that one turn issues may overlap and leave a file that does not
  parse although both complete; the next start skips it, however much later, and
  the review is gone from the list (`server.js:188` and `:1305`, against
  `server.js:1286-1287`; `HistoryIsShown` in `JobRecord`).
- A run that has no agent yet ignores the shutdown's abort and leaves its agent
  behind (`lib/review-job.js:185`, against `docs/PLAN-concurrent-tabbed-ui.md:86`;
  `GracefulStopLeavesNothing` in `ReviewRun`).
- The first poll looks back the overlap before the watch was turned on
  (`lib/mention-watch.js:202`, against `:172-173` and `docs/usage.md:204`;
  `OldMentionsIgnored` in `MentionWatch`).
- A resume that fails leaves its guessed outcome beside the verified mark of the
  run before (`lib/review-job.js:194`; `ConfirmedEvenIfFailed` in `Approval`).
- A stream the browser reconnects by itself replays the end of an earlier run as
  if it were live, which chimes and closes the stream of a running resume
  (`public/app.js:1114-1128`; `ChimeIsNewsAfterReconnect` in `LiveView`), a
  stream refused because its review is gone leaves a row that shows it running
  (`public/app.js:2350`), and an answer of `/api/jobs/:id` that comes late marks
  a running review as finished until the next snapshot.
- A stream opened for a run that is over by the time it connects is replayed for
  ever: the end of the run arrives as part of the replay, where `finish` does not
  close the stream (`public/app.js:1198`), `stream_end` is ignored behind it
  (`:1165`), and the browser connects again.  The row shows the earlier states in
  turn, each time (against `public/app.js:1193-1196`; `StreamsComeToRest` in
  `LiveView`).
- With two resumes in the queue together the first to end clears mode and note,
  and the second runs as a fresh review or with the other's note (the exception
  `raced` in `NoteIsOfItsResume`).
- Going back to an earlier settings password restores the sessions saved under
  it unless something was saved between, and a revoked session returns with a
  restart if its removal could not be written (`unsaved` in
  `SessionsAreEarned`).
- A stale lock directory can be removed by two callers, who are then both
  inside, and an entry is lost (`wentStale` in `WrittenStays`).
- A project's skill file that is there and empty drops the host's own skill and
  gives the prompt of an install without one (the exception in
  `BriefedByTheHost`).

The passing properties name the other conditions they need, and each is a thing
that really happens: a resume that commits on a stale check (`raced` in
`JobLifecycle`, `stale` in `JobRecord`; with `Racing = TRUE` in `ReviewRun` its two runs share one
worktree path, and the second removes it under the first one's agent), operations of the
last turn that fail, are cut by a crash or are overtaken by one of an earlier
turn (`current` in `JobRecord`), a poll
that fails at a later pull request and forgets what it handled (`forgotten`), a
crash between the marker and the resume it stands for (`cut`), a pull request
that somebody has approved (`approved` in `PushIsFollowedUp`; `docs/usage.md`
says that these are skipped), a forced refresh
that joins a probe in flight (the second bound of `AnswersAreRecent`), and a
probe that overtakes an approval (the exception in `ApprovalIsSeen`).  With
`"save"` among the `Faults` of `MentionWatch` a lost write of the clock makes a
restart start it anew, and `NothingLeftBehind` fails.

Deadlock is not checked where the system may stop: a server that is shut down
(`ReviewRun`), bounded time, pushes, runs or lines (`MentionWatch`,
`PrStateCache`, `AutoResume`, `Approval`, `LiveView`, `MCHost`), a record whose
process ids are used up (`JobRecord`).

## 4. Fairness

Node runs every callback that is due, hence weak fairness of `Drain`, `Begin`,
`Release`, `TimerFires` and the steps of passes.  That a runner, a function
under the lock, a `gh` or `git` command or an agent ends is an assumption: no
deadline bounds an agent in `lib/review-job.js`, so a hung agent holds its slot
for ever, and the liveness results say "if agents end".  `PushIsFollowedUp`
further assumes that GitHub does not fail, and admission does not refuse, every
time the review's turn comes (strong fairness of `Ask` and `Resume`), and that
the owner does not save settings more often than the interval for ever, each of
which restarts the timer.

The page: runs start and end, requests are answered, connections are made again
and deliver (weak fairness of each), because the browser and Node do so; nobody
has to click and nothing has to break.  `RowSettles` excepts two kinds of rows, both
named under the divergences of the page: those the page is left with
(`LeftBehind`), and those whose stream is replayed without end (`ReplayLoop`).
The latter cannot show the server's state for good; what the property says of
them is that they come back to it again and again.

## 5. What is proved

Checked by TLAPS, for all values of the constants under the named assumptions of
the modules:

- limits are positive naturals and the initial one is among them;
- `NoTask` is no task, `None` no pull request and no outcome, `NoJob` no review, and
  the marks that stand for Claude Code and for a free lock are no clones;
- there is a repository, a run, a review;
- what stands for "no state" and "no request" of a page is none;
- there is a settings password; the limiter's numbers, the life of a session and how
  many are kept are positive; the requests under way together are finitely many;
- times and bounds are naturals; the floor of a refresh is not above the times to
  live; the clock of the mention watch goes beyond zero.

Three theorems say in their statement what else they need: that resumes do not
race (`~Racing`, two of `ReviewRun_proofs`), and that writes of the watcher's
state succeed (`"save" \notin Faults`, one of `MentionWatch_proofs`).  Both are
settings of the model whose opposite is a known divergence (see 3).

In each module one invariant is inductive, and the properties follow from it;
TLC checked it on the small instance first.

`Shared_proofs`, of the queue:

- `QueueTypeCorrect`, `NoWakeupIsLost`: the two invariants are inductive as they
  stand.  A job waits beside a free slot only after an enqueue, a raised limit
  or the end of a runner, and each schedules a drain.
- `SlotsAreNotLeaked`: inductive with the type invariant; the end of a runner
  removes the Map's key, and `Drain` adds keys only with a runner.
- `NoJobRunsTwice`: `OneRunnerPerJob` is inductive with the type invariant once
  it also says that such a job does not wait twice, does not wait while it runs,
  and has a key in the Map exactly while it runs.  It holds for each job whose
  callers look, whatever the others' callers do.
- `StartsAreWithinLimit`: an action property from that invariant and the
  finiteness of the Map; `Drain` is the only step that starts a runner, it stops
  at the limit, and the jobs it counts are those of the Map.

And of the lock:

- `ChainCorrect`: the inductive invariant `ChainIInv` is the type invariant and
  `OneChainPerKey`.  Mutual exclusion alone is not inductive: that only the head
  of a line runs follows from everyone behind it waiting for the promise just
  ahead (`BehindWaits`), which needs `tails` to be the last promise of the line
  and `holders` its length (`MapsMatchLine`), which needs the line to hold
  exactly the live calls (`LineIsLive`).
- `RepoMutualExclusion`, `BusyHintIsExact` follow from it.
- `ImplementsFifoLock`: every step of `RepoLock` is a step of `FifoLock` or
  leaves it unchanged, under the mapping given with `Lock` in `RepoLock`.

And of the state of a pull request, where times are any naturals and the clock's
bound any number: one invariant (`CacheIInv`), that there is at most one probe, which reads between its start and
its timeout (`Timely`) and never before what is stored was read (`Newer`), and that
an unflagged entry of the cache is no older than a probe takes and not kept from
before an approval (`CacheInv`).  `AnswersStayRecent`, `ApprovalsAreSeen` and
`StoreOnlyMovesForward` follow from it.

And of the page, where runs of its review, snapshots on their way and faults that
happen together are any.  What its sources still owe it is the invariant `ViewIInv`,
whose parts hold only together:

- `ActiveReviewsAreStreamed`: the last snapshot on its way shows the server as it is
  (`LastIsCurrent`), so that an active review without a stream is one a snapshot has
  still to tell of (`StreamedOrTold`).  The end of a run closes its stream; that this
  is no loss needs that no end is told of a run under way (`EndsArePast`), or that the
  page counts as misled.
- `RowsGoWithTheirReviews`: while a list from before the submission is on its way the
  first run goes on, and the row is active, which is what keeps it
  (`FirstRunGoesOn`).  It rests on the bound named `Lagging`: no answer and no
  snapshot is on its way for longer than a run takes.
- `ChimesAreNews`: what lies behind `caught_up`, or comes once it has been read, is of
  runs that were not over when the stream was opened, and of a stream the page opened
  itself nothing else is (`ReplayIsKnown`); and until an end comes live the row does not
  hold one (`NotYetOver`), but for a record fetched for it (`LogIsOfRow`).
  `GrownIsKnown` and `RestIsKnown` say that this survives what is added at one end of
  the stream and taken off at the other.

`JobLifecycle_proofs`, where reviews, handlers and copies are any number:

- `ActiveRowsAreHeld`: `ActiveIsHeld` is inductive with the types.  A row becomes
  active where the review is enqueued or started, and its runner's end leaves no
  active row behind.
- `OnlyRacesDouble`: what `HeldOnceUnlessRaced` says with a count is inductive
  once it is said place by place (`OnceIn`: one entry in the queue and no runner,
  or one runner and no entry).  `DrainOnce` and `EnqueueOnce` are the lemmas about
  sequences behind it: starting the first entries neither loses nor doubles a
  review, and adding one doubles only a review that was there.

`AutoResume_proofs`, where reviews and pushes are any number:

- `FollowsUpOnce`: a head is not followed up twice because the marker names the
  newest followed-up head or GitHub has moved on (`OldOrMarked`), also as the pass
  in progress saw it (`PassIsRecent`); a marker is cleared only for a head that was
  not followed up (`MarkedBefore`), and a restart finds it (`WrittenAtOnce`).
- `ChecksGoOn`: `AlwaysScheduled` is inductive as it stands.
- `PushesAreSeen`: from the two above and `ReadSince`, that a run which reads or
  ended after the marker was set read a head no older than the marker's.

`ReviewRun_proofs`, where runs, reviews and the limit are any:

- `GitIsShared`: whoever runs git commands is the head of the line (`HeadWorks`).
  It needs nothing of how resumes are asked for.
- `WorktreesArePrivate`: without racing resumes a review has one run, whose
  controller is the one it holds and which does not wait for another
  (`OneRunPerJob`); only a resume may find the worktree of an earlier run
  (`FreshPaths`); from checkout to settling the worktree is there
  (`WorktreesStay`); and a living server follows every agent (`AgentsFollowed`).
  The four are inductive only together: a second run of the same review would
  remove the worktree under the first.
- `ShutdownReachesAgents`: from the shutdown on an agent has been signalled or is
  late (`Told`), because the abort goes to the controller each review holds, and
  that is its run's.
- `RunsUseTheLock`: the git stages of runs are a FIFO lock, step by step, under the
  mapping `LockStage`; so what the lock promises, it promises to runs.

`JobRecord_proofs`, where process ids and file operations are any number:

- `FileCatchesUp`: each operation of the last turn would, if carried out by itself,
  make the file show the record (`NewestShows`); so when one of them was the last to
  take effect, the file does, or is garbled (`FileShows`, which a crash keeps;
  `LeftByNewest` says which files these are).  How many writes the turn issued, and
  whether they overlapped, does not matter.  `WritesFacts` and `AgedFacts` are the
  lemmas about the list of operations.
- `RestartIsClean`: up or down, the record knows each agent that has not escaped,
  and after a crash that left the file behind the record or garbled all have
  (`AgentsKnown`); a file that was never written means that there is nothing to
  reap (`NothingYet`).
- `NothingIsLost`: an action property from the same invariant.

`MentionWatch_proofs`, where mentions, pull requests and times are any:

- `MentionsAreAnsweredOnce`: a pass starts from the saved list and only adds to it
  (`PassAddsToList`), asks for what is not on it (`AsksForNews`), and what was
  answered is on one of the two lists or forgotten (`AnswersAreKept`).  It holds
  whatever fails.
- `NoMentionIsLeftBehind`: a mention that is due is over, or is reached from the
  saved state (`StateCovers`), and from the state the pass will save, unless this
  pass has yet to read or settle it (`PollCovers`); a pass that fails leaves a state
  that reaches what it read (`PollIsCovered`).  `LooksFromReaches` turns the minimum
  in `LooksFrom` into "dated after the saved clock less the overlap, or after some
  pending mention"; `MinOfNaturals` is the well-order behind it.

The first attempt at `NoMentionIsLeftBehind` failed for a reason: `via` named only
the last mention a refusal put in another's place, and with three mentions, each
refused in turn, the first was followed to a mention given up long before.  The run
has two and could not show it.  The history variable now follows chains.

`Approval_proofs`, where reviews, CI checks, commits, posts, people's acts and the
limits of the two queries are any.  All five properties are proved.

- Every step does to the pull request what `GoesOn` says: the head moves forward,
  posts and comments are only added, at the head of then, and of a post nothing
  changes but an opinion into a dismissed one.  So what a run read of the past stays
  true of it.
- The inductive invariant `IInv` is the types (`Types`), that no post stands on a
  commit yet to come (`PostsFit`), and for each review (`RunFits`) that its reading is
  of the past (`Behind`), that a first pass saw no review of its own on the commit it
  read (`Unreviewed`), that what it posted is this host's and newer than its start
  (`OwnIsOurs`), that its prompt allows an approval only after sound CI and without a
  finding (`KnowsPolicy`), and that an approval it confirmed is there (`Confirmed`).
  None but the types is inductive by itself.
- `ConfirmedApprovalsArePosted`, `AutoApprovalsAreVerified` and
  `CommitsAreReviewedOnce` follow from it.  `FirstPromptLeads`, `ResumePromptLeads`,
  `PolicyAllows` and `GateIsSound` are the lemmas about prompts and `ciGate`: of the
  blocks of a prompt the approval policy governs, and it grants no more than CI shows.
- `ConfirmedOutcomesAreHonest` needs that `outcomeFromOwnPosts` names the strongest of
  the posts it is shown (`StrongestIsShown`), and that these are the run's own and a
  few of before.
- `GateJudgesExactlyWhatItReads`: `GateFits`, proved on top of `IInv`, says that while
  an approval is under way all that stands against it and that its reading could show
  came since.  `GateOfWhatIsShown` reduces `assessForcedApproval` to what one query
  carries, and `OnlyFindingsBlock` says which texts block.

The last one showed that the property had leaned on the model: in it whoever asked
for changes found nothing, so that no finding could hide among them.  They now do,
and what a reading could not have shown is said of each kind of blocker.

`Host_proofs`, about `MCHost`, whose initial state picks a part that the others'
steps never change (`PartStays`), so that each part is proved by itself:

- `EntriesAreKept` (`TrustLock`), for any number of clones, attempts and any age at
  which a lock is stale.  Until a lock goes stale whoever is inside made the lock
  that is there (`LockIsTheirs`); so what it read is what the file still has when
  it renames (`NothingMissed`).
- `NotesAreTheirs` (`FollowUp`), for any number of resumes.  Until two of them meet,
  one at most waits or runs, in the mode of a resume, with its note on the record
  (`OneAtATime`).
- `AdmissionsAreEarned` (`Admission`), for any number of reviews and any times.  A
  reading in flight or in the cache says what held after its start (`Honest`), a
  request that waits is owed one from no earlier than one CLI call before it asked
  (`WaitsFor`), and one that is in has had both (`Earned`).
- `HostHasTheSay` (`Briefing`), for any paths and contents.  The prompt is put
  together from blocks whose names are what the property asks for (`PromptNames`).
- `UnlocksAreEarned` (`Access`), for any number of requests, tokens and passwords and
  any limits and times.  That misses keep to the pace is not inductive: a lock may begin
  while attempts are under way.  `Paced` counts these with the misses while a lock
  runs, and when it has run out leaves room for as many again; it rests on the lock
  being at least a tick long whenever a miss is at or beyond the limit
  (`LockTakesTime`).  Of the sessions, what the file holds must be earned under the
  password in its fingerprint as what memory holds is under today's, for a restart
  moves one to the other; and a token must have one time in both
  (`SessionsEarned`), or a session could run out in memory and live on in the file.
- `AgentsAreHeard` (`AgentRun`), for any number of lines.  Where the chunks end does
  not matter: what has been remembered is always what the first c tokens of the output
  come to, for some c, and the rest of them is in the pipe (`Follows`).  `After` says
  what c tokens come to, over the events of whole lines (`Tells`) and the tokens
  held back; `TakesOne` is one token of it and `FedAfter` a chunk.  When the process
  has closed all of it was read, and the last line counts as it is (`Over`).

Two proofs need what a recursion comes to, for which the library's theorems cannot be
used (they take an operator).  `UpTo` is induction over the set of the numbers for
which something holds, from the well-order of the naturals; `StepByStep` says that
a function given step by step exists, with the steps as a function; and that a lock
doubled k times is a positive number follows from the size of a power set.  This is
why `Only`, `Fed` and `Output` are written as recursive functions.

Only model-checked is what must happen in the end, which is out of the prover's
reach: `WaitingIsStarted`, `EveryCallSettles`, `QueuedEnds`, `EveryRunSettles`,
`PushIsFollowedUp` and `RowSettles`, under the fairness of section 4.

The arithmetic bounds of the models (`MaxPush`, `MaxTime`, `MaxCopies`) are
parameters of the theorems, not limits of them.

## 6. Not modelled

Text: the wording of prompts beyond their blocks and the approval policy, the
rubric, summaries of tool calls, layout of the page, logs.  Normalisation and
saving of settings (synchronous, one writer), avatars.  Which of several plan
windows is the tightest.  The choice of a batch by `createPrStateRefresh`.  The
parts of `assessResumability` about comments and replies: `FollowUp` takes its
verdict as any of four.  The `snooze` command: a client that sends one request
after the other and keeps no state but its configuration.  `can-approve.js`,
which only hides a button.  Processes below the level of "started, signalled,
ended".  Reuse of process ids by the operating system.  Limits that are not
reached in the models (`HANDLED_LIMIT`, 500 cache entries, 20 candidates, a
thousand addresses).  Identity, installation, service scripts and containers.

## 7. Plan

Done: queue, lock, the life of a review, its record and its runs, the watchers,
the state cache, the page, approvals with the decisions they rest on, admission,
trust, notes, skills, access and the agent's output, each with proofs of its safety.

Left, in order of what it protects:

1. `assessResumability` in full, with what replies and comments count as new.
2. The batches of `createPrStateRefresh` over several pull requests, some of
   which always fail.

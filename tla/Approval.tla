-------------------------------- MODULE Approval --------------------------------
(***************************************************************************)
(* How an approval comes to stand on a pull request, and what a review is  *)
(* said to have come to. Reviews of one pull request run (runReviewJob,    *)
(* runVerifyJob of lib/review-job.js): each reads the pull request, may be *)
(* skipped, judges CI of the commit it read, tells its agent what allows   *)
(* an approval, and settles its outcome by what GitHub shows. The owner    *)
(* approves with a password (POST /api/jobs/:id/approve of server.js).     *)
(* Meanwhile people push, comment, resolve, dismiss and merge, CI runs and *)
(* GitHub may not answer.                                                  *)
(*                                                                         *)
(* A read of GitHub is one step; what happens between two of them is what  *)
(* the properties are about. Worktree, lock and process of a run are in    *)
(* ReviewRun, the password and its limiter in Access.                      *)
(***************************************************************************)
EXTENDS ApprovalGate, PrReading, ReviewPrompt

CONSTANTS
    Jobs, Owner,
    Casts,          \* bound: who takes part together, and how much people do meanwhile
    Checks,         \* names of CI checks
    AutoApprove,    \* AUTO_APPROVE
    CommentLimit,   \* comments read of a thread (20)
    ReviewLimit,    \* reviews read of a pull request (50)
    MaxHead, MaxRuns,               \* bounds
    MaxPosts        \* bound: posts, besides the owner's approval

ASSUME ApprovalAssumption ==
    /\ AutoApprove \in BOOLEAN /\ Casts \subseteq [who : SUBSET (Jobs \cup {Owner}), acts : Nat]
    /\ {CommentLimit, ReviewLimit, MaxHead, MaxPosts, MaxRuns} \subseteq Nat \ {0}
    /\ None \notin Outcomes

VARIABLES
    pr,     \* the pull request on GitHub
    job,    \* the reviews of it
    ask,    \* the owner's approval under way
    runs,   \* how many runs have started
    cast

vars == <<pr, job, ask, runs, cast>>

Host == "host"      \* the gh login reviews and approvals are posted as

Finding  == <<Both("critical")>>
AllClear == <<Denies("critical")>>
Snippet  == <<Fence, Says("critical"), Fence>>
Texts    == {Finding, AllClear, Snippet}

\* A post: a review, or an issue comment.
Post(author, state, text) == [author |-> author, state |-> state, text |-> text, commit |-> pr.head]

Stages == {"none", "read", "agent", "posted", "exited", "done", "failed", "skipped"}

TypeOK ==
    /\ pr.head \in 1..MaxHead /\ pr.acts \in 0..cast.acts /\ pr.state \in {"OPEN", "MERGED"}
    /\ pr.thread.isResolved \in BOOLEAN /\ \A c \in ToSet(pr.thread.comments) : c \in Texts
    /\ \A p \in ToSet(pr.posts) : p.state \in ReviewStates \cup {"ISSUE"} /\ p.text \in Texts
    /\ \A j \in Jobs :
           /\ job[j].stage \in Stages /\ job[j].own \in 0..(MaxPosts + 1)
           /\ job[j].outcome \in Outcomes \cup {None, "skipped"} /\ job[j].verified \in BOOLEAN
    /\ ask.stage \in {"idle", "asked", "refused", "cleared"}
    /\ runs \in 0..MaxRuns /\ cast \in Casts

Init ==
    /\ pr = [head |-> 1, state |-> "OPEN", posts |-> <<>>, acts |-> 0,
             thread |-> [comments |-> <<>>, isResolved |-> FALSE]]
    /\ job = [j \in Jobs |-> [stage |-> "none", own |-> 0, verify |-> FALSE, head |-> 0, looked |-> 0,
                              sound |-> FALSE, prompt |-> <<>>, since |-> 0,
                              outcome |-> None, verified |-> FALSE]]
    /\ ask = [stage |-> "idle"]
    /\ runs = 0 /\ cast \in Casts

-----------------------------------------------------------------------------
(* GitHub.                                                                 *)

\* The posts that are reviews, each at its place among the posts.
Reviews == [i \in {i \in DOMAIN pr.posts : pr.posts[i].state # "ISSUE"} |-> pr.posts[i]]

Push == pr.head < MaxHead /\ pr' = [pr EXCEPT !.head = @ + 1, !.acts = @ + 1]

Merge == pr' = [pr EXCEPT !.state = "MERGED", !.acts = @ + 1]

\* Somebody reviews by hand; the host's owner may, under the same login.
PersonReviews ==
    \E post \in {Post(Host, "COMMENTED", Finding), Post("other", "COMMENTED", Snippet),
                Post("other", "CHANGES_REQUESTED", Finding)} :
        /\ Len(pr.posts) < MaxPosts
        /\ pr' = [pr EXCEPT !.posts = Append(@, post), !.acts = @ + 1]

Dismiss ==
    \E i \in DOMAIN pr.posts :
        /\ pr.posts[i].state \in {"APPROVED", "CHANGES_REQUESTED"}
        /\ pr' = [pr EXCEPT !.posts[i].state = "DISMISSED", !.acts = @ + 1]

\* Threads are only read for the owner's approval.
Comment ==
    /\ Owner \in cast.who
    /\ \E text \in {Finding, AllClear} : pr' = [pr EXCEPT !.thread.comments = Append(@, text), !.acts = @ + 1]

ResolveOrReopen ==
    /\ pr.thread.comments # <<>>
    /\ pr' = [pr EXCEPT !.thread.isResolved = ~@, !.acts = @ + 1]

GithubSteps ==
    /\ pr.state = "OPEN" /\ pr.acts < cast.acts
    /\ Push \/ Merge \/ PersonReviews \/ Dismiss \/ Comment \/ ResolveOrReopen
    /\ UNCHANGED <<job, ask, runs, cast>>

-----------------------------------------------------------------------------
(* A run.                                                                  *)

\* A run that is over keeps nothing but its outcome.
Ended(j, stage, outcome, verified) ==
    [stage |-> stage, own |-> 0, verify |-> job[j].verify, head |-> 0, looked |-> 0, sound |-> FALSE,
     prompt |-> <<>>, since |-> 0, outcome |-> outcome, verified |-> verified]

Failed(j) == Ended(j, "failed", job[j].outcome, job[j].verified)

\* The pre-flight that skips a commit this host has reviewed, on a first pass and
\* if the host's own login is known.
PreFlight(j, verify, self) == ~verify /\ HasOwnReviewOnSha(Reviews, pr.head, self)

\* A first pass starts, or the resume of a review that has ended, and reads the
\* pull request (fetchPrMetadata); gh may fail.
ReadPr(j) ==
    LET verify == job[j].stage # "none"
        skipped(outcome) == Ended(j, "skipped", outcome, job[j].verified)
    IN  /\ j \in cast.who /\ runs < MaxRuns /\ runs' = runs + 1
        /\ job[j].stage \in {"none", "done", "failed"}
        /\ \/ pr.state # "OPEN" /\ job' = [job EXCEPT ![j] = skipped("skipped")]
           \/ job' = [job EXCEPT ![j] = Failed(j)]
           \/ /\ pr.state = "OPEN"
              /\ \E self \in {Host, None} :
                     job' = [job EXCEPT ![j] =
                         IF PreFlight(j, verify, self)
                         THEN skipped(SkippedOutcome(Reviews, pr.head, self))
                         ELSE [@ EXCEPT !.stage = "read", !.verify = verify, !.head = pr.head,
                                        !.looked = IF verify \/ self = None THEN 0 ELSE Len(pr.posts)]]
        /\ UNCHANGED <<pr, ask, cast>>

\* What CI may show of a commit when it is asked, if it answers.
Readings ==
    [ok : BOOLEAN, checks : {{[name |-> c, state |-> f[c]] : c \in DOMAIN f} :
                              f \in UNION {[C -> CheckStates] : C \in SUBSET Checks}}]

\* What that says, for the properties: something passed, and all that ran did.
Sound(reading) ==
    LET states == {c.state : c \in reading.checks}
    IN  reading.ok /\ "success" \in states /\ states \cap {"running", "failure"} = {}

\* Seeded error: CI is only asked for on a first pass.
ApplyCiGate_FirstPassOnly(j, reading) ==
    [autoApprove |-> AutoApprove /\ (job[j].verify \/ CiGate(reading)), reReview |-> FALSE]

ApplyCiGate(j, reading) == [autoApprove |-> AutoApprove /\ CiGate(reading), reReview |-> FALSE]

\* CI of the commit that was read is judged, the prompt is built, for a bundled
\* skill (which skill and which blocks is in AgentRun), and the agent spawned;
\* runStartedAt is taken just before.
Spawn(j) ==
    /\ job[j].stage = "read"
    /\ \E reading \in Readings :
           LET approval == ApplyCiGate(j, reading)
               prompt == IF job[j].verify THEN BuildVerifyPrompt(FALSE, approval, TRUE)
                         ELSE BuildPrompt([source |-> "bundled", body |-> "text", subordinate |-> "absent"],
                                          approval, TRUE, FALSE)
           IN  job' = [job EXCEPT ![j] =
                          [@ EXCEPT !.stage = "agent", !.prompt = prompt, !.sound = Sound(reading),
                                    !.since = Len(pr.posts)]]
    /\ UNCHANGED <<pr, ask, runs, cast>>

\* What a reviewer may come to think of the change: fit, with a finding, with a
\* risk too high, or with nothing that exercised it.
Harmless == [hits |-> {}, bump |-> "none", unclear |-> 0, reducers |-> {}]
Appraisals ==
    {[change |-> Harmless, findings |-> {}, exercised |-> TRUE],
     [change |-> Harmless, findings |-> {"critical"}, exercised |-> TRUE],
     [change |-> [Harmless EXCEPT !.hits = {"T1"}, !.reducers = Reducers], findings |-> {}, exercised |-> TRUE]}

PostState(cmd) ==
    IF cmd.form = "comment" THEN "ISSUE" ELSE IF cmd.verb = "approve" THEN "APPROVED" ELSE "COMMENTED"

\* The agent's one posting command, which gh may fail, and the guess made from
\* it as its event passes. It lands on whatever the head is by then.
AgentPosts(j) ==
    /\ job[j].stage = "agent" /\ Len(pr.posts) < MaxPosts
    /\ \E a \in Appraisals, cmd \in {c \in Commands : c.form = "comment" => c.verb = "comment"}, landed \in BOOLEAN :
           /\ cmd.verb \in Allowed(job[j].prompt, a)
           /\ job' = [job EXCEPT ![j] =
                         [@ EXCEPT !.stage = "posted", !.own = IF landed THEN Len(pr.posts) + 1 ELSE 0,
                                   !.outcome = IF DetectOutcome(cmd) = None THEN job[j].outcome ELSE DetectOutcome(cmd)]]
           /\ pr' = IF ~landed THEN pr
                    ELSE [pr EXCEPT !.posts = Append(@,
                             Post(Host, PostState(cmd),
                                  IF a.findings = {} \/ cmd.form = "comment" THEN AllClear ELSE Finding))]
    /\ UNCHANGED <<ask, runs, cast>>

\* It may end having posted nothing. A run that fails is not settled.
AgentExits(j) ==
    /\ job[j].stage \in {"agent", "posted"}
    /\ \E ok \in BOOLEAN : job' = [job EXCEPT ![j] = IF ok THEN [@ EXCEPT !.stage = "exited"] ELSE Failed(j)]
    /\ UNCHANGED <<pr, ask, runs, cast>>

\* Seeded error: posts of every account are taken for the run's.
OwnPostsSince_Anyones(j, from) == {i \in DOMAIN pr.posts : i > from}

\* fetchOwnPostsSince: this login's posts from the start of the run, and those
\* of the minute before it, however many that are.
OwnPostsSince(j, from) == {i \in DOMAIN pr.posts : i > from /\ pr.posts[i].author = Host}

\* What a run is said to have come to: GitHub's word, else the guess.
SettledOutcome(j, outcome) ==
    IF outcome # None THEN outcome ELSE IF job[j].outcome # None THEN job[j].outcome ELSE "no_new_findings"

\* Seeded error: the mark of an earlier run is kept.
Settled_KeepsMark(j, outcome) ==
    Ended(j, "done", SettledOutcome(j, outcome), job[j].verified \/ outcome # None)

Settled(j, outcome) ==
    Ended(j, "done", SettledOutcome(j, outcome), outcome # None)

\* settleOutcome: GitHub's word if it can be had, else the guess, flagged.
Settle(j) ==
    /\ job[j].stage = "exited"
    /\ \E checked \in BOOLEAN, from \in 0..job[j].since :
           LET own == OwnPostsSince(j, from)
               outcome == OutcomeFromOwnPosts(
                   [checked |-> checked,
                    reviews |-> {pr.posts[i].state : i \in {i \in own : pr.posts[i].state # "ISSUE"}},
                    comments |-> Cardinality({i \in own : pr.posts[i].state = "ISSUE"})])
           IN  job' = [job EXCEPT ![j] = Settled(j, outcome)]
    /\ UNCHANGED <<pr, ask, runs, cast>>

RunStep(j) ==
    \/ ReadPr(j) \/ Spawn(j) \/ AgentPosts(j) \/ AgentExits(j) \/ Settle(j)

-----------------------------------------------------------------------------
(* The owner approves.                                                     *)

\* One opinion per reviewer: the last that approved or asked for changes.
LatestReviews ==
    LET opinions == {i \in DOMAIN pr.posts : pr.posts[i].state \in {"APPROVED", "CHANGES_REQUESTED", "DISMISSED"}}
    IN  {pr.posts[i] : i \in {i \in opinions :
             \A k \in opinions : pr.posts[k].author = pr.posts[i].author => k <= i}}

\* Seeded error: the first reviews are read and not the last.
FetchApprovalSignals_First(ok) ==
    [ok |-> ok, state |-> pr.state, author |-> "author", head |-> pr.head,
     threads |-> <<[pr.thread EXCEPT !.comments = SubSeq(@, 1, Min({Len(@), CommentLimit}))]>>,
     reviews |-> {Reviews[i] : i \in {i \in DOMAIN Reviews :
                     Cardinality({k \in DOMAIN Reviews : k < i}) < ReviewLimit}},
     latestReviews |-> LatestReviews]

\* What one query can carry: the first comments of a thread, the last reviews.
FetchApprovalSignals(ok) ==
    [ok |-> ok, state |-> pr.state, author |-> "author", head |-> pr.head,
     threads |-> <<[pr.thread EXCEPT !.comments = SubSeq(@, 1, Min({Len(@), CommentLimit}))]>>,
     reviews |-> {Reviews[i] : i \in {i \in DOMAIN Reviews :
                     Cardinality({k \in DOMAIN Reviews : k > i}) < ReviewLimit}},
     latestReviews |-> LatestReviews]

Ask ==
    /\ ask.stage \in {"idle", "refused"} /\ Owner \in cast.who
    /\ \E j \in Jobs : job[j].stage # "none" /\ ask' = [stage |-> "asked", job |-> j]
    /\ UNCHANGED <<pr, job, runs, cast>>

\* The gate; a refusal posts nothing. What it had read is kept for the property.
AskReads ==
    /\ ask.stage = "asked"
    /\ \E ok \in BOOLEAN :
           ask' = IF AssessForcedApproval(FetchApprovalSignals(ok), Host) = "CLEAR"
                  THEN [stage |-> "cleared", job |-> ask.job, posts |-> Len(pr.posts), thread |-> pr.thread]
                  ELSE [stage |-> "refused", answered |-> ok]
    /\ UNCHANGED <<pr, job, runs, cast>>

\* gh pr review --approve approves whatever the head is by now.
ApproveLands ==
    /\ ask.stage = "cleared" /\ Len(pr.posts) <= MaxPosts
    /\ pr' = [pr EXCEPT !.posts = Append(@, Post(Host, "APPROVED", AllClear))]
    /\ job' = [job EXCEPT ![ask.job].outcome = "approved"]
    /\ ask' = [stage |-> "idle"] /\ UNCHANGED <<runs, cast>>

ApproveFails == ask.stage = "cleared" /\ ask' = [stage |-> "idle"] /\ UNCHANGED <<pr, job, runs, cast>>

Next ==
    \/ GithubSteps
    \/ \E j \in Jobs : RunStep(j)
    \/ Ask \/ AskReads \/ ApproveLands \/ ApproveFails

Spec == Init /\ [][Next]_vars

-----------------------------------------------------------------------------
(* Properties.                                                             *)

\* An approval posted by a run stands on a commit whose CI was sound when the run
\* read it, or on one pushed after that, and its review holds no finding: on a
\* first pass and on a resume, whatever part of GitHub did not answer
\* (applyCiGate, approvalBlock, buildVerifyPrompt).
AutoApprovalIsVerified ==
    [][\A j \in Jobs :
          job[j].own = 0 /\ job'[j].own # 0 =>
              LET post == pr'.posts[job'[j].own]
              IN  post.state = "APPROVED" =>
                      job[j].sound /\ job[j].head <= post.commit /\ post.text # Finding]_vars

\* This host reviews a commit once: a first pass that posts on a commit with a
\* review of this login could not have seen it, because it was posted after the
\* pull request was read, or its login was unknown (runReviewJob's pre-flight).
OncePerCommit ==
    [][\A j \in Jobs :
          job[j].own = 0 /\ job'[j].own # 0 /\ ~job[j].verify =>
              \A i \in 1..job[j].looked :
                  ~ /\ pr.posts[i].author = Host /\ pr.posts[i].commit = job[j].head
                    /\ pr.posts[i].state \in {"COMMENTED", "APPROVED", "CHANGES_REQUESTED"}]_vars

\* What blocks an approval now: a comment in an open thread, a review that asks for
\* changes, until its author approves or it is dismissed, a finding on this head.
Standing ==
    {<<"thread", i>> : i \in {i \in DOMAIN pr.thread.comments :
                             ~pr.thread.isResolved /\ pr.thread.comments[i] = Finding}}
    \cup {<<"asked", i>> : i \in {i \in DOMAIN pr.posts :
            /\ pr.posts[i].state = "CHANGES_REQUESTED"
            /\ \A k \in DOMAIN pr.posts : k > i /\ pr.posts[k].author = pr.posts[i].author
                                           => pr.posts[k].state \in {"COMMENTED", "ISSUE"}}}
    \cup {<<"found", i>> : i \in {i \in DOMAIN pr.posts :
            /\ pr.posts[i].state \in {"COMMENTED", "CHANGES_REQUESTED"}
            /\ pr.posts[i].commit = pr.head /\ pr.posts[i].text = Finding}}

\* What one reading of the pull request could not have shown: posted or reopened
\* since, or beyond what a query carries.
Unreadable(b, read) ==
    CASE b[1] = "thread" -> b[2] > CommentLimit \/ b[2] > Len(read.thread.comments) \/ read.thread.isResolved
      [] b[1] = "asked" -> b[2] > read.posts
      [] b[1] = "found" ->
             \/ b[2] > read.posts
             \/ Cardinality({k \in (b[2] + 1)..read.posts : pr.posts[k].state # "ISSUE"}) >= ReviewLimit

\* The gate is exact about what it can read. An approval with the password never
\* lands over a blocker it could have read: what stands against it by then is
\* newer than the reading, or beyond its limits. And once GitHub answered, an
\* open pull request without a blocker is never refused: not for findings on
\* replaced code, quoted code, or words that wave a severity off
\* (assessForcedApproval, fetchApprovalSignals; server.js:1048 reads, 1069 approves).
GateJudgesWhatItReads ==
    [][/\ ApproveLands => \A b \in Standing : Unreadable(b, ask)
       /\ AskReads /\ ask'.stage = "refused" /\ ask'.answered /\ pr.state = "OPEN" => Standing # {}]_vars

\* A run whose outcome GitHub confirmed never understates what the run posted,
\* and claims no more than this login posted there, in this run or beside it
\* (settleOutcome, outcomeFromOwnPosts).
OutcomeIsHonest ==
    [][\A j \in Jobs :
          job[j].stage = "exited" /\ job'[j].stage = "done" /\ job'[j].verified =>
              LET claim(p) == CASE p.state = "APPROVED" -> 3 [] p.state = "CHANGES_REQUESTED" -> 2
                                [] p.state \in {"COMMENTED", "ISSUE"} -> 1 [] OTHER -> 0
                  ours == {p \in ToSet(pr.posts) : p.author = Host}
              IN  /\ job[j].own # 0 => claim(pr.posts[job[j].own]) <= Claim[job'[j].outcome]
                  /\ \/ job'[j].outcome = "no_new_findings"
                     \/ \E p \in ours : claim(p) = Claim[job'[j].outcome]]_vars

\* What a review that ended well shows as confirmed by GitHub is there: if it is
\* verified and approved, this login has approved (settleOutcome, the approve route).
ConfirmedIsPosted ==
    /\ TypeOK
    /\ \A j \in Jobs :
           job[j].stage = "done" /\ job[j].verified /\ job[j].outcome = "approved" =>
               \E p \in ToSet(pr.posts) : p.author = Host /\ p.state \in {"APPROVED", "DISMISSED"}

\* The same of a review that failed: the guess of a resume replaces the outcome
\* and leaves the mark of the run before (review-job.js:66-67).
ConfirmedEvenIfFailed ==
    \A j \in Jobs :
        job[j].stage = "failed" /\ job[j].verified /\ job[j].outcome = "approved" =>
            \E p \in ToSet(pr.posts) : p.author = Host /\ p.state \in {"APPROVED", "DISMISSED"}

=============================================================================

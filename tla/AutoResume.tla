----------------------------- MODULE AutoResume -----------------------------
(***************************************************************************)
(* lib/auto-resume.js: the timed pass that resumes a review of this host   *)
(* when the author has pushed since, and the marker on the review that     *)
(* keeps it from doing so twice for one pushed head.                       *)
(*                                                                         *)
(* A pass awaits GitHub for every candidate and the resume it asks for;    *)
(* pushes, resumes by hand, settings, removals, runs and crashes come in   *)
(* between.  One review per pull request, none older than MAX_REVIEW_AGE   *)
(* and no more than MAX_CANDIDATES of them.  A file is written at once     *)
(* here: what its delays can do is JobRecord's subject, and what two       *)
(* racing resumes can do is JobLifecycle's.                                *)
(***************************************************************************)
EXTENDS Integers, FiniteSets

CONSTANTS
    Prs,        \* pull requests, each with one review by this host
    None,
    MaxPush,    \* bound: pushes per pull request
    Skew,       \* TRUE: commit dates may lie after the review that read them
    Faults      \* which happen: "crash", "delete" (the review is removed)

ASSUME AutoResumeAssumption ==
    /\ MaxPush \in Nat /\ Skew \in BOOLEAN /\ None \notin Prs
    /\ Faults \subseteq {"crash", "delete"}

Heads == 0..MaxPush     \* a push makes a new head

NoHead == -1            \* autoResumedAtSha is null

VARIABLES
    head, open,         \* GitHub: the head, the pull requests still open
    approved,           \* and those it shows as approved, by this host or by anyone
    refusing,           \* the admission policy refuses (intake, usage, ...)
    job,                \* the records in memory
    file,               \* the records last written
    listed, stored,     \* which of them are in the list, and on disk
    enabled,            \* config.enabled, kept in the settings file
    armed,              \* the timer is set
    chained,            \* a fired timer waits for the pass to set the next one
    pass,               \* the pass in progress
    followed, twice,    \* history: heads followed up; one of them twice
    cut                 \* history: reviews whose resume a crash cut short

github == <<head, open, approved>>

timer == <<enabled, armed, chained>>

history == <<followed, twice, cut>>

records == <<job, file, listed, stored>>

vars == <<github, refusing, records, timer, pass, history>>

States == {"done", "approved", "queued", "reading", "failed", "interrupted"}

Records == [state : States, reviewed : Heads, marker : Heads \cup {NoHead}]

NoPass == [stage |-> "off", todo |-> {}, pr |-> None, head |-> NoHead, live |-> FALSE]

TypeOK ==
    /\ head \in [Prs -> Heads] /\ open \in SUBSET Prs /\ approved \in SUBSET Prs
    /\ refusing \in BOOLEAN
    /\ job \in [Prs -> Records] /\ file \in [Prs -> Records]
    /\ enabled \in BOOLEAN /\ armed \in BOOLEAN /\ chained \in BOOLEAN
    /\ pass \in [stage : {"off", "asking", "deciding", "resuming"}, todo : SUBSET Prs,
                 pr : Prs \cup {None}, head : Heads \cup {NoHead}, live : BOOLEAN]
    /\ listed \in SUBSET Prs /\ stored \in SUBSET Prs /\ cut \in SUBSET Prs
    /\ followed \in [Prs -> SUBSET Heads] /\ twice \in BOOLEAN

\* A review that commented, of the first head.
Init ==
    /\ head = [p \in Prs |-> 0] /\ open = Prs /\ approved = {} /\ refusing = FALSE
    /\ job = [p \in Prs |-> [state |-> "done", reviewed |-> 0, marker |-> NoHead]]
    /\ file = job /\ listed = Prs /\ stored = Prs
    /\ enabled = FALSE /\ armed = FALSE /\ chained = FALSE
    /\ pass = NoPass
    /\ followed = [p \in Prs |-> {}] /\ twice = FALSE /\ cut = {}

IsActive(p) == job[p].state \in {"queued", "reading"}

\* The record changes in memory and persistJob writes it, even when the review
\* has been removed from the list (whoever holds the object still has it).
Persisted(p, r) ==
    /\ job' = [job EXCEPT ![p] = r] /\ file' = [file EXCEPT ![p] = r]
    /\ stored' = stored \cup {p} /\ listed' = listed

-----------------------------------------------------------------------------
(* The world.                                                              *)

Push(p) ==
    /\ p \in open /\ head[p] < MaxPush
    /\ head' = [head EXCEPT ![p] = @ + 1]
    /\ UNCHANGED <<open, approved, refusing, records, timer, pass, history>>

Close(p) ==
    /\ p \in open
    /\ open' = open \ {p}
    /\ UNCHANGED <<head, approved, refusing, records, timer, pass, history>>

\* Somebody approves, or approvals are dismissed: another reviewer, the owner, a
\* rule of the repository, or the agent of a review that has read it.
ApprovalChanges(p) ==
    /\ p \in open
    /\ approved' = IF p \in approved THEN approved \ {p} ELSE approved \cup {p}
    /\ UNCHANGED <<head, open, refusing, records, timer, pass, history>>

\* Intake is locked or opened, the plan's usage runs out or recovers.
AdmissionChanges ==
    /\ refusing' = ~refusing
    /\ UNCHANGED <<github, records, timer, pass, history>>

\* resumeReviewJob for the Review PR button, up to its last await.  Forced, it
\* takes an approved pull request too.
ResumeByHand(p) ==
    /\ p \in listed /\ ~IsActive(p) /\ p \in open /\ ~refusing
    /\ Persisted(p, [job[p] EXCEPT !.state = "queued"])
    /\ UNCHANGED <<github, refusing, timer, pass, history>>

\* Defect: the new run's record starts without the head of the last one.
RunReads_Forgets(p) ==
    /\ p \in listed /\ job[p].state = "queued" /\ p \in open
    /\ Persisted(p, [job[p] EXCEPT !.state = "reading", !.reviewed = NoHead])
    /\ UNCHANGED <<github, refusing, timer, pass, history>>

\* runVerifyJob reads the pull request: prMeta.headRefOid.  (What a run does
\* whose review was removed meanwhile reaches no record: pushEvent.)
RunReads(p) ==
    /\ p \in listed /\ job[p].state = "queued" /\ p \in open
    /\ Persisted(p, [job[p] EXCEPT !.state = "reading", !.reviewed = head[p]])
    /\ UNCHANGED <<github, refusing, timer, pass, history>>

RunEnds(p) ==
    /\ p \in listed /\ IsActive(p)
    /\ \E s \in {"done", "approved", "failed"} :
        /\ job[p].state = "queued" => s = "failed"
        /\ Persisted(p, [job[p] EXCEPT !.state = s])
    /\ UNCHANGED <<github, refusing, timer, pass, history>>

\* DELETE /api/jobs/:id
Delete(p) ==
    /\ "delete" \in Faults
    /\ p \in listed /\ ~IsActive(p)
    /\ listed' = listed \ {p} /\ stored' = stored \ {p}
    /\ UNCHANGED <<github, refusing, job, file, timer, pass, history>>

-----------------------------------------------------------------------------
(* The timer and the settings.                                             *)

\* Defect: reviews that were resumed automatically before are not looked at.
Candidates_FirstPushOnly ==
    {p \in listed : job[p].state = "done" /\ job[p].marker = NoHead}

\* pickCandidates: finished, with something left to fix.
Candidates == {p \in listed : job[p].state = "done"}

\* configure: clears the timer, sets it again if enabled.
Configure(b) ==
    /\ enabled' = b /\ armed' = b
    /\ UNCHANGED <<github, refusing, records, chained, pass, history>>

\* A pass without candidates is over before pollOnce returns.
Begun ==
    IF Candidates = {} THEN pass' = NoPass
    ELSE pass' = [NoPass EXCEPT !.stage = "asking", !.todo = Candidates]

\* Defect: no wait for the pass when there is one already.
TimerFires_Joins ==
    /\ armed
    /\ IF pass # NoPass
       THEN armed' = FALSE /\ UNCHANGED <<chained, pass>>
       ELSE /\ Begun
            /\ armed' = (pass' = NoPass /\ enabled)
            /\ chained' = (pass' # NoPass)
    /\ UNCHANGED <<github, refusing, records, enabled, history>>

\* The timer's callback: pollOnce, which returns the pass in progress if there
\* is one, and schedule when that is over.
TimerFires ==
    /\ armed
    /\ IF pass # NoPass THEN pass' = pass ELSE Begun
    /\ armed' = (pass' = NoPass /\ enabled)
    /\ chained' = (pass' # NoPass)
    /\ UNCHANGED <<github, refusing, records, enabled, history>>

\* POST /api/settings/auto-resume/run
CheckNow ==
    /\ enabled /\ pass = NoPass
    /\ Begun
    /\ UNCHANGED <<github, refusing, records, timer, history>>

-----------------------------------------------------------------------------
(* The pass.                                                               *)

\* assess: GitHub's answer about the next candidate, which is live if it is open
\* and not approved.
Ask(p) ==
    /\ pass.stage = "asking" /\ p \in pass.todo
    /\ pass' = [stage |-> "deciding", todo |-> pass.todo \ {p}, pr |-> p,
                head |-> head[p], live |-> p \in open \ approved]
    /\ UNCHANGED <<github, refusing, records, timer, history>>

\* There is none: the candidate is left for the next pass.
AskFails(p) ==
    /\ pass.stage = "asking" /\ p \in pass.todo
    /\ pass' = [pass EXCEPT !.todo = @ \ {p}]
    /\ UNCHANGED <<github, refusing, records, timer, history>>

\* The candidate is finished with.
NextCandidate == pass' = [NoPass EXCEPT !.stage = "asking", !.todo = pass.todo]

\* Defect: any head other than the reviewed one is resumed.
AlreadyFollowed_Never(p) == FALSE

\* "One automatic follow-up per pushed head."
AlreadyFollowed(p) == job[p].marker = pass.head

\* What assessResumability makes of the answer, with the record as it is now.
\* With skewed dates commits that were read can count as new.
Pushed(p) == pass.head # job[p].reviewed \/ Skew

\* There is nothing to follow up where somebody has approved.
Resumable == pass.live

Skip ==
    /\ pass.stage = "deciding"
    /\ LET p == pass.pr IN
        /\ ~Resumable \/ AlreadyFollowed(p) \/ pass.head = job[p].reviewed
        /\ NextCandidate
    /\ UNCHANGED <<github, refusing, records, timer, history>>

\* The marker is set and saved, and resumeReviewJob asked: it throws at once
\* if the review runs or is gone, and the marker is cleared again.
Mark ==
    /\ pass.stage = "deciding"
    /\ LET p == pass.pr IN
        /\ Resumable /\ Pushed(p) /\ ~AlreadyFollowed(p)
        /\ IF IsActive(p) \/ p \notin listed
           THEN NextCandidate /\ Persisted(p, [job[p] EXCEPT !.marker = NoHead])
           ELSE /\ pass' = [pass EXCEPT !.stage = "resuming"]
                /\ Persisted(p, [job[p] EXCEPT !.marker = pass.head])
    /\ UNCHANGED <<github, refusing, timer, history>>

\* resumeReviewJob passed its admission and its own look at the pull request.
Resume(p) ==
    /\ pass.stage = "resuming" /\ pass.pr = p /\ ~refusing /\ p \in open \ approved
    /\ Persisted(p, [job[p] EXCEPT !.state = "queued"])
    /\ twice' = (twice \/ pass.head \in followed[p])
    /\ followed' = [followed EXCEPT ![p] = @ \cup {pass.head}]
    /\ NextCandidate
    /\ UNCHANGED <<github, refusing, timer, cut>>

\* Defect: the marker stays.
Refused_KeepsMarker ==
    /\ pass.stage = "resuming"
    /\ NextCandidate
    /\ UNCHANGED <<github, refusing, records, timer, history>>

\* It refused: admission, a pull request closed or approved, nothing new any more,
\* GitHub out of reach.
Refused ==
    /\ pass.stage = "resuming"
    /\ NextCandidate
    /\ Persisted(pass.pr, [job[pass.pr] EXCEPT !.marker = NoHead])
    /\ UNCHANGED <<github, refusing, timer, history>>

\* The pass is over; a timer that waits for it is set again.
PassEnds ==
    /\ pass.stage = "asking" /\ pass.todo = {}
    /\ pass' = NoPass /\ chained' = FALSE
    /\ armed' = IF chained THEN enabled ELSE armed
    /\ UNCHANGED <<github, refusing, records, enabled, history>>

-----------------------------------------------------------------------------
\* The process dies and a new one starts: hydrateJobs, configure with the
\* saved settings.
Crash ==
    /\ "crash" \in Faults
    /\ job' = [p \in Prs |-> IF file[p].state \in {"queued", "reading"}
                             THEN [file[p] EXCEPT !.state = "interrupted"] ELSE file[p]]
    /\ file' = job' /\ listed' = stored
    /\ armed' = enabled /\ chained' = FALSE /\ pass' = NoPass
    /\ cut' = IF pass.stage = "resuming" THEN cut \cup {pass.pr} ELSE cut
    /\ UNCHANGED <<github, refusing, stored, enabled, followed, twice>>

PassStep ==
    \/ \E p \in Prs : Ask(p) \/ AskFails(p) \/ Resume(p)
    \/ Skip \/ Mark \/ Refused \/ PassEnds

Next ==
    \/ \E p \in Prs : Push(p) \/ Close(p) \/ ApprovalChanges(p) \/ ResumeByHand(p) \/ RunReads(p)
                        \/ RunEnds(p) \/ Delete(p)
    \/ AdmissionChanges \/ \E b \in BOOLEAN : Configure(b)
    \/ TimerFires \/ CheckNow \/ PassStep \/ Crash

Spec == Init /\ [][Next]_vars

\* Timers fire and callbacks run; GitHub fails or admission refuses, but not
\* every time a candidate's turn comes.
FairSpec ==
    /\ Spec
    /\ WF_vars(TimerFires) /\ WF_vars(PassStep)
    /\ \A p \in Prs : SF_vars(Ask(p)) /\ SF_vars(Resume(p))

-----------------------------------------------------------------------------
(* Properties.                                                             *)

\* While auto-resume is on there is a timer, or a pass that will set it: no
\* order of saving settings, checking by hand and slow passes ends the checks.
AlwaysScheduled == enabled => armed \/ (chained /\ pass # NoPass)

\* "One automatic follow-up per pushed head": whatever the dates of the commits
\* say, refused attempts included, no head is followed up automatically twice.
OncePerHead == ~twice

\* No push is forgotten: the checks go on, and the marker never hides one. A head
\* it names was read by a run, unless the follow-up is still to come or has
\* failed, or the process died between the marker and the resume it stands for.
NoPushForgotten ==
    TypeOK /\ AlwaysScheduled /\ \A p \in listed \ cut :
        job[p].state = "done" /\ job[p].marker = head[p] /\ pass.pr # p
            => job[p].reviewed = head[p]

\* A push to an open pull request whose review has finished is followed up, by
\* whomever, unless GitHub comes to show the pull request as approved, once the
\* watch stays on, admission lets reviews in and the server stays up.
PushIsFollowedUp ==
    <>[]enabled /\ <>[](~refusing) /\ <>[][~Crash]_vars =>
        \A p \in Prs :
            LET waits == /\ p \in listed \ cut /\ p \in open \ approved
                         /\ job[p].state = "done" /\ job[p].reviewed # head[p]
            IN waits ~> ~waits
=============================================================================

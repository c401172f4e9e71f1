------------------------------- MODULE PrReading -------------------------------
(***************************************************************************)
(* What prsnooze concludes from what it reads of a pull request: the pure  *)
(* half of lib/github.js, and the guess lib/review-job.js makes from the   *)
(* commands of an agent.                                                   *)
(***************************************************************************)
EXTENDS Integers, Sequences, FiniteSets

CONSTANT None       \* a login that could not be read; no outcome

ReviewStates == {"COMMENTED", "APPROVED", "CHANGES_REQUESTED", "DISMISSED"}

OwnOnSha(reviews, sha, selfLogin) ==
    {i \in DOMAIN reviews : reviews[i].author = selfLogin /\ reviews[i].commit = sha}

\* Seeded error: only approvals count as having reviewed.
HasOwnReviewOnSha_Approvals(reviews, sha, selfLogin) ==
    selfLogin # None
    /\ \E i \in OwnOnSha(reviews, sha, selfLogin) : reviews[i].state = "APPROVED"

HasOwnReviewOnSha(reviews, sha, selfLogin) ==
    selfLogin # None
    /\ \E i \in OwnOnSha(reviews, sha, selfLogin) :
           reviews[i].state \in {"COMMENTED", "APPROVED", "CHANGES_REQUESTED"}

\* The outcome a skipped review is given: by the first own review on the commit.
SkippedOutcome(reviews, sha, selfLogin) ==
    LET own == OwnOnSha(reviews, sha, selfLogin)
        first == CHOOSE i \in own : \A j \in own : i <= j
    IN  IF reviews[first].state = "APPROVED" THEN "approved" ELSE "commented"

\* What one check says, as a check run or as a commit status.
CheckStates == {"running", "success", "skipped", "failure"}

\* Seeded error: what still runs is not waited for.
CiGate_PendingPasses(result) ==
    /\ result.ok
    /\ \A c \in result.checks : c.state # "failure"
    /\ \E c \in result.checks : c.state = "success"

\* Fails closed: no reading, nothing passed, anything running or failed.
CiGate(result) ==
    /\ result.ok
    /\ \A c \in result.checks : c.state \in {"success", "skipped"}
    /\ \E c \in result.checks : c.state = "success"

Outcomes == {"no_new_findings", "commented", "changes_requested", "approved"}

\* How much an outcome claims, as outcomeFromOwnPosts ranks them.
Claim == [no_new_findings |-> 0, commented |-> 1, changes_requested |-> 2, approved |-> 3]

\* Seeded error: a plain comment outranks an approval.
OutcomeFromOwnPosts_CommentFirst(posts) ==
    IF ~posts.checked THEN None
    ELSE IF "COMMENTED" \in posts.reviews \/ posts.comments > 0 THEN "commented"
    ELSE IF "APPROVED" \in posts.reviews THEN "approved"
    ELSE IF "CHANGES_REQUESTED" \in posts.reviews THEN "changes_requested"
    ELSE "no_new_findings"

\* The strongest of what was posted; None when GitHub could not be asked.
OutcomeFromOwnPosts(posts) ==
    IF ~posts.checked THEN None
    ELSE IF "APPROVED" \in posts.reviews THEN "approved"
    ELSE IF "CHANGES_REQUESTED" \in posts.reviews THEN "changes_requested"
    ELSE IF "COMMENTED" \in posts.reviews \/ posts.comments > 0 THEN "commented"
    ELSE "no_new_findings"

\* A command an agent runs to post: through gh's review command, its comment
\* command or the REST interface, or in a form the guess does not know.
Commands == [form : {"review", "comment", "api", "unknown"}, verb : {"approve", "comment"}]

DetectOutcome(cmd) ==
    IF cmd.form = "unknown" THEN None
    ELSE IF cmd.form \in {"review", "api"} /\ cmd.verb = "approve" THEN "approved"
    ELSE "commented"

=============================================================================

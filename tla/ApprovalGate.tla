----------------------------- MODULE ApprovalGate -----------------------------
(***************************************************************************)
(* What stands in the way of an approval given with the password:          *)
(* lib/approval-gate.js, decided from what fetchApprovalSignals of         *)
(* lib/github.js could read.                                               *)
(*                                                                         *)
(* A comment is a sequence of lines, a line the fence of a code block or   *)
(* the units it is judged in (table cells, then sentences, stripped of     *)
(* markup). A unit carries the severity of the first marker it matches and *)
(* whether one of the negations matches it; the patterns themselves, the   *)
(* quoted evidence and the wording of a refusal are left out.              *)
(***************************************************************************)
EXTENDS Integers, FiniteSets, SequencesExt

Says(level)  == [fence |-> FALSE, units |-> <<[level |-> level, negated |-> FALSE]>>]
Denies(level) == [fence |-> FALSE, units |-> <<[level |-> level, negated |-> TRUE]>>]
Both(level)  == [fence |-> FALSE, units |-> Denies(level).units \o Says(level).units]
Fence        == [fence |-> TRUE, units |-> <<>>]

\* Seeded error: the fence is not looked for.
InFence_Ignored(text, i) == FALSE

InFence(text, i) == Cardinality({j \in 1..i : text[j].fence}) % 2 = 1

Units(text) ==
    UNION {ToSet(text[i].units) : i \in {i \in DOMAIN text : ~text[i].fence /\ ~InFence(text, i)}}

Worst(levels) ==
    IF "critical" \in levels THEN "critical" ELSE IF "major" \in levels THEN "major" ELSE "none"

\* Seeded error: one negation waves off everything said beside it.
ClassifySeverity_WholeText(text) ==
    IF \E u \in Units(text) : u.negated THEN "none" ELSE Worst({u.level : u \in Units(text)})

ClassifySeverity(text) == Worst({u.level : u \in {u \in Units(text) : ~u.negated}})

WorstInThread(thread) == Worst({ClassifySeverity(c) : c \in ToSet(thread.comments)})

\* The three kinds of blocker, over what was read of the pull request.
ChangesRequested(signals) ==
    {r \in signals.latestReviews : r.state = "CHANGES_REQUESTED"}

OpenThreads(signals) ==
    {t \in ToSet(signals.threads) : ~t.isResolved /\ WorstInThread(t) # "none"}

\* Seeded error: findings on replaced code still hold the approval.
OpenFindings_AnyHead(signals) ==
    {r \in signals.reviews : r.state \notin {"APPROVED", "DISMISSED", "PENDING"}
                             /\ ClassifySeverity(r.text) # "none"}

OpenFindings(signals) ==
    {r \in signals.reviews : r.state \notin {"APPROVED", "DISMISSED", "PENDING"}
                             /\ r.commit = signals.head
                             /\ ClassifySeverity(r.text) # "none"}

\* The refusals in the order they are tried; the first that applies answers.
Refusals(signals, hostLogin) ==
    << <<~signals.ok, "UNVERIFIED">>,
       <<signals.state # "OPEN", "NOT_OPEN">>,
       <<hostLogin = signals.author, "OWN_PR">>,
       <<ChangesRequested(signals) # {}, "CHANGES_REQUESTED">>,
       <<OpenThreads(signals) \cup OpenFindings(signals) # {}, "OPEN_CRITICAL_COMMENTS">> >>

\* Seeded error: GitHub not answering lets the approval through, as the
\* browser's button does.
AssessForcedApproval_FailsOpen(signals, hostLogin) ==
    LET refusals == Refusals(signals, hostLogin)
        hits == {i \in DOMAIN refusals : refusals[i][1]} \ {1}
    IN  IF ~signals.ok \/ hits = {} THEN "CLEAR" ELSE refusals[Min(hits)][2]

AssessForcedApproval(signals, hostLogin) ==
    LET refusals == Refusals(signals, hostLogin)
        hits == {i \in DOMAIN refusals : refusals[i][1]}
    IN  IF hits = {} THEN "CLEAR" ELSE refusals[Min(hits)][2]

=============================================================================

------------------------------ MODULE ReviewPrompt ------------------------------
(***************************************************************************)
(* What an agent is told: the skill it reviews by (lib/skill-resolver.js), *)
(* the blocks of its prompt and their order (lib/claude-runner.js,         *)
(* buildVerifyPrompt of lib/review-job.js), and the approval policy among  *)
(* them, as a rule that says which verb a reviewer who obeys it posts.     *)
(* The wording is left out.                                                *)
(***************************************************************************)
EXTENDS Integers, Sequences

-----------------------------------------------------------------------------
(* The skill. A file is absent, empty or has a text.                       *)

Files == {"absent", "empty", "text"}

First(paths, file) ==
    LET there == SelectSeq(paths, LAMBDA p : file[p] # "absent")
    IN  IF there = <<>> THEN <<>> ELSE <<there[1]>>

\* Seeded error: the project's skill is read from the worktree, which is the
\* pull request's own code.
ResolveReviewSkill_Worktree(projectPaths, userPaths, base, head, home, bundled) ==
    LET project == First(projectPaths, head)
    IN  IF project # <<>>
        THEN [source |-> "project", from |-> "head", body |-> head[project[1]], subordinate |-> "absent"]
        ELSE [source |-> "bundled", from |-> "install", body |-> bundled, subordinate |-> "absent"]

\* Seeded error: the first file found is the whole answer.
ResolveReviewSkill_OneLayer(projectPaths, userPaths, base, head, home, bundled) ==
    LET project == First(projectPaths, base)  user == First(userPaths, home)
    IN  [source |-> IF project # <<>> THEN "project" ELSE IF user # <<>> THEN "user" ELSE "bundled",
         from |-> IF project # <<>> THEN "base" ELSE IF user # <<>> THEN "home" ELSE "install",
         body |-> IF project # <<>> THEN base[project[1]]
                  ELSE IF user # <<>> THEN home[user[1]] ELSE bundled,
         subordinate |-> "absent"]

\* The project's skill as the base branch has it, with this host's own below it;
\* else this host's; else the bundled one. What only the pull request's branch
\* has is as good as absent.
ResolveReviewSkill(projectPaths, userPaths, base, head, home, bundled) ==
    LET project == First(projectPaths, base)  user == First(userPaths, home)
    IN  IF project # <<>>
        THEN [source |-> "project", from |-> "base", body |-> base[project[1]],
              subordinate |-> IF user = <<>> THEN "absent" ELSE home[user[1]]]
        ELSE IF user # <<>>
        THEN [source |-> "user", from |-> "home", body |-> home[user[1]], subordinate |-> "absent"]
        ELSE [source |-> "bundled", from |-> "install", body |-> bundled, subordinate |-> "absent"]

-----------------------------------------------------------------------------
(* The approval policy.                                                    *)

Top == {"T1", "T2", "T3"}

Codes == Top \cup {"M1", "M2", "M3", "M5"}

Bumps == {"none", "patch", "minor", "major"}

Reducers == {"cosmetic", "tests_or_docs", "matching_tests", "new_tests"}

\* What the reviewer finds the change to touch: the codes it hits, the version
\* bump of a dependency (M4), how many scopes have no bound (U1), and reducers.
Risk(change) ==
      (IF "T1" \in change.hits THEN 50 ELSE 0)
    + (IF "T2" \in change.hits THEN 50 ELSE 0)
    + (IF "T3" \in change.hits THEN 50 ELSE 0)
    + (IF "M1" \in change.hits THEN 30 ELSE 0)
    + (IF "M2" \in change.hits THEN 30 ELSE 0)
    + (IF "M3" \in change.hits THEN 20 ELSE 0)
    + (IF "M5" \in change.hits THEN 20 ELSE 0)
    + (CASE change.bump = "major" -> 25 [] change.bump = "minor" -> 10
         [] change.bump = "patch" -> 2 [] OTHER -> 0)
    + 15 * change.unclear

Reduction(change) ==
      (IF "cosmetic" \in change.reducers THEN 25 ELSE 0)
    + (IF "tests_or_docs" \in change.reducers THEN 20 ELSE 0)
    + (IF "matching_tests" \in change.reducers THEN 15 ELSE 0)
    + (IF "new_tests" \in change.reducers THEN 10 ELSE 0)

Score(change) ==
    Risk(change) - (IF change.hits \cap Top # {} /\ Reduction(change) > 20
                    THEN 20 ELSE Reduction(change))

\* What counts against an approval: on a first pass the critical and major
\* findings, on a resume whatever is still open or new.
Blocking(policy, appraisal) ==
    IF policy.reReview THEN appraisal.findings # {}
    ELSE appraisal.findings \cap {"critical", "major"} # {}

\* The block an approval context turns into.
ApprovalBlock(approval) ==
    [block |-> "approval", mayApprove |-> approval.autoApprove, reReview |-> approval.reReview]

\* Seeded error: the findings gate is left out of the policy.
Verbs_Findings(policy, appraisal) ==
    IF policy.mayApprove /\ appraisal.exercised /\ Score(appraisal.change) <= 20
    THEN {"approve"} ELSE {"comment"}

\* What a reviewer who obeys the block posts.
Verbs(policy, appraisal) ==
    IF /\ policy.mayApprove /\ appraisal.exercised
       /\ ~Blocking(policy, appraisal) /\ Score(appraisal.change) <= 20
    THEN {"approve"} ELSE {"comment"}

-----------------------------------------------------------------------------
(* The prompts.                                                            *)

Block(name) == [block |-> name]

If(condition, blocks) == IF condition THEN blocks ELSE <<>>

WorkingTreeBlock(atPrHead) == [block |-> "tree", preChange |-> ~atPrHead]

\* Seeded error: the floor is only set under a skill of the host that won.
BuildPrompt_FloorIfWon(skill, approval, atPrHead, intent) ==
    <<ApprovalBlock(approval), WorkingTreeBlock(atPrHead), Block("defaults"), Block(skill.source)>>
    \o If(skill.subordinate = "text", <<Block("developer")>>)
    \o If(intent, <<Block("focus")>>)
    \o If(skill.source = "user", <<Block("floor")>>)

\* A skill without a text makes a generic review. The floor comes with any skill
\* of the host, also an empty one below the project's.
BuildPrompt(skill, approval, atPrHead, intent) ==
    <<ApprovalBlock(approval), WorkingTreeBlock(atPrHead), Block("defaults")>>
    \o IF skill.body = "text"
       THEN <<Block(skill.source)>>
            \o If(skill.subordinate = "text", <<Block("developer")>>)
            \o If(intent, <<Block("focus")>>)
            \o If(skill.source = "user" \/ skill.subordinate # "absent", <<Block("floor")>>)
       ELSE If(intent, <<Block("focus")>>)

\* Seeded error: a resume is not told what allows an approval.
BuildVerifyPrompt_NoPolicy(ownerMessage, approval, atPrHead) ==
    If(ownerMessage, <<Block("owner")>>) \o <<WorkingTreeBlock(atPrHead)>>

BuildVerifyPrompt(ownerMessage, approval, atPrHead) ==
    If(ownerMessage, <<Block("owner")>>)
    \o <<ApprovalBlock([approval EXCEPT !.reReview = TRUE]), WorkingTreeBlock(atPrHead)>>

\* Which verbs an agent with this prompt may post: without a policy, any.
Allowed(prompt, appraisal) ==
    LET policies == {i \in DOMAIN prompt : prompt[i].block = "approval"}
        first == CHOOSE i \in policies : \A k \in policies : i <= k
    IN  IF policies = {} THEN {"approve", "comment"} ELSE Verbs(prompt[first], appraisal)

=============================================================================

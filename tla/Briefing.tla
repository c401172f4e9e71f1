------------------------------- MODULE Briefing -------------------------------
(***************************************************************************)
(* Whose words an agent follows.  The skill files change on the pull       *)
(* request's branch, on the base branch and on this host, and each review  *)
(* is briefed from what it finds (resolveReviewSkill of                    *)
(* lib/skill-resolver.js, buildPrompt of lib/claude-runner.js).            *)
(***************************************************************************)
EXTENDS ReviewPrompt, FiniteSets

CONSTANTS ProjectPaths, UserPaths     \* where a skill is looked for, in order

VARIABLES base, head, home,  \* the skill files of the base branch, of the pull request, of this host
          bundled            \* the skill this install comes with

vars == <<base, head, home, bundled>>

ProjectFiles == {ProjectPaths[i] : i \in 1 .. Len(ProjectPaths)}

UserFiles == {UserPaths[i] : i \in 1 .. Len(UserPaths)}

TypeOK ==
    /\ {base, head} \subseteq [ProjectFiles -> Files]
    /\ home \in [UserFiles -> Files] /\ bundled \in Files

Init ==
    /\ base = [p \in ProjectFiles |-> "absent"] /\ head = base
    /\ home = [p \in UserFiles |-> "absent"] /\ bundled \in Files

Push(p, f) == head' = [head EXCEPT ![p] = f] /\ UNCHANGED <<base, home, bundled>>

Merge == base' = head /\ UNCHANGED <<head, home, bundled>>

HostWrites(p, f) == home' = [home EXCEPT ![p] = f] /\ UNCHANGED <<base, head, bundled>>

Next ==
    \/ \E p \in ProjectFiles, f \in Files : Push(p, f)
    \/ \E p \in UserFiles, f \in Files : HostWrites(p, f)
    \/ Merge

Spec == Init /\ [][Next]_vars

\* The blocks of a first review's prompt, were the pull request's branch this.
Prompt(branch, intent) ==
    BuildPrompt(ResolveReviewSkill(ProjectPaths, UserPaths, base, branch, home, bundled),
                [autoApprove |-> TRUE, reReview |-> FALSE], TRUE, intent)

Names(prompt) == {prompt[i].block : i \in 1 .. Len(prompt)}

HostSkill == First(UserPaths, home)

(* A pull request has no say in how it is reviewed: whatever skill files   *)
(* its branch has, the prompt is the same; and a text of this host's own   *)
(* skill is in it, with the floor of what a review covers, unless the      *)
(* project's skill is there and empty; the owner's focus always is         *)
(* (skill-resolver.js:33-165, claude-runner.js:487-530).                   *)
BriefedByTheHost ==
    /\ TypeOK
    /\ \A branch \in [ProjectFiles -> Files], intent \in BOOLEAN :
        Prompt(branch, intent) = Prompt(head, intent)
    /\ \A intent \in BOOLEAN :
        /\ intent => "focus" \in Names(Prompt(head, intent))
        /\ HostSkill # <<>> =>
            LET project == First(ProjectPaths, base) IN
            (home[HostSkill[1]] = "text" /\ (project = <<>> \/ base[project[1]] = "text"))
                => {"user", "developer"} \cap Names(Prompt(head, intent)) # {}
                   /\ "floor" \in Names(Prompt(head, intent))
=============================================================================

-------------------------------- MODULE MCHost --------------------------------
(***************************************************************************)
(* The parts of the host that share no state with one another, checked one *)
(* at a time in one run: the initial state picks the part that moves.      *)
(***************************************************************************)
EXTENDS Naturals, FiniteSets

CONSTANTS Calls, LockAttempts, LockStale,              \* of TrustLock
    Tokens, Passwords, MaxFails, BaseLock, MaxLock, Forget, SessionTtl, Limit, LastTick, \* of Access
    Reviews, CliTimeout, ReadingTtl, StaleAfter, MaxTime, MaxChanges, \* of Admission
    Resumes,                                           \* of FollowUp
    MaxLines,                                          \* of AgentRun
    ProjectPaths, UserPaths                            \* of Briefing

\* The two programs' marks are no clones.
ASSUME TrustAssumption ==
    /\ {"claude", "free"} \cap Calls = {}
    /\ LockAttempts \in Nat /\ LockStale \in Nat

\* The defaults of createAttemptLimiter and createSettingsSessions are positive.
ASSUME AccessAssumption ==
    /\ IsFiniteSet(Calls) /\ Passwords # {}
    /\ {MaxFails, BaseLock, MaxLock, SessionTtl, Limit} \subseteq Nat \ {0}
    /\ {Forget, LastTick} \subseteq Nat

ASSUME AgentAssumption == MaxLines \in Nat

ASSUME AdmissionAssumption == MaxTime \in Nat /\ CliTimeout \in Nat

VARIABLES part,
    file, tmp, lock, age, pc, tries, read, answer, claude, saw, written, wentStale,
    clock, record, checking, misses, runOuts, password, sessions, disk, issued, revoked, unsaved,
    now, changes, truth, good, accepting, disabled, floor, cache, inflight, first, req,
    at, owners, state, verify, note, session, line, runs, heard, fresh, raced,
    provider, said, open, pipe, child, buffer, final, model, events,
    lastResult, lastText, outcome, agentPid, settled, reason,
    base, head, home, bundled

trust == <<file, tmp, lock, age, pc, tries, read, answer, claude, saw, written, wentStale>>

access == <<clock, record, checking, misses, runOuts, password, sessions, disk, issued, revoked, unsaved>>

admission == <<now, changes, truth, good, accepting, disabled, floor, cache, inflight, first, req>>

followUp == <<at, owners, state, verify, note, session, line, runs, heard, fresh, raced>>

agent == <<provider, said, open, pipe, child, buffer, final, model, events,
    lastResult, lastText, outcome, agentPid, settled, reason>>

briefing == <<base, head, home, bundled>>

Trust == INSTANCE TrustLock WITH Repos <- Calls

Unlocking == INSTANCE Access WITH Requests <- Calls, Ttl <- SessionTtl, MaxTime <- LastTick

Entry == INSTANCE Admission WITH Requests <- Reviews, Ttl <- ReadingTtl, Stale <- StaleAfter

Notes == INSTANCE FollowUp

Agent == INSTANCE AgentRun

Brief == INSTANCE Briefing

\* For TLC: where the resolver looks in a clone, and on the host.
TwoPaths == <<"of the project", "of the project, alt">>

OnePath == <<"of the user">>

\* What an initial state leaves open is settled in the parts that do not move.
Init ==
    /\ part \in {"trust", "access", "admission", "follow-up", "agent", "briefing"}
    /\ Trust!Init /\ Unlocking!Init /\ Entry!Init /\ Notes!Init /\ Agent!Init /\ Brief!Init
    /\ part # "access" => password = CHOOSE p \in Passwords : TRUE
    /\ part # "admission" => truth = [k \in {"model", "usage"} |-> 1]
    /\ part # "follow-up" => owners = {} /\ state = "done" /\ session
    /\ part # "agent" => provider = "claude" /\ child = "alive" /\ model
    /\ part # "briefing" => bundled = "text"

Next ==
    \/ /\ part = "trust" /\ Trust!Next
       /\ UNCHANGED <<part, access, admission, followUp, agent, briefing>>
    \/ /\ part = "access" /\ Unlocking!Next
       /\ UNCHANGED <<part, trust, admission, followUp, agent, briefing>>
    \/ /\ part = "admission" /\ Entry!Next
       /\ UNCHANGED <<part, trust, access, followUp, agent, briefing>>
    \/ /\ part = "follow-up" /\ Notes!Next
       /\ UNCHANGED <<part, trust, access, admission, agent, briefing>>
    \/ /\ part = "agent" /\ Agent!Next
       /\ UNCHANGED <<part, trust, access, admission, followUp, briefing>>
    \/ /\ part = "briefing" /\ Brief!Next
       /\ UNCHANGED <<part, trust, access, admission, followUp, agent>>

Spec == Init /\ [][Next]_<<part, trust, access, admission, followUp, agent, briefing>>

-----------------------------------------------------------------------------
(* Each is about the part that moves; the others are as they began.       *)

\* Without a lock old enough to be removed, no entry of the agent's config file
\* is ever lost (claude-trust.js).
WrittenStays == part = "trust" => Trust!WrittenStays

\* Wrong passwords keep to the pace of the locks, and a session that opens the
\* settings was earned (remote-api.js, settings-sessions.js).
UnlockIsEarned == part = "access" => Unlocking!UnlockIsEarned

\* A review is admitted on what held at some moment about when it was asked for
\* (enforceAdmission).
AdmittedOnTrueReadings == part = "admission" => Entry!AdmittedOnTrueReadings

\* The run of a resume is given the note that resume came with, and no other
\* (resumeReviewJob).
NoteIsOfItsResume == part = "follow-up" => Notes!NoteIsOfItsResume

\* All an agent wrote is passed on once and in order before its run is over
\* (runClaude, runCodex, runProviderProcess).
AgentIsHeard == part = "agent" => Agent!AgentIsHeard

\* The branch under review does not change what its reviewer is told
\* (resolveReviewSkill, buildPrompt).
BriefedByTheHost == part = "briefing" => Brief!BriefedByTheHost
=============================================================================

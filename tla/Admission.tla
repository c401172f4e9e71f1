------------------------------- MODULE Admission -------------------------------
(***************************************************************************)
(* How a review gets in: enforceAdmission of server.js with its awaits,    *)
(* over the cached readings of the plan and the model                      *)
(* (lib/claude-usage.js, lib/claude-model.js, lib/admission-policy.js) and *)
(* settings that change meanwhile.  What a submitted or resumed review     *)
(* does once it is in is in JobLifecycle and FollowUp.                     *)
(***************************************************************************)
EXTENDS Integers

CONSTANTS Requests,            \* each asks once
          CliTimeout,          \* longest a reading takes (CLI_TIMEOUT_MS), in ticks
          Ttl, Stale,          \* a reading the page may reuse; one a failure falls back to
          MaxTime, MaxChanges  \* bounds: of time, of changes to settings and plan

VARIABLES now, changes,
          truth,               \* what the CLI would say: model 0 is the blocked one; plan left
          good,                \* of each kind, the last moment it was 1 (history)
          accepting, disabled, floor,  \* instance settings; disabled is about Claude
          cache,               \* of each kind of reading: what it was and since when
          inflight, first,     \* when the CLI was started, or Idle; what held then
          req                  \* of each request: how far it got, and what it met when it asked

vars == <<now, changes, truth, good, accepting, disabled, floor, cache, inflight, first, req>>

world == <<now, changes, truth, good, accepting, disabled, floor>>

Idle == -1

Kinds == {"model", "usage"}

Nobody == [at |-> "none", claude |-> FALSE, asked |-> 0, floor |-> 0, open |-> FALSE]

Refused == [Nobody EXCEPT !.at = "refused"]

TypeOK ==
    /\ now \in 0 .. MaxTime /\ floor \in {0, 1} /\ {accepting, disabled} \subseteq BOOLEAN
    /\ \A k \in Kinds : /\ truth[k] \in {0, 1} /\ inflight[k] \in {Idle} \cup 0 .. MaxTime
                        /\ cache[k].at \in 0 .. MaxTime
                        /\ cache[k].got \in {"nothing", "value", "failure"}
    /\ \A r \in Requests : req[r].at \in {"none", "model", "usage", "in", "refused"}

Init ==
    /\ now = 0 /\ changes = 0 /\ truth \in [Kinds -> {0, 1}]
    /\ good = [k \in Kinds |-> IF truth[k] = 1 THEN 0 ELSE -CliTimeout - 1]
    /\ accepting = TRUE /\ disabled = FALSE /\ floor = 1
    /\ cache = [k \in Kinds |-> [at |-> 0, got |-> "nothing", value |-> 0]]
    /\ inflight = [k \in Kinds |-> Idle] /\ first = [k \in Kinds |-> 0]
    /\ req = [r \in Requests |-> Nobody]

-----------------------------------------------------------------------------
(* The host: time, its plan and model, its settings.                       *)

\* A CLI that does not answer is killed at CliTimeout.
Tick ==
    /\ now < MaxTime /\ now' = now + 1
    /\ \A k \in Kinds : inflight[k] = Idle \/ now - inflight[k] < CliTimeout
    /\ good' = [k \in Kinds |-> IF truth[k] = 1 THEN now' ELSE good[k]]
    /\ UNCHANGED <<changes, truth, accepting, disabled, floor, cache, inflight, first, req>>

Change ==
    /\ changes < MaxChanges /\ changes' = changes + 1
    /\ UNCHANGED <<now, cache, inflight, first, req>>

HostChanges(k) ==
    /\ Change /\ truth' = [truth EXCEPT ![k] = 1 - @]
    /\ good' = [good EXCEPT ![k] = IF truth'[k] = 1 THEN now ELSE @]
    /\ UNCHANGED <<accepting, disabled, floor>>

SettingsChange ==
    /\ Change
    /\ \/ accepting' = ~accepting /\ UNCHANGED <<disabled, floor>>
       \/ disabled' = ~disabled /\ UNCHANGED <<accepting, floor>>
       \/ floor' = 1 - floor /\ UNCHANGED <<accepting, disabled>>
    /\ UNCHANGED <<truth, good>>

-----------------------------------------------------------------------------
(* Readings: getUsage and getModel.                                        *)

\* One CLI process, however many wait for it: a forced caller joins it as well.
Starts(kinds) ==
    LET new == {k \in kinds : inflight[k] = Idle}
    IN  /\ inflight' = [k \in Kinds |-> IF k \in new THEN now ELSE inflight[k]]
        /\ first' = [k \in Kinds |-> IF k \in new THEN truth[k] ELSE first[k]]

\* The page asks without force; a fresh reading is reused.
PageAsks(k) ==
    /\ inflight[k] = Idle
    /\ cache[k].got = "nothing" \/ now - cache[k].at >= Ttl
    /\ Starts({k})
    /\ UNCHANGED <<world, cache, req>>

Fallback(k) == cache[k].got = "value" /\ now - cache[k].at < Stale

\* What the callers are handed: what held at some moment since the CLI was
\* started; or no value, when it says nothing that can be parsed or fails; or,
\* when it fails, the last good reading, marked stale.
Answers(k) ==
    [got : {"value"}, value : {first[k], truth[k]}] \cup [got : {"failure"}, value : {0}]
    \cup (IF Fallback(k) THEN {[got |-> "stale", value |-> cache[k].value]} ELSE {})

\* A stale reading stays the one it was; all others are remembered.
Remembered(k, answer) ==
    IF answer.got = "stale" THEN cache[k] ELSE [at |-> now, got |-> answer.got, value |-> answer.value]

-----------------------------------------------------------------------------
(* enforceAdmission.                                                       *)

\* Seeded error: only ok is looked at.
Usable_Stale(answer) == answer.got # "failure"

\* ok and not stale.
Usable(answer) == answer.got = "value"

\* The settings are read here, the floor too; Codex has no reading to wait for.
Ask(r, claude) ==
    LET open == accepting /\ ~(claude /\ disabled)
    IN  /\ req[r].at = "none"
        /\ req' = [req EXCEPT ![r] =
                     IF open THEN [at |-> IF claude THEN "model" ELSE "in", claude |-> claude,
                                   asked |-> now, floor |-> floor, open |-> open]
                     ELSE Refused]
        /\ Starts(IF open /\ claude THEN {"model"} ELSE {})
        /\ UNCHANGED <<world, cache>>

\* Where a request goes when the reading it waits for is there. A plan of 0 is
\* below a floor of 1; a floor of 0 needs no reading of the plan.
After(r, k, answer) ==
    LET least == IF k = "model" THEN 1 ELSE req[r].floor
    IN  IF ~Usable(answer) \/ answer.value < least THEN "refused"
        ELSE IF k = "model" /\ req[r].floor > 0 THEN "usage" ELSE "in"

\* Everyone who waits is answered together; those who need the plan ask for it.
ReadingEnds(k) ==
    /\ inflight[k] # Idle
    /\ \E answer \in Answers(k) :
        LET to(r) == IF req[r].at = k THEN After(r, k, answer) ELSE req[r].at
            asks == inflight["usage"] = Idle /\ \E r \in Requests : req[r].at = k /\ to(r) = "usage"
        IN  /\ req' = [r \in Requests |-> IF to(r) = "refused" THEN Refused ELSE [req[r] EXCEPT !.at = to(r)]]
            /\ cache' = [cache EXCEPT ![k] = Remembered(k, answer)]
            /\ inflight' = [j \in Kinds |-> IF j = "usage" /\ asks THEN now
                                            ELSE IF j = k THEN Idle ELSE inflight[j]]
            /\ first' = IF asks THEN [first EXCEPT !["usage"] = truth["usage"]] ELSE first
    /\ UNCHANGED world

Next ==
    \/ Tick \/ SettingsChange
    \/ \E k \in Kinds : HostChanges(k) \/ PageAsks(k) \/ ReadingEnds(k)
    \/ \E r \in Requests, claude \in BOOLEAN : Ask(r, claude)

Spec == Init /\ [][Next]_vars

-----------------------------------------------------------------------------
(* A review by Claude is past admission only if intake was open when it    *)
(* was asked for, and at some moment since one CLI call before then the    *)
(* model was not the blocked one and, where a floor was set, the plan was  *)
(* not below it: no cached, stale or unreadable reading lets one in,       *)
(* however readings are shared (server.js:585-624).                        *)
AdmittedOnTrueReadings ==
    /\ TypeOK
    /\ \A r \in Requests : req[r].at = "in" =>
        /\ req[r].open
        /\ req[r].claude =>
            /\ good["model"] >= req[r].asked - CliTimeout
            /\ req[r].floor = 1 => good["usage"] >= req[r].asked - CliTimeout
=============================================================================

------------------------------- MODULE FollowUp -------------------------------
(***************************************************************************)
(* Resuming one review, with or without a note from the owner              *)
(* (resumeReviewJob of server.js, resumeGate of lib/github.js): the note   *)
(* and the mode are fields of the record, written when the resume commits, *)
(* read when the run starts and when its prompt is built, and cleared at   *)
(* the end of runVerifyJob (lib/review-job.js).                            *)
(***************************************************************************)
EXTENDS Integers, Sequences, FiniteSets

CONSTANTS Resumes             \* each asks once

VARIABLES at,                 \* how far each resume got
          owners,             \* the resumes that carry a note
          state, verify,      \* the record: its state, and whether its mode is "verify"
          note, session,      \* the note in it, as the resume it came with; a session is recorded
          line, runs,         \* its places in the queue and its runs, by the resume that made them
          heard, fresh,       \* resume |-> whose note its run was given; runs not a resume (history)
          raced               \* it was put in the queue while it was in it (history)

vars == <<at, owners, state, verify, note, session, line, runs, heard, fresh, raced>>

None == "none"

\* What the pull request looks like to assessJobResume.
Findings == {"resumable", "unchanged", "closed", "unreadable"}

TypeOK ==
    /\ at \in [Resumes -> {"new", "admission", "assess", "committed", "refused"}]
    /\ state \in {"done", "failed", "queued", "running"} /\ verify \in BOOLEAN
    /\ note \in Resumes \cup {None} /\ runs \subseteq Resumes
    /\ {owners, fresh, DOMAIN heard} \subseteq SUBSET Resumes

Init ==
    /\ at = [r \in Resumes |-> "new"] /\ owners \in SUBSET Resumes
    /\ state \in {"done", "failed"} /\ verify = FALSE /\ note = None /\ session \in BOOLEAN
    /\ line = <<>> /\ runs = {} /\ heard = [r \in {} |-> None] /\ fresh = {} /\ raced = FALSE

Active == state \in {"queued", "running"}

Moves(r, from, to) == at[r] = from /\ at' = [at EXCEPT ![r] = to]

\* Without a session, or while it is active, there is no resume.
Ask(r) ==
    /\ Moves(r, "new", IF session /\ ~Active THEN "admission" ELSE "refused")
    /\ UNCHANGED <<owners, state, verify, note, session, line, runs, heard, fresh, raced>>

\* enforceAdmission, of which Admission says when it lets one pass.
Admission(r) ==
    /\ \/ Moves(r, "admission", "assess") \/ Moves(r, "admission", "refused")
    /\ UNCHANGED <<owners, state, verify, note, session, line, runs, heard, fresh, raced>>

\* resumeGate: a note forces, but not past a closed pull request.
Allowed(r, found) == found = "resumable" \/ (r \in owners /\ found # "closed")

\* Seeded error: a note stays until another one comes.
NoteOf_Inherited(r) == IF r \in owners THEN r ELSE note

\* Always overwritten, never inherited.
NoteOf(r) == IF r \in owners THEN r ELSE None

\* assessJobResume has answered: the rest of the handler is one step.
Settle(r, found) ==
    IF Allowed(r, found)
    THEN /\ Moves(r, "assess", "committed")
         /\ state' = "queued" /\ verify' = TRUE /\ note' = NoteOf(r)
         /\ raced' = (raced \/ line # <<>> \/ runs # {})
         /\ line' = Append(line, r)
         /\ UNCHANGED <<owners, session, runs, heard, fresh>>
    ELSE /\ Moves(r, "assess", "refused")
         /\ UNCHANGED <<owners, state, verify, note, session, line, runs, heard, fresh, raced>>

\* Seeded error: the runner is chosen by whether there is a note.
RunStarts_ByNote ==
    /\ line # <<>>
    /\ line' = Tail(line) /\ runs' = runs \cup {Head(line)} /\ state' = "running"
    /\ fresh' = IF note # None THEN fresh ELSE fresh \cup {Head(line)}
    /\ UNCHANGED <<at, owners, verify, note, session, heard, raced>>

\* The queue's runner: runVerifyJob or runReviewJob, by the mode of the record.
RunStarts ==
    /\ line # <<>>
    /\ line' = Tail(line) /\ runs' = runs \cup {Head(line)} /\ state' = "running"
    /\ fresh' = IF verify THEN fresh ELSE fresh \cup {Head(line)}
    /\ UNCHANGED <<at, owners, verify, note, session, heard, raced>>

\* buildVerifyPrompt, after the run's own awaits.
ReadsNote(r) ==
    /\ r \in runs \ (fresh \cup DOMAIN heard)
    /\ heard' = [q \in DOMAIN heard \cup {r} |-> IF q = r THEN note ELSE heard[q]]
    /\ UNCHANGED <<at, owners, state, verify, note, session, line, runs, fresh, raced>>

\* Only a resume that ends well clears mode and note.
Succeeds(r) ==
    /\ r \in runs /\ (r \in fresh \/ r \in DOMAIN heard)
    /\ runs' = runs \ {r} /\ state' = "done"
    /\ IF r \in fresh THEN UNCHANGED <<verify, note>> ELSE verify' = FALSE /\ note' = None
    /\ UNCHANGED <<at, owners, session, line, heard, fresh, raced>>

Fails(r) ==
    /\ r \in runs
    /\ runs' = runs \ {r} /\ state' = "failed"
    /\ UNCHANGED <<at, owners, verify, note, session, line, heard, fresh, raced>>

Next ==
    \/ \E r \in Resumes : Ask(r) \/ Admission(r) \/ ReadsNote(r) \/ Succeeds(r) \/ Fails(r)
    \/ \E r \in Resumes, found \in Findings : Settle(r, found)
    \/ RunStarts

Spec == Init /\ [][Next]_vars

-----------------------------------------------------------------------------
(* The run of a resume is a resume, and is given exactly the note that     *)
(* resume was sent with, none if it had none, whatever became of earlier   *)
(* resumes, unless two resumes of the review were in the queue together    *)
(* (server.js:948-952, review-job.js:690-723).                             *)
NoteIsOfItsResume ==
    /\ TypeOK
    /\ ~raced => fresh = {} /\ \A r \in DOMAIN heard :
                    heard[r] = IF r \in owners THEN r ELSE None
=============================================================================

---------------------------- MODULE MentionWatch ----------------------------
(***************************************************************************)
(* lib/mention-watch.js: the timed poll that turns comments mentioning the *)
(* host into reviews, its clock, its list of handled comments and the file *)
(* both are kept in.                                                       *)
(*                                                                         *)
(* A poll awaits GitHub once per pull request and the admission checks     *)
(* once per review it asks for; comments appear, reviews start and end,    *)
(* and the owner changes settings meanwhile.  GitHub's search may show a   *)
(* comment up to Overlap after its creation, which is what the code's      *)
(* OVERLAP_MS is for.  Comments the filters drop (bots, strangers, quotes) *)
(* are left out: a mention here is one that counts.                        *)
(***************************************************************************)
EXTENDS Integers, FiniteSets, FiniteSetsExt

CONSTANTS
    Mentions,   \* comments
    Prs,        \* pull requests
    None,
    Overlap,    \* OVERLAP_MS
    Day,        \* PENDING_MAX_AGE_MS
    MaxTime,    \* bound: the clock stops here
    Faults      \* which faults happen: "throw" (GitHub fails in the middle of
                \* a poll), "save" (the file cannot be written), "crash"

ASSUME TimeAssumption ==
    /\ Overlap \in Nat /\ Day \in Nat /\ MaxTime \in Nat \ {0}
    /\ Faults \subseteq {"throw", "save", "crash"}

ASSUME NoneAssumption == None \notin Prs /\ None \notin Mentions

Times == 1..MaxTime

NoClock == 0    \* `since` is null; `at` of a comment not written yet

VARIABLES
    now,
    at, pr, seen,     \* the comments: creation time, pull request, shown by GitHub
    busy,             \* pull requests with a queued or running review
    enabled, state,   \* the watcher: config.enabled, {since, handled, pending}
    file,             \* mention-watch.json
    poll,             \* the pass in progress, if any
    ask,              \* the review it is asking for, if any
    turnedOn,         \* history: when the watch was last turned on
    dealt,            \* history: comments ever marked as handled
    via,              \* history: via[m] is the comment retried in m's place
    answered,         \* history: reviews queued because of each comment, up to 2
    forgotten,        \* history: comments a pass dealt with that ended before it was kept
    reachedBack       \* history: a review was queued for a comment older than turnedOn

comments == <<at, pr, seen>>

history == <<turnedOn, dealt, via, answered, forgotten, reachedBack>>

vars == <<now, comments, busy, enabled, state, file, poll, ask, history>>

States == [since : Times \cup {NoClock}, handled : SUBSET Mentions,
           pending : SUBSET Mentions]

NoPoll == [on |-> FALSE, startedAt |-> NoClock, from |-> NoClock,
           todo |-> {}, handled |-> {}, still |-> {}]

NoAsk == [pr |-> None, fresh |-> {}, trigger |-> None]

TypeOK ==
    /\ now \in Times
    /\ at \in [Mentions -> Times \cup {NoClock}] /\ pr \in [Mentions -> Prs]
    /\ seen \in SUBSET Mentions /\ busy \in SUBSET Prs
    /\ enabled \in BOOLEAN /\ state \in States /\ file \in States
    /\ poll \in [on : BOOLEAN, startedAt : Times \cup {NoClock}, from : Int,
                 todo : SUBSET Prs, handled : SUBSET Mentions, still : SUBSET Mentions]
    /\ ask \in [pr : Prs \cup {None}, fresh : SUBSET Mentions,
                trigger : Mentions \cup {None}]
    /\ turnedOn \in Times \cup {NoClock} /\ dealt \in SUBSET Mentions
    /\ via \in [Mentions -> Mentions] /\ answered \in [Mentions -> 0..2]
    /\ forgotten \in SUBSET Mentions /\ reachedBack \in BOOLEAN

Empty == [since |-> NoClock, handled |-> {}, pending |-> {}]

Init ==
    /\ now = 1
    /\ at = [m \in Mentions |-> NoClock] /\ pr \in [Mentions -> Prs] /\ seen = {}
    /\ busy = {} /\ enabled = FALSE /\ state = Empty /\ file = Empty
    /\ poll = NoPoll /\ ask = NoAsk
    /\ turnedOn = NoClock /\ dealt = {} /\ via = [m \in Mentions |-> m]
    /\ answered = [m \in Mentions |-> 0] /\ forgotten = {} /\ reachedBack = FALSE

-----------------------------------------------------------------------------
(* The world.                                                              *)

Written(m) == at[m] # NoClock

\* Time does not pass while a comment is already Overlap late in GitHub's search.
Tick ==
    /\ now < MaxTime
    /\ \A m \in Mentions : Written(m) /\ m \notin seen => now < at[m] + Overlap
    /\ now' = now + 1
    /\ UNCHANGED <<comments, busy, enabled, state, file, poll, ask, history>>

Write(m) ==
    /\ ~Written(m)
    /\ at' = [at EXCEPT ![m] = now]
    /\ UNCHANGED <<now, pr, seen, busy, enabled, state, file, poll, ask, history>>

Appear(m) ==
    /\ Written(m) /\ m \notin seen
    /\ seen' = seen \cup {m}
    /\ UNCHANGED <<now, at, pr, busy, enabled, state, file, poll, ask, history>>

\* Reviews of p are started by somebody else, and end.
ReviewStartsOrEnds(p) ==
    /\ busy' \in {busy \cup {p}, busy \ {p}}
    /\ UNCHANGED <<now, comments, enabled, state, file, poll, ask, history>>

-----------------------------------------------------------------------------
(* The watcher.                                                            *)

\* saveState: an atomic rename, whose failure is ignored.
Save(s) == file' \in {s} \cup (IF "save" \in Faults THEN {file} ELSE {})

\* Defect: the clock starts with the first check.
TurnOn_NextCheck ==
    /\ ~enabled
    /\ enabled' = TRUE
    /\ state' = [since |-> now + 1, handled |-> state.handled, pending |-> {}]
    /\ Save(state')
    /\ turnedOn' = now
    /\ UNCHANGED <<now, comments, busy, poll, ask, dealt, via, answered, forgotten, reachedBack>>

\* POST /api/settings turns the watch on: configure with resetClock.
TurnOn ==
    /\ ~enabled
    /\ enabled' = TRUE
    /\ state' = [since |-> now, handled |-> state.handled, pending |-> {}]
    /\ Save(state')
    /\ turnedOn' = now
    /\ UNCHANGED <<now, comments, busy, poll, ask, dealt, via, answered, forgotten, reachedBack>>

TurnOff ==
    /\ enabled
    /\ enabled' = FALSE
    /\ UNCHANGED <<now, comments, busy, state, file, poll, ask, history>>

\* Defect: no overlap.
LooksFrom_NoOverlap(t) ==
    Max({t - Day,
         Min({IF state.since = NoClock THEN t ELSE state.since}
                \cup {at[m] : m \in state.pending})})

\* Where a poll started at time t looks from: for the owner's clock, and for
\* every mention that is pending, a little further back; never more than a day.
LooksFrom(t) ==
    Max({t - Day,
         Min({IF state.since = NoClock THEN t ELSE state.since}
                \cup {at[m] : m \in state.pending}) - Overlap})

\* pollOnce up to its search: the timer, or "Check now".
PollStart ==
    /\ enabled /\ ~poll.on
    /\ LET from == LooksFrom(now) IN
          poll' = [on |-> TRUE, startedAt |-> now, from |-> from,
                   todo |-> {pr[m] : m \in {n \in seen : at[n] >= from}},
                   handled |-> state.handled, still |-> {}]
    /\ UNCHANGED <<now, comments, busy, enabled, state, file, ask, history>>

\* The mentions on p this poll has to act on.
Fresh(p) ==
    {m \in seen : pr[m] = p /\ at[m] >= poll.from /\ m \notin poll.handled}

\* The comments of p have been read: nothing new; already under review; or the
\* newest mention asks for a review.
ReadPr(p) ==
    /\ poll.on /\ ask = NoAsk /\ p \in poll.todo
    /\ IF Fresh(p) = {} \/ p \in busy
       THEN /\ poll' = [poll EXCEPT !.todo = @ \ {p}, !.handled = @ \cup Fresh(p)]
            /\ dealt' = dealt \cup Fresh(p)
            /\ ask' = ask
       ELSE /\ poll' = [poll EXCEPT !.todo = @ \ {p}]
            /\ dealt' = dealt
            /\ \E m \in Fresh(p) :
                  /\ \A n \in Fresh(p) : at[n] <= at[m]
                  /\ ask' = [pr |-> p, fresh |-> Fresh(p), trigger |-> m]
    /\ UNCHANGED <<now, comments, busy, enabled, state, file,
                   turnedOn, via, answered, forgotten, reachedBack>>

\* resumeReviewJob or enqueueReview has queued the review.
Queued ==
    /\ ask # NoAsk
    /\ busy' = busy \cup {ask.pr}
    /\ poll' = [poll EXCEPT !.handled = @ \cup ask.fresh]
    /\ dealt' = dealt \cup ask.fresh
    /\ answered' = [answered EXCEPT ![ask.trigger] = IF @ = 2 THEN 2 ELSE @ + 1]
    /\ reachedBack' = (reachedBack \/ at[ask.trigger] < turnedOn)
    /\ ask' = NoAsk
    /\ UNCHANGED <<now, comments, enabled, state, file, turnedOn, via, forgotten>>

\* Defect: a refused mention is not kept for a later poll.
Refused_Forgotten ==
    /\ ask # NoAsk
    /\ ask' = NoAsk
    /\ UNCHANGED <<now, comments, busy, enabled, state, file, poll, history>>

\* Refused (intake locked, usage floor, already running): kept for a later
\* poll until it is a day old.
Refused ==
    /\ ask # NoAsk
    /\ IF poll.startedAt - at[ask.trigger] < Day
       THEN /\ poll' = [poll EXCEPT !.still = @ \cup {ask.trigger}]
            /\ via' = [m \in Mentions |-> IF via[m] \in ask.fresh THEN ask.trigger ELSE via[m]]
            /\ dealt' = dealt
       ELSE /\ poll' = [poll EXCEPT !.handled = @ \cup ask.fresh]
            /\ dealt' = dealt \cup ask.fresh
            /\ via' = via
    /\ ask' = NoAsk
    /\ UNCHANGED <<now, comments, busy, enabled, state, file,
                   turnedOn, answered, forgotten, reachedBack>>

\* Defect: the handled list is kept as it was.
PollDone_SameList ==
    /\ poll.on /\ ask = NoAsk /\ poll.todo = {}
    /\ state' = [since |-> poll.startedAt, handled |-> state.handled, pending |-> poll.still]
    /\ Save(state')
    /\ poll' = NoPoll
    /\ UNCHANGED <<now, comments, busy, enabled, ask, history>>

\* The whole list was read.
PollDone ==
    /\ poll.on /\ ask = NoAsk /\ poll.todo = {}
    /\ state' = [since |-> poll.startedAt, handled |-> poll.handled, pending |-> poll.still]
    /\ Save(state')
    /\ poll' = NoPoll
    /\ UNCHANGED <<now, comments, busy, enabled, ask, history>>

\* gh failed while reading a pull request: the pass is over, nothing is kept.
PollThrows ==
    /\ "throw" \in Faults
    /\ poll.on /\ ask = NoAsk /\ poll.todo # {}
    /\ poll' = NoPoll
    /\ forgotten' = forgotten \cup (poll.handled \ state.handled)
    /\ UNCHANGED <<now, comments, busy, enabled, state, file, ask,
                   turnedOn, dealt, via, answered, reachedBack>>

\* The server dies and comes back: loadState, configure({startup}); reviews
\* that ran are interrupted, which is not active.
Restart ==
    /\ "crash" \in Faults
    /\ poll' = NoPoll /\ ask' = NoAsk /\ busy' = {}
    /\ state' = IF enabled /\ file.since = NoClock
                THEN [since |-> now, handled |-> file.handled, pending |-> {}] ELSE file
    /\ IF enabled /\ file.since = NoClock THEN Save(state') ELSE file' = file
    /\ forgotten' = forgotten \cup ((poll.handled \cup state.handled) \ file.handled)
    /\ UNCHANGED <<now, comments, enabled, turnedOn, dealt, via, answered, reachedBack>>

-----------------------------------------------------------------------------
Next ==
    \/ Tick
    \/ \E m \in Mentions : Write(m) \/ Appear(m)
    \/ \E p \in Prs : ReviewStartsOrEnds(p) \/ ReadPr(p)
    \/ TurnOn \/ TurnOff
    \/ PollStart \/ Queued \/ Refused \/ PollDone \/ PollThrows \/ Restart

Spec == Init /\ [][Next]_vars

-----------------------------------------------------------------------------
(* Properties.                                                             *)

\* No mention falls between two polls: one written since the watch was turned
\* on and less than a day ago is handled, or the next poll (of a watch that
\* stays on) will look far enough back to see it or the later mention that is
\* retried in its place; whatever is refused, fails, crashes or comes late.
NothingLeftBehind ==
    TypeOK /\ (enabled =>
        \A m \in Mentions :
            Written(m) /\ at[m] >= turnedOn =>
                \/ at[via[m]] < now - Day
                \/ via[m] \in dealt
                \/ at[via[m]] >= LooksFrom(now))

\* "Each poll re-reads a short window before the last one and the handled list
\* drops the repeats", "a restart does not review the same mention twice": a
\* mention causes one review at most, whatever the overlap of two passes, late
\* comments, retries and settings changes make of it, unless the pass that
\* dealt with it failed later on or died and nothing it did was kept.
AnsweredOnce == \A m \in Mentions \ forgotten : answered[m] <= 1

\* "Turning the watch on starts the clock now, so mentions from before it was
\* enabled are ignored".
OldMentionsIgnored == ~reachedBack

=============================================================================

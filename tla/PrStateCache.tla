----------------------------- MODULE PrStateCache -----------------------------
(***************************************************************************)
(* What the server says of a pull request's state (GET .../pr-state): the  *)
(* short cache, the one gh process per pull request that several clients   *)
(* wait for, the forced refresh with its floor, the store of the last      *)
(* answer GitHub gave (lib/pr-state-store.js), its background refresh, and *)
(* the approval that makes all of that stale.                              *)
(*                                                                         *)
(* One pull request: the maps of server.js treat each one by itself, up to *)
(* their limits of 500 entries, which are not reached here.                *)
(***************************************************************************)
EXTENDS Integers, FiniteSets

CONSTANTS
    None,
    Ttl,        \* PR_STATE_TTL_MS
    FailTtl,    \* PR_STATE_FAIL_TTL_MS
    Floor,      \* PR_STATE_REFRESH_FLOOR_MS
    Timeout,    \* of gh pr view
    Recheck,    \* how old a known state must be for the background refresh
    MaxTime     \* bound: the clock stops here

ASSUME TimesAssumption ==
    /\ {Ttl, FailTtl, Floor, Timeout, Recheck, MaxTime} \subseteq Nat
    /\ 0 < Floor /\ Floor <= FailTtl /\ FailTtl <= Ttl /\ 0 < Timeout /\ 0 < MaxTime

Times == 1..MaxTime

Truths == {"open", "approved", "merged"}

VARIABLES
    now,
    github,     \* the state on GitHub
    probes,     \* gh processes, with the requests that wait for each: TRUE is a refresh
    cache,      \* prStateCache
    store,      \* prStateStore, in memory and on disk
    forced,     \* prStateForced: when a refresh was last honoured, 0 if never
    approving,  \* gh pr review --approve went through; the route has not gone on
    served      \* the answers given in this step

vars == <<now, github, probes, cache, store, forced, approving, served>>

\* What an answer carries, and two things only the model knows: when GitHub was
\* read for it, and whether the server kept it from before an approval here.
Answers == [value : Truths \cup {"unknown"}, stale : BOOLEAN,
            readAt : Times \cup {0}, kept : BOOLEAN]

Unread == [value |-> "unknown", stale |-> FALSE, readAt |-> 0, kept |-> FALSE]

TypeOK ==
    /\ now \in Times /\ github \in Truths
    /\ \A q \in probes : q \in [started : Times, answer : Answers, waiting : SUBSET BOOLEAN]
    /\ \/ cache = None
       \/ cache \in [at : Times, ttl : {Ttl, FailTtl}, answer : Answers]
    /\ \/ store = None
       \/ /\ store \in [answer : Answers, checkedAt : Times]
          /\ store.answer.value \in Truths /\ ~store.answer.stale
    /\ forced \in Times \cup {0} /\ approving \in BOOLEAN
    /\ \A a \in served : a \in [answer : Answers, refresh : BOOLEAN]

Init ==
    /\ now = 1 /\ github = "open"
    /\ probes = {} /\ cache = None /\ store = None /\ forced = 0
    /\ approving = FALSE /\ served = {}

-----------------------------------------------------------------------------
(* The world.                                                              *)

\* gh is killed at its timeout, so no probe gets older.
Tick ==
    /\ now < MaxTime
    /\ \A q \in probes : now < q.started + Timeout
    /\ now' = now + 1 /\ served' = {}
    /\ UNCHANGED <<github, probes, cache, store, forced, approving>>

\* Somebody approves, dismisses an approval, or merges.
GithubChanges ==
    /\ \E v \in Truths \ {github} : github # "merged" /\ github' = v
    /\ served' = {}
    /\ UNCHANGED <<now, probes, cache, store, forced, approving>>

-----------------------------------------------------------------------------
(* Probes.                                                                 *)

Fresh(w) == [started |-> now, answer |-> Unread, waiting |-> w]

\* Defect: every caller starts a process.
Probe_Always(w) == probes' = probes \cup {Fresh(w)}

\* probePrState: callers of a probe already running just wait for it.
Probe(w) ==
    IF probes = {} THEN probes' = {Fresh(w)}
    ELSE probes' = {[q EXCEPT !.waiting = @ \cup w] : q \in probes}

\* gh reads the state ...
GithubReads(q) ==
    /\ q \in probes /\ q.answer = Unread
    /\ probes' = (probes \ {q}) \cup
                    {[q EXCEPT !.answer = [Unread EXCEPT !.value = github, !.readAt = now]]}
    /\ served' = {}
    /\ UNCHANGED <<now, github, cache, store, forced, approving>>

Serve(q, a) == served' = {[answer |-> a, refresh |-> w] : w \in q.waiting}

\* ... and its output arrives: remembered, cached and handed to all who wait.
ProbeSucceeds(q) ==
    /\ q \in probes /\ q.answer # Unread
    /\ probes' = probes \ {q}
    /\ store' = [answer |-> q.answer, checkedAt |-> now]
    /\ cache' = [at |-> now, ttl |-> Ttl, answer |-> q.answer]
    /\ Serve(q, q.answer)
    /\ UNCHANGED <<now, github, forced, approving>>

\* Defect: the last known answer goes out as if it were new.
ProbeFails_Unflagged(q) ==
    /\ q \in probes
    /\ probes' = probes \ {q}
    /\ LET a == IF store = None THEN Unread ELSE store.answer IN
        /\ cache' = [at |-> now, ttl |-> FailTtl, answer |-> a]
        /\ Serve(q, a)
    /\ UNCHANGED <<now, github, store, forced, approving>>

\* Defect: the store remembers whatever it is given.
ProbeFails_Remembered(q) ==
    /\ q \in probes
    /\ probes' = probes \ {q}
    /\ LET a == IF store = None THEN Unread ELSE [store.answer EXCEPT !.stale = TRUE] IN
        /\ store' = [answer |-> a, checkedAt |-> now]
        /\ cache' = [at |-> now, ttl |-> FailTtl, answer |-> a]
        /\ Serve(q, a)
    /\ UNCHANGED <<now, github, forced, approving>>

\* gh fails or times out: the last known answer, flagged, for a short time.
ProbeFails(q) ==
    /\ q \in probes
    /\ probes' = probes \ {q}
    /\ LET a == IF store = None THEN Unread ELSE [store.answer EXCEPT !.stale = TRUE] IN
        /\ cache' = [at |-> now, ttl |-> FailTtl, answer |-> a]
        /\ Serve(q, a)
    /\ UNCHANGED <<now, github, store, forced, approving>>

-----------------------------------------------------------------------------
(* Requests.                                                               *)

\* Defect: an entry is good for as long as it is there.
Hit_Expired == cache # None

Hit == cache # None /\ now - cache.at < cache.ttl

Ask ==
    /\ IF Hit
       THEN served' = {[answer |-> cache.answer, refresh |-> FALSE]} /\ probes' = probes
       ELSE served' = {} /\ Probe({FALSE})
    /\ UNCHANGED <<now, github, cache, store, forced, approving>>

\* ?refresh=1, at most once per floor (sooner, it is an Ask).
Refresh ==
    /\ now - forced >= Floor \/ forced = 0
    /\ forced' = now
    /\ cache' = None
    /\ served' = {} /\ Probe({TRUE})
    /\ UNCHANGED <<now, github, store, approving>>

\* createPrStateRefresh: every minute, nobody waits.
BackgroundRefresh ==
    /\ store # None => store.answer.value # "merged" /\ now - store.checkedAt >= Recheck
    /\ served' = {} /\ Probe({})
    /\ UNCHANGED <<now, github, cache, store, forced, approving>>

-----------------------------------------------------------------------------
(* POST /api/jobs/:id/approve.                                             *)

ApproveLands ==
    /\ github = "open" /\ ~approving
    /\ github' = "approved" /\ approving' = TRUE /\ served' = {}
    /\ UNCHANGED <<now, probes, cache, store, forced>>

Kept(a) == [a EXCEPT !.kept = TRUE]

StoreKept == store' = IF store = None THEN None ELSE [store EXCEPT !.answer = Kept(@)]

\* Defect: the cached answer stays.
ApproveReturns_KeepsCache ==
    /\ approving /\ approving' = FALSE
    /\ cache' = IF cache = None THEN None ELSE [cache EXCEPT !.answer = Kept(@)]
    /\ served' = {} /\ StoreKept
    /\ UNCHANGED <<now, github, probes, forced>>

\* Back in the route: the cached answer is dropped (forgetPrState), the stored
\* one and a probe in flight are left alone.
ApproveReturns ==
    /\ approving /\ approving' = FALSE
    /\ cache' = None /\ served' = {} /\ StoreKept
    /\ UNCHANGED <<now, github, probes, forced>>

\* The process ends and starts again: the store is read from its file.
Restart ==
    /\ probes' = {} /\ cache' = None /\ forced' = 0 /\ approving' = FALSE /\ served' = {}
    /\ UNCHANGED <<now, github, store>>

Next ==
    \/ Tick \/ GithubChanges
    \/ \E q \in probes : GithubReads(q) \/ ProbeSucceeds(q) \/ ProbeFails(q)
    \/ Ask \/ Refresh \/ BackgroundRefresh
    \/ ApproveLands \/ ApproveReturns \/ Restart

Spec == Init /\ [][Next]_vars

-----------------------------------------------------------------------------
(* Properties.                                                             *)

\* An answer that is not flagged as stale was read from GitHub no longer ago
\* than a probe and the cache can take together; the answer to an honoured
\* refresh, no longer ago than a probe can take: even when it joins a probe in
\* flight, which may have read GitHub before the refusal it is about.
AnswersAreRecent ==
    TypeOK /\ \A a \in served :
        ~a.answer.stale /\ a.answer.value # "unknown" =>
            /\ now - a.answer.readAt < Ttl + Timeout
            /\ a.refresh => now - a.answer.readAt <= Timeout

\* The last known state never goes back to an older reading: a slow probe does
\* not overwrite what a later one found.
StoreMovesForward ==
    [][store # None => store'.answer.readAt >= store.answer.readAt]_vars

\* "Drop it so nobody else is offered an Approve button that can only fail":
\* after an approval here no answer that the server kept from before it goes out
\* unflagged, from the cache, the store or a failed probe.  Only a probe that
\* was in flight, and had read GitHub already, can still bring one.
ApprovalIsSeen ==
    \A a \in served : a.answer.kept => a.answer.stale
=============================================================================

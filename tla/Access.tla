-------------------------------- MODULE Access --------------------------------
(***************************************************************************)
(* Unlocking the settings: the attempt limiter of lib/remote-api.js,       *)
(* authorizeSettings of server.js, which awaits the check of a password    *)
(* between the limiter's two calls, and the sessions of                    *)
(* lib/settings-sessions.js, kept in memory and on disk.  One address      *)
(* makes all attempts; a password is settled by the owner at a restart.    *)
(***************************************************************************)
EXTENDS Integers, Sequences, FiniteSets

CONSTANTS Requests,                           \* requests that can be under way together
          MaxFails, BaseLock, MaxLock, Forget,\* the limiter's options, in ticks
          Tokens, Ttl, Limit,                 \* session tokens, their life, how many are kept
          Passwords, MaxTime                  \* settings passwords; bound of the clock

VARIABLES clock,
          record,       \* the limiter's record of the address: [fails, until, seen], or NoRecord
          checking,     \* requests whose password is being hashed
          misses, runOuts, \* since the record began: wrong answers, locks that ran out (history)
          password,     \* the settings password the server was started with
          sessions,     \* token and expiry, oldest first
          disk,         \* what the sessions file holds: a password's fingerprint and sessions
          issued,       \* token |-> password it was issued under (history)
          revoked,      \* tokens revoked or past their time (history)
          unsaved       \* a write of the sessions file has failed (history)

vars == <<clock, record, checking, misses, runOuts, password, sessions, disk, issued, revoked, unsaved>>

limiter == <<record, checking, misses, runOuts>>

kept == <<password, sessions, disk, issued, revoked, unsaved>>

Never == MaxTime + Ttl + 1      \* expiresAt null: "remember this browser"

NoRecord == [fails |-> 0, until |-> 0, seen |-> 0]

TypeOK ==
    /\ clock \in 0 .. MaxTime /\ checking \subseteq Requests
    /\ record \in [fails : Nat, until : 0 .. MaxTime + MaxLock, seen : 0 .. MaxTime]
    /\ \A i \in 1 .. Len(sessions) : sessions[i] \in Tokens \X (1 .. Never)
    /\ Len(sessions) <= Limit /\ Len(disk.sessions) <= Limit

Init ==
    /\ clock = 0 /\ record = NoRecord /\ checking = {} /\ misses = 0 /\ runOuts = 0
    /\ password \in Passwords /\ sessions = <<>>
    /\ disk = [fingerprint |-> password, sessions |-> <<>>]
    /\ issued = [t \in {} |-> password] /\ revoked = {} /\ unsaved = FALSE

-----------------------------------------------------------------------------
(* The limiter.                                                            *)

Forgotten == record # NoRecord /\ clock - record.seen > Forget

Blocked == ~Forgotten /\ record.until > clock

\* Seeded error: only the miss that reaches the limit locks.
LockAfter_Once(fails, before) == IF fails = MaxFails THEN clock + BaseLock ELSE before

\* The lock doubles with every miss beyond the limit, up to MaxLock.
LockAfter(fails, before) ==
    LET doubled == BaseLock * 2 ^ (fails - MaxFails)
    IN  IF fails < MaxFails THEN before
        ELSE clock + (IF doubled < MaxLock THEN doubled ELSE MaxLock)

\* check, and the password goes to be hashed.
Begin(r) ==
    /\ r \notin checking /\ ~Blocked
    /\ checking' = checking \cup {r}
    /\ IF Forgotten
       THEN record' = NoRecord /\ misses' = 0 /\ runOuts' = 0
       ELSE UNCHANGED <<record, misses, runOuts>>
    /\ UNCHANGED <<clock, kept>>

\* failed: counted on the record as it is when the answer is there.
Miss(r) ==
    /\ r \in checking /\ checking' = checking \ {r}
    /\ record' = [fails |-> record.fails + 1, seen |-> clock,
                  until |-> LockAfter(record.fails + 1, record.until)]
    /\ misses' = misses + 1
    /\ UNCHANGED <<clock, runOuts, kept>>

-----------------------------------------------------------------------------
(* Sessions.                                                               *)

\* A write of the file may fail; the error is swallowed.
Persist(list) ==
    \/ disk' = [fingerprint |-> password, sessions |-> list] /\ UNCHANGED unsaved
    \/ unsaved' = TRUE /\ UNCHANGED disk

\* The entries of a list that are among these, in their order.
Only(list, these) ==
    LET only[n \in 0 .. Len(list)] ==
            IF n = 0 THEN <<>>
            ELSE IF list[n] \in these THEN Append(only[n - 1], list[n]) ELSE only[n - 1]
    IN  only[Len(list)]

Live(list) == Only(list, Tokens \X (clock + 1 .. Never))

Without(list, token) == Only(list, (Tokens \ {token}) \X (1 .. Never))

KeptLast(list, n) == SubSeq(list, IF Len(list) > n THEN Len(list) - n + 1 ELSE 1, Len(list))

\* The right password: succeeded forgets the address, and a session is issued.
Unlock(r, token, until) ==
    /\ r \in checking /\ checking' = checking \ {r}
    /\ token \notin DOMAIN issued
    /\ record' = NoRecord /\ misses' = 0 /\ runOuts' = 0
    /\ sessions' = Append(KeptLast(Live(sessions), Limit - 1), <<token, until>>)
    /\ issued' = [t \in DOMAIN issued \cup {token} |-> IF t = token THEN password ELSE issued[t]]
    /\ Persist(sessions')
    /\ UNCHANGED <<clock, password, revoked>>

\* The right password sent along with a change of settings: no session comes of it.
Succeed(r) ==
    /\ r \in checking /\ checking' = checking \ {r}
    /\ record' = NoRecord /\ misses' = 0 /\ runOuts' = 0
    /\ UNCHANGED <<clock, kept>>

\* Seeded error: a restart is where sessions past their time are dropped.
Valid_NoPrune(token) == \E i \in 1 .. Len(sessions) : sessions[i][1] = token

Valid(token) == \E i \in 1 .. Len(Live(sessions)) : Live(sessions)[i][1] = token

\* valid: prunes, and writes the file when that changed something.
Use ==
    /\ sessions' = Live(sessions) /\ sessions' # sessions
    /\ Persist(sessions')
    /\ UNCHANGED <<clock, limiter, password, issued, revoked>>

\* Seeded error: locking the settings forgets the session in memory only.
Revoke_MemoryOnly(token) ==
    /\ \E i \in 1 .. Len(sessions) : sessions[i][1] = token
    /\ sessions' = Without(sessions, token)
    /\ revoked' = revoked \cup {token}
    /\ UNCHANGED <<clock, limiter, password, disk, issued, unsaved>>

Revoke(token) ==
    /\ \E i \in 1 .. Len(sessions) : sessions[i][1] = token
    /\ sessions' = Without(sessions, token)
    /\ revoked' = revoked \cup {token}
    /\ Persist(sessions')
    /\ UNCHANGED <<clock, limiter, password, issued>>

\* The file is read if it was written under this password; the limiter starts anew.
Restart(p) ==
    /\ password' = p
    /\ sessions' = IF disk.fingerprint = p THEN KeptLast(disk.sessions, Limit) ELSE <<>>
    /\ record' = NoRecord /\ checking' = {} /\ misses' = 0 /\ runOuts' = 0
    /\ UNCHANGED <<clock, disk, issued, revoked, unsaved>>

Tick ==
    /\ clock < MaxTime /\ clock' = clock + 1
    /\ runOuts' = runOuts + (IF record.until = clock + 1 THEN 1 ELSE 0)
    /\ revoked' = revoked \cup {t \in DOMAIN issued : \E i \in 1 .. Len(sessions) :
                                    sessions[i] = <<t, clock + 1>>}
    /\ UNCHANGED <<record, checking, misses, password, sessions, disk, issued, unsaved>>

Next ==
    \/ \E r \in Requests : Begin(r) \/ Miss(r) \/ Succeed(r)
    \/ \E r \in Requests, t \in Tokens, until \in {clock + Ttl, Never} : Unlock(r, t, until)
    \/ Use \/ (\E t \in Tokens : Revoke(t)) \/ (\E p \in Passwords : Restart(p)) \/ Tick

Spec == Init /\ [][Next]_vars

-----------------------------------------------------------------------------
\* However attempts overlap the hashing of passwords: the wrong answers given
\* since the record began are at most the misses allowed, the attempts that were
\* already under way, and those once more for every lock that ran out.
MissesKeepPace == misses <= MaxFails - 1 + Cardinality(Requests) * (1 + runOuts)

\* A session that opens the settings was issued under the password the server has
\* now, has not been revoked and is not past its time, also after restarts and
\* changes of the password, unless a write of the sessions file has failed.
SessionsAreEarned ==
    \A t \in Tokens : Valid(t) =>
        /\ t \in DOMAIN issued /\ issued[t] = password
        /\ t \notin revoked \/ unsaved

(* Nobody gets at the settings by keeping at it or with what has been      *)
(* taken from him (remote-api.js:38-66, server.js:501-509,                 *)
(* settings-sessions.js:32-80).                                            *)
UnlockIsEarned == TypeOK /\ MissesKeepPace /\ SessionsAreEarned
=============================================================================

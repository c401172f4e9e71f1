------------------------------- MODULE TrustLock -------------------------------
(***************************************************************************)
(* Marking a clone as trusted in the agent's own config file               *)
(* (lib/claude-trust.js): a read, change and write under a lock directory  *)
(* shared with Claude Code, which is external.  The file is the set of     *)
(* entries in it; every fs call is awaited, so it is a step of its own.    *)
(***************************************************************************)
EXTENDS Integers, FiniteSets

CONSTANTS Repos,           \* clones being prepared, one call of ensureWorkspaceTrusted each
          LockAttempts,    \* LOCK_ATTEMPTS
          LockStale        \* LOCK_STALE_MS, in ticks

VARIABLES file,            \* entries of the config file
          tmp,             \* the temporary file's content, {} while there is none
          lock, age,       \* who made the lock directory; ticks since its mtime
          pc, tries, read, \* of each call: next step, attempts used, content last read
          answer,          \* what each call resolved to
          claude, saw,     \* Claude Code: idle, holding the lock or killed; what it read
          written,         \* every entry ever put into the file (history)
          wentStale        \* a lock was once old enough to be removed (history)

vars == <<file, tmp, lock, age, pc, tries, read, answer, claude, saw, written, wentStale>>

calls == <<pc, tries, read, answer>>

Claude == "claude"

Free == "free"

Settings == "settings"     \* the entries Claude Code itself writes

TypeOK ==
    /\ file \subseteq Repos \cup {Settings} /\ tmp \subseteq Repos \cup {Settings}
    /\ lock \in Repos \cup {Claude, Free} /\ age \in 0 .. LockStale + 1
    /\ pc \in [Repos -> {"look", "mkdir", "stat", "rm", "read", "write", "rename", "unlock", "done"}]
    /\ tries \in [Repos -> 0 .. LockAttempts]
    /\ answer \in [Repos -> {"pending", "already", "granted", "busy", "error"}]
    /\ claude \in {"idle", "holds", "killed"}

Init ==
    /\ file = {} /\ tmp = {} /\ lock = Free /\ age = 0
    /\ pc = [r \in Repos |-> "look"] /\ tries = [r \in Repos |-> 0]
    /\ read = [r \in Repos |-> {}] /\ answer = [r \in Repos |-> "pending"]
    /\ claude = "idle" /\ saw = {} /\ written = {} /\ wentStale = FALSE

Goes(r, from, to) == pc[r] = from /\ pc' = [pc EXCEPT ![r] = to]

\* The unlocked look: nothing to do when the clone is trusted already.
Look(r) ==
    /\ read' = [read EXCEPT ![r] = file]
    /\ IF r \in file
       THEN Goes(r, "look", "done") /\ answer' = [answer EXCEPT ![r] = "already"]
       ELSE Goes(r, "look", "mkdir") /\ UNCHANGED answer
    /\ UNCHANGED <<file, tmp, lock, age, tries, claude, saw, written, wentStale>>

Mkdir(r) ==
    /\ tries[r] < LockAttempts
    /\ tries' = [tries EXCEPT ![r] = @ + 1]
    /\ IF lock = Free
       THEN Goes(r, "mkdir", "read") /\ lock' = r /\ age' = 0
       ELSE Goes(r, "mkdir", "stat") /\ UNCHANGED <<lock, age>>
    /\ UNCHANGED <<file, tmp, read, answer, claude, saw, written, wentStale>>

GiveUp(r) ==
    /\ tries[r] = LockAttempts
    /\ Goes(r, "mkdir", "done") /\ answer' = [answer EXCEPT ![r] = "busy"]
    /\ UNCHANGED <<file, tmp, lock, age, tries, read, claude, saw, written, wentStale>>

\* Seeded error: a lock is taken for a leftover as soon as it is there.
Stale_Always == lock # Free

Stale == lock # Free /\ age > LockStale

\* A lock that vanished meanwhile, or is young, is waited for.
Stat(r) ==
    /\ IF Stale THEN Goes(r, "stat", "rm") ELSE Goes(r, "stat", "mkdir")
    /\ wentStale' = (wentStale \/ (lock # Free /\ age > LockStale))
    /\ UNCHANGED <<file, tmp, lock, age, tries, read, answer, claude, saw, written>>

\* rm force: whatever lock directory is there by now goes.
RemoveStale(r) ==
    /\ Goes(r, "rm", "mkdir") /\ lock' = Free
    /\ UNCHANGED <<file, tmp, age, tries, read, answer, claude, saw, written, wentStale>>

\* Seeded error: what was read before the lock is what the entry is added to.
ReadAgain_Once(r) ==
    /\ Goes(r, "read", "write")
    /\ UNCHANGED <<file, tmp, lock, age, tries, read, answer, claude, saw, written, wentStale>>

\* The second read, under the lock.
ReadAgain(r) ==
    /\ read' = [read EXCEPT ![r] = file]
    /\ IF r \in file
       THEN Goes(r, "read", "unlock") /\ answer' = [answer EXCEPT ![r] = "already"]
       ELSE Goes(r, "read", "write") /\ UNCHANGED answer
    /\ UNCHANGED <<file, tmp, lock, age, tries, claude, saw, written, wentStale>>

\* The temporary file is named after the process, so calls share it.
WriteTmp(r) ==
    /\ Goes(r, "write", "rename") /\ tmp' = read[r] \cup {r}
    /\ UNCHANGED <<file, lock, age, tries, read, answer, claude, saw, written, wentStale>>

Rename(r) ==
    /\ Goes(r, "rename", "unlock")
    /\ IF tmp = {}
       THEN answer' = [answer EXCEPT ![r] = "error"] /\ UNCHANGED <<file, tmp, written>>
       ELSE /\ file' = tmp /\ tmp' = {} /\ written' = written \cup tmp
            /\ answer' = [answer EXCEPT ![r] = "granted"]
    /\ UNCHANGED <<lock, age, tries, read, claude, saw, wentStale>>

\* The finally: the lock directory goes, whoever made it.
Unlock(r) ==
    /\ Goes(r, "unlock", "done") /\ lock' = Free
    /\ UNCHANGED <<file, tmp, age, tries, read, answer, claude, saw, written, wentStale>>

\* Claude Code takes the lock, keeps its mtime fresh, and may be killed with it.
ClaudeLocks ==
    /\ claude = "idle" /\ lock = Free
    /\ claude' = "holds" /\ lock' = Claude /\ age' = 0 /\ saw' = file
    /\ UNCHANGED <<file, tmp, calls, written, wentStale>>

ClaudeWrites ==
    /\ claude = "holds"
    /\ claude' = "idle" /\ file' = saw \cup {Settings} /\ written' = written \cup file'
    /\ lock' = IF lock = Claude THEN Free ELSE lock
    /\ UNCHANGED <<tmp, age, calls, saw, wentStale>>

ClaudeKilled ==
    /\ claude = "holds" /\ claude' = "killed"
    /\ UNCHANGED <<file, tmp, lock, age, calls, saw, written, wentStale>>

Tick ==
    /\ lock # Free /\ age <= LockStale /\ ~(lock = Claude /\ claude = "holds")
    /\ age' = age + 1
    /\ UNCHANGED <<file, tmp, lock, calls, claude, saw, written, wentStale>>

Call(r) ==
    \/ Look(r) \/ Mkdir(r) \/ GiveUp(r) \/ Stat(r) \/ RemoveStale(r)
    \/ ReadAgain(r) \/ WriteTmp(r) \/ Rename(r) \/ Unlock(r)

Next ==
    \/ \E r \in Repos : Call(r)
    \/ ClaudeLocks \/ ClaudeWrites \/ ClaudeKilled \/ Tick

Spec == Init /\ [][Next]_vars

-----------------------------------------------------------------------------
(* As long as no lock has grown old enough to be taken for a leftover,     *)
(* nothing either program wrote into the config is lost: the entry is      *)
(* added to what the file holds under the lock (lines 150-165), whatever   *)
(* the first, unlocked look saw. Once a lock was removed as stale, two     *)
(* callers can be inside, and this ends.                                   *)
WrittenStays == TypeOK /\ (~wentStale => written \subseteq file)
=============================================================================

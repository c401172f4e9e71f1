------------------------------ MODULE Host_proofs ------------------------------
(***************************************************************************)
(* The parts of the host, for every value of the constants: the trust flag *)
(* (lib/claude-trust.js), admission on shared readings (enforceAdmission   *)
(* of server.js), whose note a resume's run is given (resumeReviewJob,     *)
(* runVerifyJob), whose words an agent follows (resolveReviewSkill,        *)
(* buildPrompt), how the settings are unlocked (lib/remote-api.js,         *)
(* lib/settings-sessions.js) and what is heard of an agent                 *)
(* (lib/claude-runner.js, lib/providers/codex.js).                         *)
(***************************************************************************)
EXTENDS MCHost, SequenceTheorems, FiniteSetTheorems, WellFoundedInduction, TLAPS

parts == <<part, trust, access, admission, followUp, agent, briefing>>

\* A step of the host is one of the part that moves, or none of its variables.
LEMMA PartStays == ASSUME [Next]_parts PROVE part' = part
  BY DEF Next, parts

LEMMA TrustMoves ==
  ASSUME [Next]_parts, part = "trust" PROVE [Trust!Next]_(Trust!vars)
  BY DEF Next, parts, trust, Trust!vars

LEMMA NotesMove ==
  ASSUME [Next]_parts, part = "follow-up" PROVE [Notes!Next]_(Notes!vars)
  BY DEF Next, parts, followUp, Notes!vars

-----------------------------------------------------------------------------
(* Numbers up to a bound, and functions given step by step.                *)

\* Induction up to n, over the set of the numbers for which something holds.
LEMMA UpTo ==
  ASSUME NEW n \in Nat, NEW H, 0 \in H, \A i \in 1 .. n : i - 1 \in H => i \in H
  PROVE  0 .. n \subseteq H
  <1> SUFFICES ASSUME 0 .. n \ H # {} PROVE FALSE
    OBVIOUS
  <1> DEFINE R == {p \in Nat \X Nat : p[1] < p[2]}
             T == 0 .. n \ H
  <1>1. IsWellFoundedOn(R, Nat)
    BY NatLessThanWellFounded DEF OpToRel
  <1>2. T \subseteq Nat /\ T # {}
    OBVIOUS
  <1>3. PICK m \in T : \A k \in T : ~ (<<k, m>> \in R)
    <2> HIDE DEF R, T
    <2> QED BY <1>1, <1>2, WFMin
  <1>4. m \in 1 .. n /\ m - 1 \in 0 .. n
    BY <1>3
  <1>5. <<m - 1, m>> \in R
    BY <1>4
  <1>6. m - 1 \in H
    BY <1>3, <1>4, <1>5
  <1> QED BY <1>3, <1>4, <1>6

\* A function that is given step by step.
Steps(f, S, n, z, g) == f \in [0 .. n -> S] /\ f[0] = z /\ \A i \in 1 .. n : f[i] = g[i][f[i - 1]]

LEMMA StepByStep ==
  ASSUME NEW S, NEW n \in Nat, NEW z \in S, NEW g \in [1 .. n -> [S -> S]]
  PROVE  \E f : Steps(f, S, n, z, g)
  <1> DEFINE Good(f, m) == f \in [0 .. m -> S] /\ f[0] = z /\ \A i \in 1 .. m : f[i] = g[i][f[i - 1]]
             H == {m \in 0 .. n : \E f : Good(f, m)}
  <1>1. 0 \in H
    <2>1. Good([i \in 0 .. 0 |-> z], 0)
      OBVIOUS
    <2> HIDE DEF Good
    <2> QED BY <2>1
  <1>2. ASSUME NEW m \in 1 .. n, m - 1 \in H PROVE m \in H
    <2>1. PICK f : Good(f, m - 1)
      BY <1>2
    <2> DEFINE h == [i \in 0 .. m |-> IF i = m THEN g[m][f[m - 1]] ELSE f[i]]
    <2>2. f[m - 1] \in S
      BY <2>1
    <2>3. g[m][f[m - 1]] \in S
      BY <2>2
    <2>4. h \in [0 .. m -> S] /\ h[0] = z
      BY <2>1, <2>3
    <2>5. ASSUME NEW i \in 1 .. m PROVE h[i] = g[i][h[i - 1]]
      <3>1. i \in 0 .. m /\ i - 1 \in 0 .. m /\ i - 1 # m
        OBVIOUS
      <3>2. h[i - 1] = f[i - 1]
        BY <3>1
      <3>3. CASE i = m
        BY <3>1, <3>2, <3>3
      <3>4. CASE i # m
        <4>1. i \in 1 .. m - 1
          BY <3>4
        <4>2. h[i] = f[i]
          BY <3>1, <3>4
        <4> HIDE DEF h
        <4> QED BY <2>1, <3>2, <4>1, <4>2
      <3> QED BY <3>3, <3>4
    <2>6. Good(h, m)
      <3> HIDE DEF h
      <3> QED BY <2>4, <2>5
    <2> HIDE DEF h, Good
    <2> QED BY <2>6
  <1>3. 0 .. n \subseteq H
    <2> HIDE DEF H
    <2> QED BY <1>1, <1>2, UpTo
  <1>4. PICK f : Good(f, n)
    <2> HIDE DEF Good
    <2> QED BY <1>3
  <1> QED BY <1>4 DEF Steps

-----------------------------------------------------------------------------
(* The trust flag.                                                         *)

\* What the constants are: the two programs' marks are no clones.
Sound ==
    /\ Trust!Claude \notin Calls /\ Trust!Free \notin Calls
    /\ LockAttempts \in Nat /\ LockStale \in Nat

Entries == Calls \cup {Trust!Settings}

Inside(r) == pc[r] \in {"read", "write", "rename", "unlock"}

TrustTypes ==
    /\ Trust!TypeOK
    /\ read \in [Calls -> SUBSET Entries] /\ saw \subseteq Entries
    /\ written \subseteq Entries /\ wentStale \in BOOLEAN

\* Until a lock went stale, who is inside made the lock that is there.
LockIsTheirs ==
    /\ \A r \in Calls : Inside(r) => lock = r
    /\ claude = "holds" => lock = Trust!Claude
    /\ \A r \in Calls : pc[r] # "rm"

\* What is about to be written has everything the file has.
NothingMissed ==
    /\ \A r \in Calls : /\ pc[r] = "write" => read[r] = file
                        /\ pc[r] = "rename" => tmp = file \cup {r}
    /\ claude = "holds" => saw = file
    /\ written \subseteq file

TrustIInv == TrustTypes /\ (~wentStale => LockIsTheirs /\ NothingMissed)

-----------------------------------------------------------------------------
LEMMA TrustTypesInit == ASSUME Sound, Trust!Init PROVE TrustTypes
  <1> USE Sound DEF Sound, Trust!Init, Entries
  <1>1. file \subseteq Entries /\ tmp \subseteq Entries /\ saw \subseteq Entries /\ written \subseteq Entries
    OBVIOUS
  <1>2. lock \in Calls \cup {Trust!Claude, Trust!Free} /\ age \in 0 .. LockStale + 1
    OBVIOUS
  <1>3. /\ tries \in [Calls -> 0 .. LockAttempts]
        /\ pc \in [Calls -> {"look", "mkdir", "stat", "rm", "read", "write", "rename", "unlock", "done"}]
        /\ answer \in [Calls -> {"pending", "already", "granted", "busy", "error"}]
    OBVIOUS
  <1>4. read \in [Calls -> SUBSET Entries]
    OBVIOUS
  <1> QED BY <1>1, <1>2, <1>3, <1>4 DEF TrustTypes, Trust!TypeOK

\* The next step of a call is one of the nine, and no other call moves.
LEMMA GoesTypes ==
  ASSUME NEW r \in Calls, NEW from, TrustTypes,
         NEW to \in {"look", "mkdir", "stat", "rm", "read", "write", "rename", "unlock", "done"},
         Trust!Goes(r, from, to)
  PROVE  /\ pc' \in [Calls -> {"look", "mkdir", "stat", "rm", "read", "write", "rename", "unlock", "done"}]
         /\ pc[r] = from /\ pc'[r] = to /\ \A q \in Calls \ {r} : pc'[q] = pc[q]
  BY DEF Trust!Goes, TrustTypes, Trust!TypeOK

LEMMA TrustTypesCall == ASSUME Sound, TrustTypes, NEW r \in Calls, Trust!Call(r) PROVE TrustTypes'
  <1> USE Sound DEF Sound, TrustTypes, Trust!TypeOK, Entries
  <1>1. CASE Trust!Look(r)
    BY <1>1, GoesTypes DEF Trust!Look
  <1>2. CASE Trust!Mkdir(r)
    <2>1. tries' \in [Calls -> 0 .. LockAttempts]
      BY <1>2 DEF Trust!Mkdir
    <2> QED BY <1>2, <2>1, GoesTypes DEF Trust!Mkdir
  <1>3. CASE Trust!GiveUp(r)
    BY <1>3, GoesTypes DEF Trust!GiveUp
  <1>4. CASE Trust!Stat(r)
    BY <1>4, GoesTypes DEF Trust!Stat
  <1>5. CASE Trust!RemoveStale(r)
    BY <1>5, GoesTypes DEF Trust!RemoveStale
  <1>6. CASE Trust!ReadAgain(r)
    BY <1>6, GoesTypes DEF Trust!ReadAgain
  <1>7. CASE Trust!WriteTmp(r)
    BY <1>7, GoesTypes DEF Trust!WriteTmp
  <1>8. CASE Trust!Rename(r)
    BY <1>8, GoesTypes DEF Trust!Rename
  <1>9. CASE Trust!Unlock(r)
    BY <1>9, GoesTypes DEF Trust!Unlock
  <1> QED BY <1>1, <1>2, <1>3, <1>4, <1>5, <1>6, <1>7, <1>8, <1>9 DEF Trust!Call

LEMMA TrustTypesStep == ASSUME Sound, TrustTypes, [Trust!Next]_(Trust!vars) PROVE TrustTypes'
  <1> USE Sound DEF Sound, TrustTypes, Trust!TypeOK, Entries
  <1>1. ASSUME NEW r \in Calls, Trust!Call(r) PROVE TrustTypes'
    BY <1>1, TrustTypesCall
  <1>2. CASE Trust!ClaudeLocks
    BY <1>2 DEF Trust!ClaudeLocks, Trust!calls
  <1>3. CASE Trust!ClaudeWrites
    BY <1>3 DEF Trust!ClaudeWrites, Trust!calls
  <1>4. CASE Trust!ClaudeKilled
    BY <1>4 DEF Trust!ClaudeKilled, Trust!calls
  <1>5. CASE Trust!Tick
    BY <1>5 DEF Trust!Tick, Trust!calls
  <1>6. CASE UNCHANGED Trust!vars
    BY <1>6 DEF Trust!vars
  <1> QED BY <1>1, <1>2, <1>3, <1>4, <1>5, <1>6 DEF Trust!Next

-----------------------------------------------------------------------------
TrustSafe == LockIsTheirs /\ NothingMissed

\* While no lock is stale, a step of a call keeps the one inside alone there.
LEMMA TrustSafeCall ==
  ASSUME Sound, TrustTypes, TrustTypes', ~wentStale, TrustSafe, NEW r \in Calls, Trust!Call(r), ~wentStale'
  PROVE  TrustSafe'
  <1> USE Sound DEF Sound, TrustSafe, LockIsTheirs, NothingMissed, Inside
  <1>a. /\ pc \in [Calls -> {"look", "mkdir", "stat", "rm", "read", "write", "rename", "unlock", "done"}]
        /\ read \in [Calls -> SUBSET Entries]
    BY DEF TrustTypes, Trust!TypeOK
  <1>b. \A from, to : Trust!Goes(r, from, to) =>
            pc[r] = from /\ pc'[r] = to /\ \A q \in Calls \ {r} : pc'[q] = pc[q]
    BY <1>a DEF Trust!Goes
  <1>1. CASE Trust!Look(r)
    BY <1>1, <1>a, <1>b DEF Trust!Look
  <1>2. CASE Trust!Mkdir(r)
    <2>1. CASE lock = Trust!Free
      <3>1. \A q \in Calls : ~Inside(q)
        BY <2>1
      <3>2. claude # "holds"
        BY <2>1 DEF Trust!Claude, Trust!Free
      <3> QED BY <1>2, <1>b, <2>1, <3>1, <3>2 DEF Trust!Mkdir
    <2>2. CASE lock # Trust!Free
      BY <1>2, <1>b, <2>2 DEF Trust!Mkdir
    <2> QED BY <2>1, <2>2
  <1>3. CASE Trust!GiveUp(r)
    BY <1>3, <1>b DEF Trust!GiveUp
  <1>4. CASE Trust!Stat(r)
    <2>1. ~Trust!Stale
      BY <1>4 DEF Trust!Stat, Trust!Stale
    <2> QED BY <1>4, <1>b, <2>1 DEF Trust!Stat
  <1>5. CASE Trust!RemoveStale(r)
    BY <1>5, <1>b DEF Trust!RemoveStale
  <1>6. CASE Trust!ReadAgain(r)
    BY <1>6, <1>a, <1>b DEF Trust!ReadAgain
  <1>7. CASE Trust!WriteTmp(r)
    BY <1>7, <1>a, <1>b DEF Trust!WriteTmp
  <1>8. CASE Trust!Rename(r)
    <2>1. tmp = file \cup {r} /\ tmp # {} /\ lock = r
      BY <1>8, <1>b DEF Trust!Rename
    <2>2. \A q \in Calls \ {r} : ~Inside(q) /\ pc'[q] = pc[q]
      BY <1>8, <1>b, <2>1 DEF Trust!Rename
    <2>3. claude # "holds"
      BY <2>1
    <2>4. file' = tmp /\ written' = written \cup tmp /\ lock' = lock /\ claude' = claude
      BY <1>8, <2>1 DEF Trust!Rename
    <2>5. pc'[r] = "unlock"
      BY <1>8, <1>b DEF Trust!Rename
    <2>6. written' \subseteq file'
      BY <2>1, <2>4
    <2> QED BY <2>1, <2>2, <2>3, <2>4, <2>5, <2>6
  <1>9. CASE Trust!Unlock(r)
    <2>1. lock = r /\ claude # "holds" /\ \A q \in Calls \ {r} : ~Inside(q)
      BY <1>9, <1>b DEF Trust!Unlock
    <2> QED BY <1>9, <1>b, <2>1 DEF Trust!Unlock
  <1> QED BY <1>1, <1>2, <1>3, <1>4, <1>5, <1>6, <1>7, <1>8, <1>9 DEF Trust!Call

LEMMA TrustSafeStep ==
  ASSUME Sound, TrustTypes, TrustTypes', ~wentStale, TrustSafe, [Trust!Next]_(Trust!vars), ~wentStale'
  PROVE  TrustSafe'
  <1> USE Sound DEF Sound, TrustSafe, LockIsTheirs, NothingMissed, Inside
  <1>1. ASSUME NEW r \in Calls, Trust!Call(r) PROVE TrustSafe'
    BY <1>1, TrustSafeCall
  <1>2. CASE Trust!ClaudeLocks
    BY <1>2 DEF Trust!ClaudeLocks, Trust!calls, Trust!Claude, Trust!Free
  <1>3. CASE Trust!ClaudeWrites
    <2>1. \A q \in Calls : ~Inside(q)
      BY <1>3 DEF Trust!ClaudeWrites
    <2>2. file' = file \cup {Trust!Settings} /\ written' = written \cup file' /\ pc' = pc /\ claude' = "idle"
      BY <1>3 DEF Trust!ClaudeWrites, Trust!calls
    <2> QED BY <2>1, <2>2
  <1>4. CASE Trust!ClaudeKilled
    BY <1>4 DEF Trust!ClaudeKilled, Trust!calls
  <1>5. CASE Trust!Tick
    BY <1>5 DEF Trust!Tick, Trust!calls
  <1>6. CASE UNCHANGED Trust!vars
    BY <1>6 DEF Trust!vars, Trust!calls
  <1> QED BY <1>1, <1>2, <1>3, <1>4, <1>5, <1>6 DEF Trust!Next

\* A lock that was removed as stale is remembered.
LEMMA StaleStays == ASSUME TrustTypes, [Trust!Next]_(Trust!vars), wentStale PROVE wentStale'
  BY DEF Trust!Next, Trust!Call, Trust!Look, Trust!Mkdir, Trust!GiveUp, Trust!Stat, Trust!RemoveStale,
     Trust!ReadAgain, Trust!WriteTmp, Trust!Rename,
     Trust!Unlock, Trust!ClaudeLocks, Trust!ClaudeWrites, Trust!ClaudeKilled, Trust!Tick, Trust!vars, TrustTypes

\* However many clones are being prepared while Claude Code writes its own
\* settings, no entry is lost from the file they share, as long as no lock is old
\* enough to be taken for a leftover (ensureWorkspaceTrusted).
THEOREM EntriesAreKept == Spec => []WrittenStays
  <1> DEFINE Inv == part = "trust" => TrustIInv
  <1>0. Sound
    BY TrustAssumption DEF Sound, Trust!Claude, Trust!Free
  <1>1. Init => Inv
    <2> SUFFICES ASSUME Trust!Init PROVE TrustIInv
      BY DEF Init
    <2>1. TrustTypes
      BY <1>0, TrustTypesInit
    <2>2. LockIsTheirs /\ NothingMissed
      BY DEF Trust!Init, LockIsTheirs, NothingMissed, Inside
    <2> QED BY <2>1, <2>2 DEF TrustIInv
  <1>2. Inv /\ [Next]_parts => Inv'
    <2> SUFFICES ASSUME [Next]_parts, TrustIInv, part = "trust" PROVE TrustIInv'
      BY PartStays
    <2>0. [Trust!Next]_(Trust!vars)
      BY TrustMoves
    <2>1. TrustTypes'
      BY <1>0, <2>0, TrustTypesStep DEF TrustIInv
    <2>2. ASSUME ~wentStale' PROVE TrustSafe'
      BY <1>0, <2>0, <2>1, <2>2, StaleStays, TrustSafeStep DEF TrustIInv, TrustSafe
    <2> QED BY <2>1, <2>2 DEF TrustIInv, TrustSafe
  <1>3. Inv => WrittenStays
    BY DEF TrustIInv, WrittenStays, Trust!WrittenStays, TrustTypes, NothingMissed
  <1> QED BY <1>1, <1>2, <1>3, PTL DEF Spec, parts

-----------------------------------------------------------------------------
(* The note of a resume.                                                   *)

NoteTypes == Notes!TypeOK /\ line \in Seq(Resumes) /\ raced \in BOOLEAN

\* Who waits or runs is alone, in the mode of a resume, and the record still has
\* the note it committed.
Alone(r) == verify /\ note = Notes!NoteOf(r)

OneAtATime ==
    /\ line # <<>> => runs = {} /\ Tail(line) = <<>> /\ Alone(Head(line))
    /\ \A r \in runs : runs = {r} /\ line = <<>> /\ Alone(r)

NotesHeard == fresh = {} /\ \A r \in DOMAIN heard : heard[r] = Notes!NoteOf(r)

NoteSafe == OneAtATime /\ NotesHeard

NoteIInv == NoteTypes /\ (~raced => NoteSafe)

-----------------------------------------------------------------------------
LEMMA NoteTypesInit == ASSUME Notes!Init PROVE NoteTypes
  BY EmptySeq DEF Notes!Init, NoteTypes, Notes!TypeOK, Notes!None

LEMMA NoteTypesStep == ASSUME NoteTypes, [Notes!Next]_(Notes!vars) PROVE NoteTypes'
  <1> USE DEF NoteTypes, Notes!TypeOK, Notes!Moves
  <1>1. ASSUME NEW r \in Resumes, Notes!Ask(r) PROVE NoteTypes'
    BY <1>1 DEF Notes!Ask
  <1>2. ASSUME NEW r \in Resumes, Notes!Admission(r) PROVE NoteTypes'
    BY <1>2 DEF Notes!Admission
  <1>3. ASSUME NEW r \in Resumes, NEW found \in Notes!Findings, Notes!Settle(r, found) PROVE NoteTypes'
    <2>1. CASE Notes!Allowed(r, found)
      <3>1. line' = Append(line, r) /\ line' \in Seq(Resumes)
        BY <1>3, <2>1, AppendProperties DEF Notes!Settle
      <3>2. note' \in Resumes \cup {Notes!None}
        BY <1>3, <2>1 DEF Notes!Settle, Notes!NoteOf
      <3> QED BY <1>3, <2>1, <3>1, <3>2 DEF Notes!Settle
    <2>2. CASE ~Notes!Allowed(r, found)
      BY <1>3, <2>2 DEF Notes!Settle
    <2> QED BY <2>1, <2>2
  <1>4. CASE Notes!RunStarts
    <2>1. Head(line) \in Resumes /\ Tail(line) \in Seq(Resumes)
      BY <1>4, HeadTailProperties DEF Notes!RunStarts
    <2> QED BY <1>4, <2>1 DEF Notes!RunStarts
  <1>5. ASSUME NEW r \in Resumes, Notes!ReadsNote(r) PROVE NoteTypes'
    BY <1>5 DEF Notes!ReadsNote
  <1>6. ASSUME NEW r \in Resumes, Notes!Succeeds(r) PROVE NoteTypes'
    BY <1>6 DEF Notes!Succeeds
  <1>7. ASSUME NEW r \in Resumes, Notes!Fails(r) PROVE NoteTypes'
    BY <1>7 DEF Notes!Fails
  <1>8. CASE UNCHANGED Notes!vars
    BY <1>8 DEF Notes!vars
  <1> QED BY <1>1, <1>2, <1>3, <1>4, <1>5, <1>6, <1>7, <1>8 DEF Notes!Next

-----------------------------------------------------------------------------
\* That two resumes met in the queue is remembered.
LEMMA RacedStays == ASSUME [Notes!Next]_(Notes!vars), raced PROVE raced'
  BY DEF Notes!Next, Notes!Ask, Notes!Admission, Notes!Settle, Notes!RunStarts,
     Notes!ReadsNote, Notes!Succeeds, Notes!Fails, Notes!vars

LEMMA NoteSafeStep == ASSUME NoteTypes, NoteSafe, [Notes!Next]_(Notes!vars), ~raced' PROVE NoteSafe'
  <1> USE DEF NoteSafe, OneAtATime, NotesHeard, Alone, Notes!NoteOf
  <1>1. ASSUME NEW r \in Resumes, Notes!Ask(r) \/ Notes!Admission(r) PROVE NoteSafe'
    BY <1>1 DEF Notes!Ask, Notes!Admission
  <1>2. ASSUME NEW r \in Resumes, NEW found \in Notes!Findings, Notes!Settle(r, found) PROVE NoteSafe'
    <2>1. CASE Notes!Allowed(r, found)
      <3>1. line = <<>> /\ runs = {} /\ runs' = {}
        BY <1>2, <2>1 DEF Notes!Settle
      <3>2. line' = <<r>>
        BY <1>2, <2>1, <3>1 DEF Notes!Settle
      <3>3. Head(line') = r /\ Tail(line') = <<>>
        BY <3>2
      <3> QED BY <1>2, <2>1, <3>1, <3>3 DEF Notes!Settle
    <2>2. CASE ~Notes!Allowed(r, found)
      BY <1>2, <2>2 DEF Notes!Settle
    <2> QED BY <2>1, <2>2
  <1>3. CASE Notes!RunStarts
    <2>1. line # <<>> /\ line' = <<>> /\ runs' = {Head(line)} /\ Alone(Head(line))
      BY <1>3 DEF Notes!RunStarts
    <2> QED BY <1>3, <2>1 DEF Notes!RunStarts
  <1>4. ASSUME NEW r \in Resumes, Notes!ReadsNote(r) PROVE NoteSafe'
    BY <1>4 DEF Notes!ReadsNote
  <1>5. ASSUME NEW r \in Resumes, Notes!Succeeds(r) PROVE NoteSafe'
    <2>1. line = <<>> /\ line' = <<>> /\ runs' = {}
      BY <1>5 DEF Notes!Succeeds
    <2> QED BY <1>5, <2>1 DEF Notes!Succeeds
  <1>6. ASSUME NEW r \in Resumes, Notes!Fails(r) PROVE NoteSafe'
    <2>1. line = <<>> /\ line' = <<>> /\ runs' = {}
      BY <1>6 DEF Notes!Fails
    <2> QED BY <1>6, <2>1 DEF Notes!Fails
  <1>7. CASE UNCHANGED Notes!vars
    BY <1>7 DEF Notes!vars
  <1> QED BY <1>1, <1>2, <1>3, <1>4, <1>5, <1>6, <1>7 DEF Notes!Next

\* Unless two resumes of a review were in the queue together, every run a resume
\* makes is a resume and hears exactly the note it was sent with, however many
\* fail before it (resumeReviewJob, runVerifyJob).
THEOREM NotesAreTheirs == Spec => []NoteIsOfItsResume
  <1> DEFINE Inv == part = "follow-up" => NoteIInv
  <1>1. Init => Inv
    BY NoteTypesInit DEF Init, Notes!Init, NoteIInv, NoteSafe, OneAtATime, NotesHeard
  <1>2. Inv /\ [Next]_parts => Inv'
    BY PartStays, NotesMove, NoteTypesStep, RacedStays, NoteSafeStep DEF NoteIInv
  <1>3. Inv => NoteIsOfItsResume
    BY DEF NoteIInv, NoteTypes, NoteSafe, NotesHeard, Notes!NoteOf, NoteIsOfItsResume, Notes!NoteIsOfItsResume
  <1> QED BY <1>1, <1>2, <1>3, PTL DEF Spec, parts

-----------------------------------------------------------------------------
(* Admission.                                                              *)

LEMMA EntryMoves ==
  ASSUME [Next]_parts, part = "admission" PROVE [Entry!Next]_(Entry!vars)
  BY DEF Next, parts, admission, Entry!vars

Places == {"none", "model", "usage", "in", "refused"}

RequestRecord == [at : Places, claude : BOOLEAN, asked : Nat, floor : {0, 1}, open : BOOLEAN]

Reading == [at : 0 .. MaxTime, got : {"nothing", "value", "failure"}, value : {0, 1}]

EntryTypes ==
    /\ now \in 0 .. MaxTime /\ floor \in {0, 1} /\ accepting \in BOOLEAN /\ disabled \in BOOLEAN
    /\ truth \in [Entry!Kinds -> {0, 1}] /\ first \in [Entry!Kinds -> {0, 1}]
    /\ good \in [Entry!Kinds -> Int] /\ inflight \in [Entry!Kinds -> {Entry!Idle} \cup 0 .. MaxTime]
    /\ cache \in [Entry!Kinds -> Reading] /\ req \in [Reviews -> RequestRecord]

\* A reading under way began at most one CLI call ago, and if its kind was good
\* then, it has been good since.
Honest(k) ==
    /\ good[k] <= now /\ (truth[k] = 1 => good[k] = now)
    /\ inflight[k] # Entry!Idle =>
        /\ inflight[k] <= now /\ now - inflight[k] <= CliTimeout
        /\ first[k] = 1 => good[k] >= inflight[k]

\* Who waits for a reading waits for one that is under way, and began at most one
\* CLI call before he asked; who waits for the plan has got past the model.
WaitsFor(r, k) ==
    /\ inflight[k] # Entry!Idle /\ inflight[k] >= req[r].asked - CliTimeout
    /\ req[r].open /\ req[r].claude /\ req[r].asked <= now
    /\ k = "usage" => req[r].floor = 1 /\ good["model"] >= req[r].asked - CliTimeout

Earned(r) ==
    /\ req[r].open
    /\ req[r].claude => /\ good["model"] >= req[r].asked - CliTimeout
                        /\ req[r].floor = 1 => good["usage"] >= req[r].asked - CliTimeout

Fair(r) ==
    /\ \A k \in Entry!Kinds : req[r].at = k => WaitsFor(r, k)
    /\ req[r].at = "in" => Earned(r)

EntryIInv ==
    /\ EntryTypes
    /\ \A k \in Entry!Kinds : Honest(k)
    /\ \A r \in Reviews : Fair(r)

LEMMA EntryInit == ASSUME Entry!Init PROVE EntryIInv
  <1> USE AdmissionAssumption DEF Entry!Init, Entry!Kinds, Entry!Idle
  <1>1. req \in [Reviews -> RequestRecord]
    BY DEF Entry!Nobody, RequestRecord, Places
  <1>2. EntryTypes
    <2>1. [at |-> 0, got |-> "nothing", value |-> 0] \in Reading
      BY DEF Reading
    <2>2. cache \in [Entry!Kinds -> Reading] /\ inflight \in [Entry!Kinds -> {Entry!Idle} \cup 0 .. MaxTime]
      BY <2>1
    <2>3. good \in [Entry!Kinds -> Int] /\ first \in [Entry!Kinds -> {0, 1}]
      OBVIOUS
    <2>4. now \in 0 .. MaxTime /\ floor \in {0, 1} /\ truth \in [Entry!Kinds -> {0, 1}]
      OBVIOUS
    <2>5. accepting \in BOOLEAN /\ disabled \in BOOLEAN
      OBVIOUS
    <2> QED BY <1>1, <2>2, <2>3, <2>4, <2>5 DEF EntryTypes
  <1>3. \A k \in Entry!Kinds : Honest(k)
    BY DEF Honest
  <1>4. \A r \in Reviews : Fair(r)
    BY DEF Fair, Entry!Nobody
  <1> QED BY <1>2, <1>3, <1>4 DEF EntryIInv

\* What time and the host do: nobody's request moves, and what was good recently
\* enough stays so.
LEMMA FairStays ==
  ASSUME EntryTypes, req' = req, good' \in [Entry!Kinds -> Int], now' \in Nat, now' >= now,
         inflight' \in [Entry!Kinds -> Int],
         \A k \in Entry!Kinds : /\ good'[k] >= good[k]
                                /\ inflight[k] # Entry!Idle => inflight'[k] = inflight[k],
         NEW r \in Reviews, Fair(r)
  PROVE  Fair(r)'
  <1> USE AdmissionAssumption
  <1>1. /\ req[r].asked \in Nat /\ now \in Nat /\ CliTimeout \in Nat
        /\ {"model", "usage"} = Entry!Kinds
        /\ \A k \in Entry!Kinds : good[k] \in Int /\ good'[k] \in Int
        /\ \A k \in Entry!Kinds : inflight[k] \in Int
    BY DEF EntryTypes, RequestRecord, Entry!Kinds, Entry!Idle
  <1>2. ASSUME NEW k \in Entry!Kinds, req[r].at = k PROVE WaitsFor(r, k)'
    <2>1. WaitsFor(r, k)
      BY <1>2 DEF Fair
    <2> QED BY <1>1, <2>1 DEF WaitsFor
  <1>3. ASSUME req[r].at = "in" PROVE Earned(r)'
    <2>1. Earned(r)
      BY <1>3 DEF Fair
    <2> QED BY <1>1, <2>1 DEF Earned
  <1> QED BY <1>2, <1>3 DEF Fair

LEMMA TickKeeps == ASSUME EntryIInv, Entry!Tick PROVE EntryIInv'
  <1> USE AdmissionAssumption
  <1>1. EntryTypes'
    BY DEF EntryIInv, EntryTypes, Entry!Tick, Entry!Kinds, Entry!Idle
  <1>2. ASSUME NEW k \in Entry!Kinds PROVE Honest(k)' /\ good'[k] >= good[k]
    <2>1. /\ now' = now + 1 /\ now \in Nat /\ good[k] \in Int /\ inflight[k] \in Int
          /\ inflight[k] # Entry!Idle => now - inflight[k] < CliTimeout
          /\ good'[k] = IF truth[k] = 1 THEN now' ELSE good[k]
          /\ truth' = truth /\ inflight' = inflight /\ first' = first
      BY <1>2 DEF EntryIInv, EntryTypes, Entry!Tick, Entry!Idle
    <2>2. Honest(k)
      BY <1>2 DEF EntryIInv
    <2> QED BY <2>1, <2>2 DEF Honest
  <1>3. ASSUME NEW r \in Reviews PROVE Fair(r)'
    <2>1. /\ req' = req /\ now' \in Nat /\ now' >= now /\ inflight' = inflight
          /\ inflight \in [Entry!Kinds -> Int] /\ good' \in [Entry!Kinds -> Int]
      BY <1>1 DEF EntryIInv, EntryTypes, Entry!Tick, Entry!Idle
    <2> QED BY <1>2, <2>1, FairStays DEF EntryIInv
  <1> QED BY <1>1, <1>2, <1>3 DEF EntryIInv

LEMMA HostKeeps ==
  ASSUME EntryIInv, NEW j \in Entry!Kinds, Entry!HostChanges(j) PROVE EntryIInv'
  <1> USE AdmissionAssumption
  <1>1. EntryTypes'
    BY DEF EntryIInv, EntryTypes, Entry!HostChanges, Entry!Change, Entry!Kinds
  <1>2. ASSUME NEW k \in Entry!Kinds PROVE Honest(k)' /\ good'[k] >= good[k]
    <2>1. /\ now' = now /\ now \in Nat /\ good[k] \in Int /\ inflight[k] \in Int
          /\ truth'[k] = IF k = j THEN 1 - truth[k] ELSE truth[k]
          /\ good'[k] = IF k = j /\ truth'[k] = 1 THEN now ELSE good[k]
          /\ inflight' = inflight /\ first' = first /\ truth[k] \in {0, 1}
      BY <1>2 DEF EntryIInv, EntryTypes, Entry!HostChanges, Entry!Change, Entry!Idle
    <2>2. Honest(k)
      BY <1>2 DEF EntryIInv
    <2> QED BY <2>1, <2>2 DEF Honest
  <1>3. ASSUME NEW r \in Reviews PROVE Fair(r)'
    <2>1. /\ req' = req /\ now' \in Nat /\ now' >= now /\ inflight' = inflight
          /\ inflight \in [Entry!Kinds -> Int] /\ good' \in [Entry!Kinds -> Int]
      BY <1>1 DEF EntryIInv, EntryTypes, Entry!HostChanges, Entry!Change, Entry!Idle
    <2> QED BY <1>2, <2>1, FairStays DEF EntryIInv
  <1> QED BY <1>1, <1>2, <1>3 DEF EntryIInv

\* The settings are none of what a reading or a request in it depends on.
LEMMA SettingsKeep ==
  ASSUME EntryIInv,
         Entry!SettingsChange \/ UNCHANGED Entry!vars
  PROVE  EntryIInv'
  <1>1. EntryTypes'
    <2>1. EntryTypes
      BY DEF EntryIInv
    <2>2. UNCHANGED <<now, truth, good, inflight, first, req, cache>>
      BY DEF Entry!SettingsChange, Entry!Change, Entry!vars
    <2>3. floor' \in {0, 1}
      BY <2>1 DEF EntryTypes, Entry!SettingsChange, Entry!vars
    <2>4. accepting' \in BOOLEAN
      BY <2>1 DEF EntryTypes, Entry!SettingsChange, Entry!vars
    <2>5. disabled' \in BOOLEAN
      BY <2>1 DEF EntryTypes, Entry!SettingsChange, Entry!vars
    <2> QED BY <2>1, <2>2, <2>3, <2>4, <2>5 DEF EntryTypes
  <1>2. UNCHANGED <<now, truth, good, inflight, first, req>>
    BY DEF Entry!SettingsChange, Entry!Change, Entry!vars
  <1>3. \A k \in Entry!Kinds : Honest(k)'
    BY <1>2 DEF EntryIInv, Honest
  <1>4. \A r \in Reviews : Fair(r)'
    BY <1>2 DEF EntryIInv, Fair, WaitsFor, Earned
  <1> QED BY <1>1, <1>3, <1>4 DEF EntryIInv

-----------------------------------------------------------------------------
\* A reading that starts is of this moment, and joins none that is under way.
LEMMA StartsHonestly ==
  ASSUME EntryIInv, NEW kinds \in SUBSET Entry!Kinds, Entry!Starts(kinds),
         UNCHANGED <<now, truth, good>>
  PROVE  /\ inflight' \in [Entry!Kinds -> {Entry!Idle} \cup 0 .. MaxTime]
         /\ first' \in [Entry!Kinds -> {0, 1}]
         /\ \A k \in Entry!Kinds : inflight[k] # Entry!Idle => inflight'[k] = inflight[k]
         /\ \A k \in kinds : inflight'[k] # Entry!Idle /\ inflight'[k] >= now - CliTimeout
         /\ \A k \in Entry!Kinds : Honest(k)'
  <1> USE AdmissionAssumption
  <1>1. /\ now \in 0 .. MaxTime /\ truth \in [Entry!Kinds -> {0, 1}] /\ first \in [Entry!Kinds -> {0, 1}]
        /\ good \in [Entry!Kinds -> Int] /\ inflight \in [Entry!Kinds -> {Entry!Idle} \cup 0 .. MaxTime]
    BY DEF EntryIInv, EntryTypes
  <1>2. \A k \in Entry!Kinds :
          /\ inflight'[k] = IF k \in kinds /\ inflight[k] = Entry!Idle THEN now ELSE inflight[k]
          /\ first'[k] = IF k \in kinds /\ inflight[k] = Entry!Idle THEN truth[k] ELSE first[k]
    BY DEF Entry!Starts
  <1>3. /\ inflight' \in [Entry!Kinds -> {Entry!Idle} \cup 0 .. MaxTime]
        /\ first' \in [Entry!Kinds -> {0, 1}]
    BY <1>1 DEF Entry!Starts
  <1>4. ASSUME NEW k \in Entry!Kinds PROVE Honest(k)'
    <2>1. Honest(k)
      BY DEF EntryIInv
    <2> QED BY <1>1, <1>2, <2>1 DEF Honest
  <1>5. ASSUME NEW k \in kinds PROVE inflight'[k] # Entry!Idle /\ inflight'[k] >= now - CliTimeout
    <2>1. Honest(k)
      BY DEF EntryIInv
    <2> QED BY <1>1, <1>2, <2>1 DEF Honest, Entry!Idle
  <1> QED BY <1>2, <1>3, <1>4, <1>5

LEMMA PageKeeps ==
  ASSUME EntryIInv, NEW j \in Entry!Kinds, Entry!PageAsks(j) PROVE EntryIInv'
  <1> USE AdmissionAssumption
  <1>1. UNCHANGED <<now, changes, truth, good, accepting, disabled, floor, cache, req>>
    BY DEF Entry!PageAsks, Entry!world
  <1>2. Entry!Starts({j})
    BY DEF Entry!PageAsks
  <1>3. /\ inflight' \in [Entry!Kinds -> {Entry!Idle} \cup 0 .. MaxTime]
        /\ first' \in [Entry!Kinds -> {0, 1}]
        /\ \A k \in Entry!Kinds : inflight[k] # Entry!Idle => inflight'[k] = inflight[k]
        /\ \A k \in Entry!Kinds : Honest(k)'
    BY <1>1, <1>2, StartsHonestly
  <1>4. EntryTypes'
    BY <1>1, <1>3 DEF EntryIInv, EntryTypes
  <1>5. ASSUME NEW r \in Reviews PROVE Fair(r)'
    <2>1. /\ good' \in [Entry!Kinds -> Int] /\ now' \in Nat /\ now' >= now
          /\ inflight' \in [Entry!Kinds -> Int]
          /\ \A k \in Entry!Kinds : good'[k] >= good[k]
      BY <1>1, <1>3 DEF EntryIInv, EntryTypes, Entry!Idle
    <2> QED BY <1>1, <1>3, <2>1, FairStays DEF EntryIInv
  <1> QED BY <1>3, <1>4, <1>5 DEF EntryIInv

LEMMA AskKeeps ==
  ASSUME EntryIInv, NEW q \in Reviews, NEW byClaude \in BOOLEAN, Entry!Ask(q, byClaude) PROVE EntryIInv'
  <1> USE AdmissionAssumption
  <1> DEFINE isOpen == accepting /\ ~(byClaude /\ disabled)
             asked == IF isOpen
                      THEN [at |-> IF byClaude THEN "model" ELSE "in", claude |-> byClaude,
                            asked |-> now, floor |-> floor, open |-> isOpen]
                      ELSE Entry!Refused
             kinds == IF isOpen /\ byClaude THEN {"model"} ELSE {}
  <1>1. /\ UNCHANGED <<now, changes, truth, good, accepting, disabled, floor, cache>>
        /\ req' = [req EXCEPT ![q] = asked] /\ Entry!Starts(kinds)
    BY DEF Entry!Ask, Entry!world
  <1>2. kinds \in SUBSET Entry!Kinds
    BY DEF Entry!Kinds
  <1> HIDE DEF kinds
  <1>3. /\ inflight' \in [Entry!Kinds -> {Entry!Idle} \cup 0 .. MaxTime]
        /\ first' \in [Entry!Kinds -> {0, 1}]
        /\ \A k \in Entry!Kinds : inflight[k] # Entry!Idle => inflight'[k] = inflight[k]
        /\ \A k \in kinds : inflight'[k] # Entry!Idle /\ inflight'[k] >= now - CliTimeout
        /\ \A k \in Entry!Kinds : Honest(k)'
    BY <1>1, <1>2, StartsHonestly
  <1>4. /\ accepting \in BOOLEAN /\ disabled \in BOOLEAN /\ floor \in {0, 1} /\ now \in Nat
        /\ req \in [Reviews -> RequestRecord]
    BY DEF EntryIInv, EntryTypes
  <1>5. asked \in RequestRecord
    <2>1. CASE isOpen
      BY <1>4, <2>1 DEF RequestRecord, Places
    <2>2. CASE ~isOpen
      BY <2>2 DEF Entry!Refused, Entry!Nobody, RequestRecord, Places
    <2> QED BY <2>1, <2>2
  <1>6. EntryTypes'
    BY <1>1, <1>3, <1>4, <1>5 DEF EntryIInv, EntryTypes
  <1>7. req'[q] = asked /\ \A r \in Reviews \ {q} : req'[r] = req[r]
    BY <1>1, <1>4
  <1>8. Fair(q)'
    <2>1. CASE isOpen /\ byClaude
      <3>0. asked = [at |-> "model", claude |-> TRUE, asked |-> now, floor |-> floor, open |-> TRUE]
        BY <2>1
      <3>1. req'[q].at = "model" /\ req'[q].claude /\ req'[q].asked = now /\ req'[q].open
        <4> HIDE DEF asked
        <4> QED BY <1>7, <3>0
      <3>2. inflight'["model"] # Entry!Idle /\ inflight'["model"] >= now - CliTimeout
        BY <1>3, <2>1 DEF kinds
      <3> QED BY <1>1, <1>4, <3>1, <3>2 DEF Fair, WaitsFor
    <2>2. CASE isOpen /\ ~byClaude
      <3>0. asked = [at |-> "in", claude |-> FALSE, asked |-> now, floor |-> floor, open |-> TRUE]
        BY <2>2
      <3>1. req'[q].at = "in" /\ ~req'[q].claude /\ req'[q].open
        <4> HIDE DEF asked
        <4> QED BY <1>7, <3>0
      <3> QED BY <3>1 DEF Fair, Earned, Entry!Kinds
    <2>3. CASE ~isOpen
      <3>1. req'[q].at = "refused"
        BY <1>7, <2>3 DEF Entry!Refused, Entry!Nobody
      <3> QED BY <3>1 DEF Fair, Entry!Kinds
    <2> QED BY <2>1, <2>2, <2>3
  <1> HIDE DEF asked, isOpen
  <1>9. ASSUME NEW r \in Reviews \ {q} PROVE Fair(r)'
    <2>1. Fair(r) /\ req'[r] = req[r]
      BY <1>7 DEF EntryIInv
    <2>2. ASSUME NEW k \in Entry!Kinds, req'[r].at = k PROVE WaitsFor(r, k)'
      <3>1. WaitsFor(r, k)
        BY <2>1, <2>2 DEF Fair
      <3> QED BY <1>1, <1>3, <2>1, <3>1 DEF WaitsFor
    <2>3. ASSUME req'[r].at = "in" PROVE Earned(r)'
      BY <1>1, <2>1, <2>3 DEF Fair, Earned
    <2> QED BY <2>2, <2>3 DEF Fair
  <1> QED BY <1>3, <1>6, <1>8, <1>9 DEF EntryIInv

\* A reading that ends answers everyone who waits for it; who needs the plan next
\* finds a reading of it under way.
LEMMA ReadingKeeps ==
  ASSUME EntryIInv, NEW k \in Entry!Kinds, Entry!ReadingEnds(k) PROVE EntryIInv'
  <1> USE AdmissionAssumption
  <1>0. PICK told \in Entry!Answers(k) :
          LET to(r) == IF req[r].at = k THEN Entry!After(r, k, told) ELSE req[r].at
              asks == inflight["usage"] = Entry!Idle
                      /\ \E r \in Reviews : req[r].at = k /\ to(r) = "usage"
          IN  /\ req' = [r \in Reviews |-> IF to(r) = "refused" THEN Entry!Refused
                                           ELSE [req[r] EXCEPT !.at = to(r)]]
              /\ cache' = [cache EXCEPT ![k] = Entry!Remembered(k, told)]
              /\ inflight' = [j \in Entry!Kinds |-> IF j = "usage" /\ asks THEN now
                                                    ELSE IF j = k THEN Entry!Idle ELSE inflight[j]]
              /\ first' = IF asks THEN [first EXCEPT !["usage"] = truth["usage"]] ELSE first
    BY DEF Entry!ReadingEnds
  <1> DEFINE to(r) == IF req[r].at = k THEN Entry!After(r, k, told) ELSE req[r].at
             asks == inflight["usage"] = Entry!Idle
                     /\ \E r \in Reviews : req[r].at = k /\ to(r) = "usage"
  <1>1. /\ UNCHANGED <<now, changes, truth, good, accepting, disabled, floor>>
        /\ inflight[k] # Entry!Idle
    BY DEF Entry!ReadingEnds, Entry!world
  <1>2. /\ req' = [r \in Reviews |-> IF to(r) = "refused" THEN Entry!Refused ELSE [req[r] EXCEPT !.at = to(r)]]
        /\ cache' = [cache EXCEPT ![k] = Entry!Remembered(k, told)]
        /\ inflight' = [j \in Entry!Kinds |-> IF j = "usage" /\ asks THEN now
                                              ELSE IF j = k THEN Entry!Idle ELSE inflight[j]]
        /\ first' = IF asks THEN [first EXCEPT !["usage"] = truth["usage"]] ELSE first
    BY <1>0
  <1>3. /\ now \in 0 .. MaxTime /\ truth \in [Entry!Kinds -> {0, 1}] /\ first \in [Entry!Kinds -> {0, 1}]
        /\ good \in [Entry!Kinds -> Int] /\ inflight \in [Entry!Kinds -> {Entry!Idle} \cup 0 .. MaxTime]
        /\ cache \in [Entry!Kinds -> Reading] /\ req \in [Reviews -> RequestRecord]
    BY DEF EntryIInv, EntryTypes
  <1>4. "usage" \in Entry!Kinds /\ "model" \in Entry!Kinds /\ Entry!Kinds = {"model", "usage"}
    BY DEF Entry!Kinds
  \* Where those who waited go.
  <1>5. ASSUME NEW r \in Reviews, req[r].at = k
        PROVE  /\ to(r) \in {"refused", "usage", "in"}
               /\ to(r) = "usage" => k = "model" /\ req[r].floor = 1
               /\ to(r) = "in" /\ k = "model" => req[r].floor = 0
               /\ to(r) # "refused" => told.got = "value" /\ told.value >= (IF k = "model" THEN 1 ELSE req[r].floor)
    <2>1. req[r].floor \in {0, 1}
      BY <1>3 DEF RequestRecord
    <2>2. told.value \in Int
      BY <1>3 DEF Entry!Answers, Reading
    <2> QED BY <1>5, <2>1, <2>2 DEF Entry!After, Entry!Usable
  \* A value of 1 was true at some moment since the CLI was started.
  <1>6. ASSUME told.got = "value", told.value >= 1 PROVE good[k] >= inflight[k]
    <2>1. first[k] = 1 \/ truth[k] = 1
      BY <1>3, <1>6 DEF Entry!Answers
    <2>2. Honest(k)
      BY DEF EntryIInv
    <2> QED BY <1>1, <1>3, <2>1, <2>2 DEF Honest, Entry!Idle
  <1>7. asks => k = "model" /\ inflight["usage"] = Entry!Idle
    BY <1>5
  <1>8. \A r \in Reviews : req[r].at = k /\ to(r) = "usage" => asks \/ inflight["usage"] # Entry!Idle
    OBVIOUS
  <1>9. ASSUME NEW r \in Reviews
        PROVE  \/ req'[r].at = "refused"
               \/ req'[r] = [req[r] EXCEPT !.at = to(r)] /\ req'[r].at = to(r) /\ to(r) # "refused"
    BY <1>2, <1>3 DEF Entry!Refused, Entry!Nobody, RequestRecord
  <1>10. req' \in [Reviews -> RequestRecord]
    <2>1. Entry!Refused \in RequestRecord
      BY DEF Entry!Refused, Entry!Nobody, RequestRecord, Places
    <2>2. ASSUME NEW r \in Reviews PROVE [req[r] EXCEPT !.at = to(r)] \in RequestRecord
      <3>1. req[r] \in RequestRecord
        BY <1>3
      <3>2. to(r) \in Places
        BY <1>5, <3>1 DEF RequestRecord, Places
      <3> HIDE DEF to
      <3> QED BY <3>1, <3>2 DEF RequestRecord
    <2> HIDE DEF to
    <2> QED BY <1>2, <2>1, <2>2
  <1>11. cache' \in [Entry!Kinds -> Reading]
    <2>1. Entry!Remembered(k, told) \in Reading
      BY <1>3 DEF Entry!Remembered, Entry!Answers, Reading
    <2> QED BY <1>2, <1>3, <2>1
  <1> HIDE DEF to, asks
  <1>12. /\ \A j \in Entry!Kinds : inflight'[j] = IF j = "usage" /\ asks THEN now
                                                 ELSE IF j = k THEN Entry!Idle ELSE inflight[j]
         /\ \A j \in Entry!Kinds : first'[j] = IF j = "usage" /\ asks THEN truth[j] ELSE first[j]
         /\ inflight' \in [Entry!Kinds -> {Entry!Idle} \cup 0 .. MaxTime]
         /\ first' \in [Entry!Kinds -> {0, 1}]
    BY <1>2, <1>3, <1>4
  <1>13. EntryTypes'
    BY <1>1, <1>10, <1>11, <1>12 DEF EntryIInv, EntryTypes
  <1>14. ASSUME NEW j \in Entry!Kinds PROVE Honest(j)'
    <2>1. Honest(j)
      BY DEF EntryIInv
    <2> QED BY <1>1, <1>3, <1>12, <2>1 DEF Honest
  <1>15. ASSUME NEW r \in Reviews PROVE Fair(r)'
    <2>0. CASE req'[r].at = "refused"
      BY <2>0, <1>4 DEF Fair
    <2>1. CASE req[r].at # k /\ to(r) # "refused" /\ req'[r] = [req[r] EXCEPT !.at = to(r)]
      <3>1. req'[r] = req[r]
        BY <1>3, <2>1 DEF to, RequestRecord
      <3>2. Fair(r)
        BY DEF EntryIInv
      <3>3. ASSUME NEW j \in Entry!Kinds, req[r].at = j PROVE WaitsFor(r, j)'
        <4>1. WaitsFor(r, j)
          BY <3>2, <3>3 DEF Fair
        <4>2. inflight'[j] = inflight[j]
          BY <1>7, <1>12, <2>1, <3>3, <4>1 DEF WaitsFor
        <4> QED BY <1>1, <3>1, <4>1, <4>2 DEF WaitsFor
      <3>4. ASSUME req[r].at = "in" PROVE Earned(r)'
        BY <1>1, <3>1, <3>2, <3>4 DEF Fair, Earned
      <3> QED BY <3>1, <3>3, <3>4 DEF Fair
    <2>2. CASE req[r].at = k /\ to(r) # "refused" /\ req'[r] = [req[r] EXCEPT !.at = to(r)]
      <3>1. /\ req'[r].at = to(r) /\ req'[r].asked = req[r].asked /\ req'[r].floor = req[r].floor
            /\ req'[r].claude = req[r].claude /\ req'[r].open = req[r].open
        BY <1>3, <2>2 DEF RequestRecord
      <3>2. WaitsFor(r, k) /\ Honest(k)
        BY <2>2 DEF EntryIInv, Fair
      <3>3. req[r].asked \in Nat /\ req[r].floor \in {0, 1} /\ CliTimeout \in Nat /\ now \in Nat
        BY <1>3 DEF RequestRecord
      <3>4. CASE to(r) = "usage"
        <4>1. k = "model" /\ req[r].floor = 1 /\ good["model"] >= inflight["model"]
          BY <1>5, <1>6, <2>2, <3>4
        <4>2. good["model"] >= req[r].asked - CliTimeout
          BY <1>3, <1>4, <3>2, <3>3, <4>1 DEF WaitsFor, Entry!Idle
        <4>3. inflight'["usage"] # Entry!Idle /\ inflight'["usage"] >= now - CliTimeout
          <5>1. CASE asks
            BY <1>3, <1>4, <1>12, <3>3, <5>1 DEF Entry!Idle
          <5>2. CASE ~asks
            <6>1. inflight["usage"] # Entry!Idle /\ Honest("usage")
              BY <1>4, <1>8, <2>2, <3>4, <5>2 DEF EntryIInv
            <6>2. inflight'["usage"] = inflight["usage"]
              BY <1>4, <1>12, <4>1, <5>2
            <6> QED BY <1>3, <1>4, <3>3, <6>1, <6>2 DEF Honest, Entry!Idle
          <5> QED BY <5>1, <5>2
        <4>4. inflight'["usage"] >= req[r].asked - CliTimeout
          BY <1>4, <1>12, <3>2, <3>3, <4>3 DEF WaitsFor, Entry!Idle
        <4>5. WaitsFor(r, "usage")'
          BY <1>1, <3>1, <3>2, <4>1, <4>2, <4>3, <4>4 DEF WaitsFor
        <4> QED BY <3>1, <3>4, <4>5 DEF Fair
      <3>5. CASE to(r) = "in"
        <4>1. told.got = "value" /\ told.value >= (IF k = "model" THEN 1 ELSE req[r].floor)
          BY <1>5, <2>2
        <4>2. CASE k = "model"
          <5>1. req[r].floor = 0 /\ good["model"] >= inflight["model"]
            BY <1>5, <1>6, <2>2, <3>5, <4>1, <4>2
          <5>2. good["model"] >= req[r].asked - CliTimeout
            BY <1>3, <1>4, <3>2, <3>3, <4>2, <5>1 DEF WaitsFor, Entry!Idle
          <5> QED BY <1>1, <1>4, <3>1, <3>2, <3>5, <5>1, <5>2 DEF Fair, Earned, WaitsFor
        <4>3. CASE k = "usage"
          <5>1. req[r].floor = 1 /\ good["model"] >= req[r].asked - CliTimeout
            BY <3>2, <4>3 DEF WaitsFor
          <5>2. good["usage"] >= inflight["usage"]
            BY <1>6, <4>1, <4>3, <5>1
          <5>3. good["usage"] >= req[r].asked - CliTimeout
            BY <1>3, <1>4, <3>2, <3>3, <4>3, <5>2 DEF WaitsFor, Entry!Idle
          <5> QED BY <1>1, <1>4, <3>1, <3>2, <3>5, <5>1, <5>3 DEF Fair, Earned, WaitsFor
        <4> QED BY <1>4, <4>2, <4>3
      <3> QED BY <1>5, <2>2, <3>4, <3>5
    <2> QED BY <1>9, <2>0, <2>1, <2>2
  <1> QED BY <1>13, <1>14, <1>15 DEF EntryIInv

LEMMA EntryStep == ASSUME EntryIInv, [Entry!Next]_(Entry!vars) PROVE EntryIInv'
  BY TickKeeps, HostKeeps, SettingsKeep, PageKeeps, AskKeeps, ReadingKeeps DEF Entry!Next

\* However many reviews share the readings and whatever changes meanwhile, one is
\* past admission only if intake was open when it was asked for and the model, and
\* where a floor was set the plan, were good at some moment since one CLI call
\* before then (enforceAdmission).
THEOREM AdmissionsAreEarned == Spec => []AdmittedOnTrueReadings
  <1> DEFINE Inv == part = "admission" => EntryIInv
  <1>1. Init => Inv
    BY EntryInit DEF Init
  <1>2. Inv /\ [Next]_parts => Inv'
    BY PartStays, EntryMoves, EntryStep
  <1>3. Inv => AdmittedOnTrueReadings
    <2> SUFFICES ASSUME EntryIInv PROVE Entry!AdmittedOnTrueReadings
      BY DEF AdmittedOnTrueReadings
    <2>1. Entry!TypeOK
      BY DEF EntryIInv, EntryTypes, Reading, RequestRecord, Places, Entry!TypeOK
    <2>2. \A r \in Reviews : req[r].at = "in" => Earned(r)
      BY DEF EntryIInv, Fair
    <2> QED BY <2>1, <2>2 DEF Earned, Entry!AdmittedOnTrueReadings
  <1> QED BY <1>1, <1>2, <1>3, PTL DEF Spec, parts

-----------------------------------------------------------------------------
(* Whose words an agent follows.                                           *)

LEMMA BriefMoves ==
  ASSUME [Next]_parts, part = "briefing" PROVE [Brief!Next]_(Brief!vars)
  BY DEF Next, parts, briefing, Brief!vars

LEMMA BriefTypesInit == ASSUME Brief!Init PROVE Brief!TypeOK
  BY DEF Brief!Init, Brief!TypeOK, Brief!Files

LEMMA BriefTypesStep == ASSUME Brief!TypeOK, [Brief!Next]_(Brief!vars) PROVE Brief!TypeOK'
  <1> USE DEF Brief!TypeOK
  <1>1. ASSUME NEW p \in Brief!ProjectFiles, NEW f \in Brief!Files, Brief!Push(p, f) PROVE Brief!TypeOK'
    BY <1>1 DEF Brief!Push
  <1>2. ASSUME NEW p \in Brief!UserFiles, NEW f \in Brief!Files, Brief!HostWrites(p, f)
        PROVE  Brief!TypeOK'
    BY <1>2 DEF Brief!HostWrites
  <1>3. CASE Brief!Merge
    BY <1>3 DEF Brief!Merge
  <1>4. CASE UNCHANGED Brief!vars
    BY <1>4 DEF Brief!vars
  <1> QED BY <1>1, <1>2, <1>3, <1>4 DEF Brief!Next

-----------------------------------------------------------------------------
BlockNames == {"approval", "tree", "defaults", "project", "user", "bundled", "developer", "focus", "floor"}

\* What a block is, as far as its name goes.
Blocks == [block : BlockNames] \cup [block : BlockNames, mayApprove : BOOLEAN, reReview : BOOLEAN]
          \cup [block : BlockNames, preChange : BOOLEAN]

\* The names of a prompt put together are those of its pieces.
LEMMA NamesOfConcat ==
  ASSUME NEW s \in Seq(Blocks), NEW t \in Seq(Blocks)
  PROVE  /\ s \o t \in Seq(Blocks)
         /\ Brief!Names(s \o t) = Brief!Names(s) \cup Brief!Names(t)
  <1>1. /\ s \o t \in Seq(Blocks) /\ Len(s \o t) = Len(s) + Len(t)
        /\ Len(s) \in Nat /\ Len(t) \in Nat
        /\ \A i \in 1 .. Len(s) : (s \o t)[i] = s[i]
        /\ \A i \in 1 .. Len(t) : (s \o t)[Len(s) + i] = t[i]
    BY ConcatProperties, LenProperties
  <1>2. ASSUME NEW i \in 1 .. Len(s \o t) PROVE (s \o t)[i].block \in Brief!Names(s) \cup Brief!Names(t)
    <2>1. CASE i \in 1 .. Len(s)
      BY <1>1, <2>1 DEF Brief!Names
    <2>2. CASE i \notin 1 .. Len(s)
      <3>1. i - Len(s) \in 1 .. Len(t) /\ i = Len(s) + (i - Len(s))
        BY <1>1, <2>2
      <3> QED BY <1>1, <3>1 DEF Brief!Names
    <2> QED BY <2>1, <2>2
  <1>3. \A i \in 1 .. Len(s) : i \in 1 .. Len(s \o t) /\ (s \o t)[i] = s[i]
    BY <1>1
  <1>4. \A i \in 1 .. Len(t) : Len(s) + i \in 1 .. Len(s \o t) /\ (s \o t)[Len(s) + i] = t[i]
    BY <1>1
  <1>5. Brief!Names(s) \subseteq Brief!Names(s \o t)
    BY <1>3 DEF Brief!Names
  <1>6. Brief!Names(t) \subseteq Brief!Names(s \o t)
    BY <1>4 DEF Brief!Names
  <1>7. Brief!Names(s \o t) \subseteq Brief!Names(s) \cup Brief!Names(t)
    BY <1>2 DEF Brief!Names
  <1> QED BY <1>1, <1>5, <1>6, <1>7

LEMMA ThreeBlocks == ASSUME NEW S, NEW a \in S, NEW b \in S, NEW c \in S PROVE <<a, b, c>> \in Seq(S)
  OBVIOUS

\* The names of a single block, and of none.
LEMMA NamesOfBlock ==
  /\ <<>> \in Seq(Blocks) /\ Brief!Names(<<>>) = {}
  /\ \A n \in BlockNames : <<Brief!Block(n)>> \in Seq(Blocks) /\ Brief!Names(<<Brief!Block(n)>>) = {n}
  <1>1. <<>> \in Seq(Blocks) /\ Brief!Names(<<>>) = {}
    BY EmptySeq DEF Brief!Names
  <1>2. ASSUME NEW n \in BlockNames
        PROVE  <<Brief!Block(n)>> \in Seq(Blocks) /\ Brief!Names(<<Brief!Block(n)>>) = {n}
    BY DEF Brief!Names, Brief!Block, Blocks
  <1> QED BY <1>1, <1>2

\* Which blocks a prompt has: what buildPrompt takes from the skill.
LEMMA PromptNames ==
  ASSUME NEW source \in BlockNames, NEW body, NEW below, NEW from, NEW intent \in BOOLEAN, NEW prompt,
         prompt = Brief!BuildPrompt(
                    [source |-> source, from |-> from, body |-> body, subordinate |-> below],
                    [autoApprove |-> TRUE, reReview |-> FALSE], TRUE, intent)
  PROVE  /\ intent => "focus" \in Brief!Names(prompt)
         /\ body = "text" =>
             /\ source \in Brief!Names(prompt)
             /\ below = "text" => "developer" \in Brief!Names(prompt)
             /\ source = "user" \/ below # "absent" => "floor" \in Brief!Names(prompt)
  <1> DEFINE approval == [autoApprove |-> TRUE, reReview |-> FALSE]
             always == <<Brief!ApprovalBlock(approval), Brief!WorkingTreeBlock(TRUE), Brief!Block("defaults")>>
             own == <<Brief!Block(source)>>
             developer == Brief!If(below = "text", <<Brief!Block("developer")>>)
             focus == Brief!If(intent, <<Brief!Block("focus")>>)
             floored == Brief!If(source = "user" \/ below # "absent", <<Brief!Block("floor")>>)
  <1>1. always \in Seq(Blocks)
    <2>1. Brief!ApprovalBlock(approval) \in Blocks
      BY DEF Brief!ApprovalBlock, Blocks, BlockNames
    <2>2. Brief!WorkingTreeBlock(TRUE) \in Blocks
      BY DEF Brief!WorkingTreeBlock, Blocks, BlockNames
    <2>3. Brief!Block("defaults") \in Blocks
      BY DEF Brief!Block, Blocks, BlockNames
    <2> QED BY <2>1, <2>2, <2>3, ThreeBlocks
  <1>2. own \in Seq(Blocks) /\ Brief!Names(own) = {source}
    BY NamesOfBlock
  <1>3. developer \in Seq(Blocks) /\ (below = "text" => "developer" \in Brief!Names(developer))
    <2>1. "developer" \in BlockNames
      BY DEF BlockNames
    <2>2. CASE below = "text"
      BY <2>1, <2>2, NamesOfBlock DEF Brief!If
    <2>3. CASE below # "text"
      BY <2>3, NamesOfBlock DEF Brief!If
    <2> QED BY <2>2, <2>3
  <1>4. focus \in Seq(Blocks) /\ (intent => "focus" \in Brief!Names(focus))
    <2>1. "focus" \in BlockNames
      BY DEF BlockNames
    <2>2. CASE intent
      BY <2>1, <2>2, NamesOfBlock DEF Brief!If
    <2>3. CASE ~intent
      BY <2>3, NamesOfBlock DEF Brief!If
    <2> QED BY <2>2, <2>3
  <1>5. /\ floored \in Seq(Blocks)
        /\ source = "user" \/ below # "absent" => "floor" \in Brief!Names(floored)
    <2>1. "floor" \in BlockNames
      BY DEF BlockNames
    <2>2. CASE source = "user" \/ below # "absent"
      BY <2>1, <2>2, NamesOfBlock DEF Brief!If
    <2>3. CASE ~(source = "user" \/ below # "absent")
      BY <2>3, NamesOfBlock DEF Brief!If
    <2> QED BY <2>2, <2>3
  <1> HIDE DEF always, own, developer, focus, floored
  <1>6. CASE body = "text"
    <2>1. prompt = always \o (own \o developer \o focus \o floored)
      BY <1>6 DEF Brief!BuildPrompt, always, own, developer, focus, floored
    <2>2. /\ own \o developer \in Seq(Blocks)
          /\ Brief!Names(own \o developer) = Brief!Names(own) \cup Brief!Names(developer)
      BY <1>2, <1>3, NamesOfConcat
    <2>3. /\ own \o developer \o focus \in Seq(Blocks)
          /\ Brief!Names(own \o developer \o focus) = Brief!Names(own \o developer) \cup Brief!Names(focus)
      BY <2>2, <1>4, NamesOfConcat
    <2>4. /\ own \o developer \o focus \o floored \in Seq(Blocks)
          /\ Brief!Names(own \o developer \o focus \o floored)
                = Brief!Names(own \o developer \o focus) \cup Brief!Names(floored)
      BY <2>3, <1>5, NamesOfConcat
    <2>5. Brief!Names(prompt)
            = Brief!Names(always) \cup Brief!Names(own \o developer \o focus \o floored)
      BY <2>1, <2>4, <1>1, NamesOfConcat
    <2> QED BY <1>2, <1>3, <1>4, <1>5, <2>2, <2>3, <2>4, <2>5
  <1>7. CASE body # "text"
    <2>1. prompt = always \o focus
      BY <1>7 DEF Brief!BuildPrompt, always, focus
    <2>2. Brief!Names(always \o focus) = Brief!Names(always) \cup Brief!Names(focus)
      BY <1>1, <1>4, NamesOfConcat
    <2> QED BY <1>4, <1>7, <2>1, <2>2
  <1> QED BY <1>6, <1>7

\* Whatever skill files a pull request brings, its reviewer is told the same; the
\* host's own skill and the floor are told unless the project's is empty, and the
\* owner's focus always is, wherever a clone and the host keep skills.
THEOREM HostHasTheSay == Spec => []BriefedByTheHost
  <1> DEFINE Inv == part = "briefing" => Brief!TypeOK
  <1>1. Init => Inv
    BY BriefTypesInit DEF Init
  <1>2. Inv /\ [Next]_parts => Inv'
    BY PartStays, BriefMoves, BriefTypesStep
  <1>3. Inv => BriefedByTheHost
    <2> SUFFICES ASSUME Brief!TypeOK PROVE Brief!BriefedByTheHost
      BY DEF BriefedByTheHost
    <2>1. ASSUME NEW branch, NEW intent PROVE Brief!Prompt(branch, intent) = Brief!Prompt(head, intent)
      BY DEF Brief!Prompt, Brief!ResolveReviewSkill
    <2>2. ASSUME NEW intent \in BOOLEAN
          PROVE  /\ intent => "focus" \in Brief!Names(Brief!Prompt(head, intent))
                 /\ Brief!HostSkill # <<>> =>
                      LET project == Brief!First(ProjectPaths, base) IN
                      (home[Brief!HostSkill[1]] = "text" /\ (project = <<>> \/ base[project[1]] = "text"))
                        => /\ {"user", "developer"} \cap Brief!Names(Brief!Prompt(head, intent)) # {}
                           /\ "floor" \in Brief!Names(Brief!Prompt(head, intent))
      <3> DEFINE project == Brief!First(ProjectPaths, base)
                 prompt == Brief!Prompt(head, intent)
                 skill(source, from, body, below) ==
                     [source |-> source, from |-> from, body |-> body, subordinate |-> below]
                 built(briefed) ==
                     Brief!BuildPrompt(briefed, [autoApprove |-> TRUE, reReview |-> FALSE], TRUE, intent)
      <3>0. {"project", "user", "bundled"} \subseteq BlockNames
        BY DEF BlockNames
      <3>1. CASE project # <<>> /\ Brief!HostSkill # <<>>
        <4>1. prompt = built(skill("project", "base", base[project[1]], home[Brief!HostSkill[1]]))
          BY <3>1 DEF Brief!Prompt, Brief!ResolveReviewSkill, Brief!HostSkill
        <4> HIDE DEF prompt, project
        <4>2. /\ intent => "focus" \in Brief!Names(prompt)
              /\ base[project[1]] = "text" /\ home[Brief!HostSkill[1]] = "text" =>
                   "developer" \in Brief!Names(prompt) /\ "floor" \in Brief!Names(prompt)
          BY <3>0, <4>1, PromptNames
        <4> QED BY <3>1, <4>2 DEF prompt, project
      <3>2. CASE project = <<>> /\ Brief!HostSkill # <<>>
        <4>1. prompt = built(skill("user", "home", home[Brief!HostSkill[1]], "absent"))
          BY <3>2 DEF Brief!Prompt, Brief!ResolveReviewSkill, Brief!HostSkill
        <4> HIDE DEF prompt, project
        <4>2. /\ intent => "focus" \in Brief!Names(prompt)
              /\ home[Brief!HostSkill[1]] = "text" =>
                   "user" \in Brief!Names(prompt) /\ "floor" \in Brief!Names(prompt)
          BY <3>0, <4>1, PromptNames
        <4> QED BY <3>2, <4>2 DEF prompt, project
      <3>3. CASE Brief!HostSkill = <<>>
        <4>1. \/ prompt = built(skill("project", "base", base[project[1]], "absent"))
              \/ prompt = built(skill("bundled", "install", bundled, "absent"))
          BY <3>3 DEF Brief!Prompt, Brief!ResolveReviewSkill, Brief!HostSkill
        <4> HIDE DEF prompt, project
        <4>2. intent => "focus" \in Brief!Names(prompt)
          BY <3>0, <4>1, PromptNames
        <4> QED BY <3>3, <4>2 DEF prompt
      <3> QED BY <3>1, <3>2, <3>3
    <2> QED BY <2>1, <2>2 DEF Brief!BriefedByTheHost
  <1> QED BY <1>1, <1>2, <1>3, PTL DEF Spec, parts

-----------------------------------------------------------------------------
(* Unlocking the settings.                                                 *)

LEMMA AccessMoves ==
  ASSUME [Next]_parts, part = "access" PROVE [Unlocking!Next]_(Unlocking!vars)
  BY DEF Next, parts, access, Unlocking!vars

Entered == Tokens \X (1 .. Unlocking!Never)

Asking == Cardinality(Calls)

LimiterTypes ==
    /\ clock \in 0 .. LastTick /\ checking \subseteq Calls
    /\ record \in [fails : Nat, until : 0 .. LastTick + MaxLock, seen : 0 .. LastTick]
    /\ misses \in Nat /\ runOuts \in Nat

\* While a lock runs only the attempts that were under way can still miss; when it
\* has run out as many as can be under way may have missed once more.
Paced ==
    /\ record.fails = misses
    /\ misses < MaxFails => record.until = 0
    /\ record.until > clock =>
          misses + Cardinality(checking) <= MaxFails - 1 + Asking + Asking * runOuts
    /\ record.until <= clock => misses <= MaxFails - 1 + Asking * runOuts

SessionTypes ==
    /\ clock \in 0 .. LastTick
    /\ sessions \in Seq(Entered) /\ Len(sessions) <= Limit
    /\ disk \in [fingerprint : Passwords, sessions : Seq(Entered)] /\ Len(disk.sessions) <= Limit
    /\ password \in Passwords /\ revoked \subseteq DOMAIN issued

\* What was issued under this password and is not past its time, unless a write failed.
EarnedEntry(e, under) ==
    /\ e[1] \in DOMAIN issued /\ issued[e[1]] = under
    /\ e[1] \in revoked => unsaved \/ e[2] <= clock

EntriesOf(list) == {list[i] : i \in 1 .. Len(list)}

\* A token has one time, in memory and in the file.
SessionsEarned ==
    /\ \A e \in EntriesOf(sessions) : EarnedEntry(e, password)
    /\ \A e \in EntriesOf(disk.sessions) : EarnedEntry(e, disk.fingerprint)
    /\ \A e, d \in EntriesOf(sessions) \cup EntriesOf(disk.sessions) : e[1] = d[1] => e = d

AccessIInv == LimiterTypes /\ Paced /\ SessionTypes /\ SessionsEarned

\* What is taken from a list, in its order.
LEMMA OnlyTakes ==
  ASSUME NEW S, NEW list \in Seq(S), NEW these
  PROVE  LET taken == Unlocking!Only(list, these)
         IN  /\ taken \in Seq(S) /\ Len(taken) <= Len(list)
             /\ \A i \in 1 .. Len(taken) :
                    taken[i] \in these /\ \E j \in 1 .. Len(list) : list[j] = taken[i]
  <1> DEFINE Step(t, i) == IF list[i] \in these THEN Append(t, list[i]) ELSE t
             n == Len(list)
             g == [i \in 1 .. n |-> [t \in Seq(S) |-> Step(t, i)]]
             Is(f) == f = [i \in 0 .. n |-> IF i = 0 THEN <<>> ELSE Step(f[i - 1], i)]
             only == CHOOSE f : Is(f)
             Of(i) == /\ only[i] \in Seq(S) /\ Len(only[i]) <= i
                      /\ \A k \in 1 .. Len(only[i]) :
                             only[i][k] \in these /\ \E j \in 1 .. n : list[j] = only[i][k]
             H == {i \in 0 .. n : Of(i)}
  <1>n. n \in Nat
    BY LenProperties
  <1>13. Unlocking!Only(list, these) = only[n]
    BY DEF Unlocking!Only
  <1>0. \A i \in 1 .. n : list[i] \in S
    BY ElementOfSeq
  <1>1. \A i \in 1 .. n : \A t \in Seq(S) : Step(t, i) \in Seq(S)
    BY <1>0, AppendProperties
  <1>2. PICK e \in Seq(S) : e = <<>>
    BY EmptySeq
  <1> HIDE DEF n, Step
  <1>3. \E f \in [0 .. n -> Seq(S)] : f[0] = e /\ \A i \in 1 .. n : f[i] = g[i][f[i - 1]]
    <2>1. g \in [1 .. n -> [Seq(S) -> Seq(S)]]
      BY <1>1
    <2> PICK T : T = Seq(S)
      OBVIOUS
    <2>2. g \in [1 .. n -> [T -> T]] /\ e \in T
      BY <1>2, <2>1
    <2> HIDE DEF g
    <2>3. \E f : Steps(f, T, n, e, g)
      BY <1>n, <2>2, StepByStep
    <2> QED BY <2>3 DEF Steps
  <1>4. PICK f \in [0 .. n -> Seq(S)] : f[0] = e /\ \A i \in 1 .. n : f[i] = Step(f[i - 1], i)
    <2>1. PICK f \in [0 .. n -> Seq(S)] : f[0] = e /\ \A i \in 1 .. n : f[i] = g[i][f[i - 1]]
      BY <1>3
    <2>2. ASSUME NEW i \in 1 .. n PROVE f[i] = Step(f[i - 1], i)
      <3>1. i - 1 \in 0 .. n
        BY <1>n
      <3>2. f[i - 1] \in Seq(S)
        BY <3>1
      <3> QED BY <2>1, <3>2
    <2> QED BY <2>1, <2>2
  <1>5. ASSUME NEW i \in 0 .. n PROVE f[i] = IF i = 0 THEN <<>> ELSE Step(f[i - 1], i)
    <2>1. i = 0 \/ i \in 1 .. n
      BY <1>n
    <2> QED BY <1>2, <1>4, <2>1
  <1>6. Is(f)
    BY <1>5
  <1>7. Is(only)
    <2> HIDE DEF Is
    <2> QED BY <1>6
  <1> HIDE DEF only
  <1>8. only[0] = <<>> /\ \A i \in 1 .. n : only[i] = Step(only[i - 1], i)
    <2>1. \A i \in 0 .. n : only[i] = IF i = 0 THEN <<>> ELSE Step(only[i - 1], i)
      BY <1>7
    <2>2. 0 \in 0 .. n /\ \A i \in 1 .. n : i \in 0 .. n /\ i # 0
      BY <1>n
    <2> QED BY <2>1, <2>2
  <1>9. 0 \in H
    <2>1. 0 \in 0 .. n
      BY <1>n
    <2>2. only[0] \in Seq(S) /\ Len(only[0]) = 0
      BY <1>2, <1>8
    <2> QED BY <2>1, <2>2
  <1>10. ASSUME NEW i \in 1 .. n, i - 1 \in H PROVE i \in H
    <2>1. PICK s \in Seq(S) : s = only[i - 1]
      BY <1>10
    <2>2. /\ Len(s) <= i - 1 /\ Len(s) \in Nat
          /\ \A k \in 1 .. Len(s) : s[k] \in these /\ \E j \in 1 .. n : list[j] = s[k]
      <3> QED BY <1>10, <2>1, LenProperties
    <2>3. only[i] = IF list[i] \in these THEN Append(s, list[i]) ELSE s
      BY <1>8, <2>1 DEF Step
    <2>4. CASE list[i] \in these
      <3>1. PICK d \in S : d = list[i]
        BY <1>0
      <3>2. /\ only[i] = Append(s, d) /\ Append(s, d) \in Seq(S) /\ Len(Append(s, d)) = Len(s) + 1
            /\ Append(s, d)[Len(s) + 1] = d /\ \A k \in 1 .. Len(s) : Append(s, d)[k] = s[k]
        <4> QED BY <2>3, <2>4, <3>1, AppendProperties
      <3>3. ASSUME NEW k \in 1 .. Len(s) + 1
            PROVE  Append(s, d)[k] \in these /\ \E j \in 1 .. n : list[j] = Append(s, d)[k]
        <4>1. CASE k \in 1 .. Len(s)
          BY <2>2, <3>2, <4>1
        <4>2. CASE k = Len(s) + 1
          BY <2>4, <3>1, <3>2, <4>2
        <4> QED BY <2>2, <4>1, <4>2
      <3>4. Len(Append(s, d)) <= i
        BY <2>2, <3>2
      <3>5. \A k \in 1 .. Len(Append(s, d)) :
               Append(s, d)[k] \in these /\ \E j \in 1 .. n : list[j] = Append(s, d)[k]
        BY <3>2, <3>3
      <3>6. Of(i)
        BY <3>2, <3>4, <3>5
      <3>7. i \in 0 .. n
        BY <1>n
      <3> HIDE DEF Of
      <3> QED BY <3>6, <3>7
    <2>5. CASE list[i] \notin these
      <3> QED BY <2>1, <2>2, <2>3, <2>5
    <2> QED BY <2>4, <2>5
  <1>11. 0 .. n \subseteq H
    <2> HIDE DEF H
    <2> QED BY <1>n, <1>9, <1>10, UpTo
  <1>12. Of(n)
    <2> HIDE DEF Of
    <2> QED BY <1>n, <1>11
  <1> QED BY <1>12, <1>13 DEF n

-----------------------------------------------------------------------------
(* The limiter.                                                            *)

LEMMA MostAtOnce ==
  ASSUME LimiterTypes
  PROVE  /\ IsFiniteSet(checking) /\ Cardinality(checking) \in Nat
         /\ Asking \in Nat /\ Cardinality(checking) <= Asking
  BY AccessAssumption, FS_Subset, FS_CardinalityType DEF LimiterTypes, Asking

\* A lock takes its time, however often it has doubled.
LEMMA LockTakesTime ==
  ASSUME LimiterTypes, NEW fails \in Nat, NEW before
  PROVE  LET until == Unlocking!LockAfter(fails, before)
         IN  IF fails < MaxFails THEN until = before ELSE until \in clock + 1 .. clock + MaxLock
  <1>1. ASSUME NEW k \in Nat PROVE 2 ^ k \in Nat \ {0}
    <2>1. IsFiniteSet(1 .. k) /\ Cardinality(1 .. k) = k
      BY FS_Interval
    <2>2. IsFiniteSet(SUBSET (1 .. k)) /\ Cardinality(SUBSET (1 .. k)) = 2 ^ k
      BY <2>1, FS_SUBSET
    <2> QED BY <2>2, FS_CardinalityType, FS_EmptySet
  <1>2. MaxFails \in Nat /\ BaseLock \in Nat \ {0} /\ MaxLock \in Nat \ {0} /\ clock \in Nat
    BY AccessAssumption DEF LimiterTypes
  <1>3. CASE fails < MaxFails
    BY <1>2, <1>3 DEF Unlocking!LockAfter
  <1>4. CASE ~ (fails < MaxFails)
    <2>1. PICK p \in Nat \ {0} : p = 2 ^ (fails - MaxFails)
      BY <1>1, <1>2, <1>4
    <2>2. BaseLock * p \in Nat /\ BaseLock * p >= 1
      BY <1>2
    <2>3. PICK d \in Nat : d = BaseLock * p /\ d >= 1
      BY <2>2
    <2>4. Unlocking!LockAfter(fails, before) = clock + (IF d < MaxLock THEN d ELSE MaxLock)
      BY <1>4, <2>1, <2>3 DEF Unlocking!LockAfter
    <2> QED BY <1>2, <1>4, <2>3, <2>4
  <1> QED BY <1>3, <1>4

LEMMA LimiterInit == ASSUME Unlocking!Init PROVE LimiterTypes /\ Paced
  <1>1. Asking \in Nat
    BY AccessAssumption, FS_CardinalityType DEF Asking
  <1>2. MaxFails \in Nat \ {0} /\ MaxLock \in Nat /\ LastTick \in Nat
    BY AccessAssumption
  <1>3. Asking * 0 = 0
    BY <1>1
  <1> QED BY <1>1, <1>2, <1>3 DEF Unlocking!Init, Unlocking!NoRecord, LimiterTypes, Paced

\* Whatever forgets the record starts the count anew.
LEMMA Anew ==
  ASSUME LimiterTypes, record' = Unlocking!NoRecord, misses' = 0, runOuts' = 0,
         checking' \subseteq Calls, clock' = clock
  PROVE  LimiterTypes' /\ Paced'
  <1>1. Asking \in Nat /\ Asking * 0 = 0
    BY MostAtOnce
  <1>2. MaxFails \in Nat \ {0} /\ MaxLock \in Nat /\ LastTick \in Nat
    BY AccessAssumption
  <1> QED BY <1>1, <1>2 DEF Unlocking!NoRecord, LimiterTypes, Paced

LEMMA BeginKeeps ==
  ASSUME LimiterTypes, Paced, NEW r \in Calls, Unlocking!Begin(r)
  PROVE  LimiterTypes' /\ Paced'
  <1>1. checking' \subseteq Calls /\ clock' = clock
    BY DEF Unlocking!Begin, LimiterTypes
  <1>2. CASE Unlocking!Forgotten
    BY <1>1, <1>2, Anew DEF Unlocking!Begin
  <1>3. CASE ~Unlocking!Forgotten
    <2>1. UNCHANGED <<record, misses, runOuts>> /\ ~ (record.until > clock)
      BY <1>3 DEF Unlocking!Begin, Unlocking!Blocked
    <2> QED BY <1>1, <2>1 DEF LimiterTypes, Paced
  <1> QED BY <1>2, <1>3

LEMMA MissKeeps ==
  ASSUME LimiterTypes, Paced, NEW r \in Calls, Unlocking!Miss(r)
  PROVE  LimiterTypes' /\ Paced'
  <1> DEFINE until == Unlocking!LockAfter(record.fails + 1, record.until)
  <1>1. /\ checking' = checking \ {r} /\ r \in checking /\ clock' = clock
        /\ misses' = misses + 1 /\ runOuts' = runOuts
        /\ record'.fails = record.fails + 1 /\ record'.until = until
        /\ record' = [fails |-> record.fails + 1, seen |-> clock, until |-> until]
    BY DEF Unlocking!Miss
  <1>2. IF misses + 1 < MaxFails THEN until = record.until ELSE until \in clock + 1 .. clock + MaxLock
    BY LockTakesTime DEF LimiterTypes, Paced
  <1> HIDE DEF until
  <1>3. PICK m \in Nat, c \in Nat, d \in Nat, N \in Nat, over \in Nat, k \in Nat \ {0} :
           /\ m = misses /\ c = Cardinality(checking) /\ d = Cardinality(checking') /\ N = Asking
           /\ over = Asking * runOuts /\ k = MaxFails
    <2>1. misses \in Nat /\ runOuts \in Nat
      BY DEF LimiterTypes
    <2>2. Cardinality(checking') \in Nat
      BY <1>1, MostAtOnce, FS_RemoveElement, FS_CardinalityType
    <2>3. Asking * runOuts \in Nat
      BY <2>1, MostAtOnce
    <2> QED BY <2>1, <2>2, <2>3, MostAtOnce, AccessAssumption
  <1>4. d = c - 1 /\ c <= N
    BY <1>1, <1>3, MostAtOnce, FS_RemoveElement
  <1>5. PICK now1 \in 0 .. LastTick, was \in 0 .. LastTick + MaxLock : now1 = clock /\ was = record.until
    BY DEF LimiterTypes
  <1>6. /\ MaxLock \in Nat \ {0} /\ LastTick \in Nat
        /\ m < k => was = 0
        /\ was > now1 => m + c <= k - 1 + N + over
        /\ was <= now1 => m <= k - 1 + over
        /\ IF m + 1 < k THEN until = was ELSE until \in now1 + 1 .. now1 + MaxLock
    BY <1>2, <1>3, <1>5, AccessAssumption DEF Paced
  <1>7. until \in 0 .. LastTick + MaxLock
    BY <1>5, <1>6
  <1>8. /\ m + 1 < k => until = 0
        /\ until > now1 => m + 1 + d <= k - 1 + N + over
        /\ until <= now1 => m + 1 <= k - 1 + over
    BY <1>4, <1>5, <1>6, <1>7
  <1>9. LimiterTypes'
    <2>1. record' \in [fails : Nat, until : 0 .. LastTick + MaxLock, seen : 0 .. LastTick]
      BY <1>1, <1>7 DEF LimiterTypes
    <2> QED BY <1>1, <2>1 DEF LimiterTypes
  <1>10. Paced'
    <2>1. Asking' = Asking
      BY DEF Asking
    <2>2. record'.fails = misses'
      BY <1>1 DEF Paced
    <2>3. /\ misses' = m + 1 /\ clock' = now1 /\ Cardinality(checking)' = d
          /\ Asking' = N /\ (Asking * runOuts)' = over /\ record'.until = until
      BY <1>1, <1>3, <1>5, <2>1
    <2> QED BY <1>3, <1>8, <2>2, <2>3 DEF Paced
  <1> QED BY <1>9, <1>10

LEMMA TickPaces ==
  ASSUME LimiterTypes, Paced, Unlocking!Tick PROVE LimiterTypes' /\ Paced'
  <1>1. PICK N \in Nat, o \in Nat, c \in Nat, k \in Nat \ {0} :
           N = Asking /\ o = runOuts /\ c = Cardinality(checking) /\ k = MaxFails
    BY MostAtOnce, AccessAssumption DEF LimiterTypes
  <1>2. N * o \in Nat /\ N * (o + 1) = N + N * o
    BY <1>1
  <1>3. PICK over \in Nat : over = N * o
    BY <1>2
  <1>4. /\ clock' = clock + 1 /\ clock < LastTick /\ UNCHANGED <<record, checking, misses>>
        /\ runOuts' = IF record.until = clock + 1 THEN o + 1 ELSE o
    BY <1>1 DEF Unlocking!Tick
  <1>5. LimiterTypes'
    BY <1>1, <1>4, AccessAssumption DEF LimiterTypes
  <1>6. Asking' = N /\ Cardinality(checking)' = c
    BY <1>1, <1>4 DEF Asking
  <1>7. (Asking * runOuts)' = IF record.until = clock + 1 THEN N + over ELSE over
    BY <1>2, <1>3, <1>4, <1>6
  <1>8. PICK now1 \in Nat, was \in Nat, m \in Nat : now1 = clock /\ was = record.until /\ m = misses
    BY DEF LimiterTypes
  <1>9. /\ m < k => was = 0
        /\ was > now1 => m + c <= k - 1 + N + over
        /\ was <= now1 => m <= k - 1 + over
    BY <1>1, <1>3, <1>8 DEF Paced
  <1>10. PICK over1 \in Nat : /\ over1 = (Asking * runOuts)'
                             /\ over1 = IF was = now1 + 1 THEN N + over ELSE over
    BY <1>7, <1>8
  <1>11. /\ was > now1 + 1 => m + c <= k - 1 + N + over1
         /\ was <= now1 + 1 => m <= k - 1 + over1
    BY <1>9, <1>10
  <1>12. record'.fails = misses'
    BY <1>4 DEF Paced
  <1>13. Paced'
    BY <1>1, <1>4, <1>6, <1>8, <1>9, <1>10, <1>11, <1>12 DEF Paced
  <1> QED BY <1>5, <1>13

LEMMA LimiterStep ==
  ASSUME LimiterTypes, Paced, [Unlocking!Next]_(Unlocking!vars) PROVE LimiterTypes' /\ Paced'
  <1>1. ASSUME NEW r \in Calls, Unlocking!Begin(r) PROVE LimiterTypes' /\ Paced'
    BY <1>1, BeginKeeps
  <1>2. ASSUME NEW r \in Calls, Unlocking!Miss(r) PROVE LimiterTypes' /\ Paced'
    BY <1>2, MissKeeps
  <1>3. ASSUME NEW r \in Calls, Unlocking!Succeed(r) PROVE LimiterTypes' /\ Paced'
    <2>1. checking' \subseteq Calls
      BY <1>3 DEF Unlocking!Succeed, LimiterTypes
    <2> QED BY <1>3, <2>1, Anew DEF Unlocking!Succeed
  <1>4. ASSUME NEW r \in Calls, NEW t \in Tokens, NEW until, Unlocking!Unlock(r, t, until)
        PROVE  LimiterTypes' /\ Paced'
    <2>1. checking' \subseteq Calls
      BY <1>4 DEF Unlocking!Unlock, LimiterTypes
    <2> QED BY <1>4, <2>1, Anew DEF Unlocking!Unlock
  <1>5. ASSUME NEW p \in Passwords, Unlocking!Restart(p) PROVE LimiterTypes' /\ Paced'
    <2>1. checking' \subseteq Calls
      BY <1>5 DEF Unlocking!Restart
    <2> QED BY <1>5, <2>1, Anew DEF Unlocking!Restart
  <1>6. ASSUME UNCHANGED <<clock, record, checking, misses, runOuts>> PROVE LimiterTypes' /\ Paced'
    BY <1>6 DEF LimiterTypes, Paced, Asking
  <1>7. CASE Unlocking!Use
    BY <1>6, <1>7 DEF Unlocking!Use, Unlocking!limiter
  <1>8. ASSUME NEW t \in Tokens, Unlocking!Revoke(t) PROVE LimiterTypes' /\ Paced'
    BY <1>6, <1>8 DEF Unlocking!Revoke, Unlocking!limiter
  <1>9. CASE Unlocking!Tick
    BY <1>9, TickPaces
  <1>10. CASE UNCHANGED Unlocking!vars
    BY <1>6, <1>10 DEF Unlocking!vars
  <1> QED BY <1>1, <1>2, <1>3, <1>4, <1>5, <1>7, <1>8, <1>9, <1>10 DEF Unlocking!Next

LEMMA KeepsPace == ASSUME LimiterTypes, Paced PROVE Unlocking!MissesKeepPace
  <1>1. PICK N \in Nat, o \in Nat, c \in Nat, k \in Nat \ {0}, m \in Nat :
           /\ N = Asking /\ o = runOuts /\ c = Cardinality(checking) /\ k = MaxFails /\ m = misses
    BY MostAtOnce, AccessAssumption DEF LimiterTypes
  <1>2. N * o \in Nat /\ N * (1 + o) = N + N * o
    BY <1>1
  <1>3. PICK over \in Nat : over = N * o
    BY <1>2
  <1>4. m <= k - 1 + N + over
    BY <1>1, <1>3 DEF Paced, LimiterTypes
  <1>5. m <= k - 1 + N * (1 + o)
    BY <1>2, <1>3, <1>4
  <1>6. Unlocking!Cardinality(Calls) = Asking
    BY DEF Unlocking!Cardinality, Cardinality, Asking
  <1> QED BY <1>1, <1>5, <1>6 DEF Unlocking!MissesKeepPace

-----------------------------------------------------------------------------
(* The sessions.                                                           *)

LEMMA LiveTakes ==
  ASSUME NEW list \in Seq(Entered), clock \in 0 .. LastTick
  PROVE  LET live == Unlocking!Live(list)
         IN  /\ live \in Seq(Entered) /\ Len(live) <= Len(list)
             /\ EntriesOf(live) \subseteq EntriesOf(list)
             /\ \A e \in EntriesOf(live) : e[2] > clock
  <1> DEFINE live == Unlocking!Live(list)
             these == Tokens \X (clock + 1 .. Unlocking!Never)
  <1>1. live = Unlocking!Only(list, these)
    BY DEF Unlocking!Live
  <1>2. /\ live \in Seq(Entered) /\ Len(live) <= Len(list)
        /\ \A i \in 1 .. Len(live) : live[i] \in these /\ \E j \in 1 .. Len(list) : list[j] = live[i]
    <2> HIDE DEF live, these
    <2> QED BY <1>1, OnlyTakes
  <1>3. ASSUME NEW e \in these PROVE e[2] > clock
    BY AccessAssumption DEF Unlocking!Never
  <1> HIDE DEF live, these
  <1>4. EntriesOf(live) \subseteq EntriesOf(list) /\ \A e \in EntriesOf(live) : e[2] > clock
    BY <1>2, <1>3 DEF EntriesOf
  <1> QED BY <1>2, <1>4 DEF live

LEMMA WithoutTakes ==
  ASSUME NEW list \in Seq(Entered), NEW token
  PROVE  LET kept == Unlocking!Without(list, token)
         IN  /\ kept \in Seq(Entered) /\ Len(kept) <= Len(list)
             /\ EntriesOf(kept) \subseteq EntriesOf(list)
             /\ \A e \in EntriesOf(kept) : e[1] # token
  <1> DEFINE kept == Unlocking!Without(list, token)
             these == (Tokens \ {token}) \X (1 .. Unlocking!Never)
  <1>1. kept = Unlocking!Only(list, these)
    BY DEF Unlocking!Without
  <1>2. /\ kept \in Seq(Entered) /\ Len(kept) <= Len(list)
        /\ \A i \in 1 .. Len(kept) : kept[i] \in these /\ \E j \in 1 .. Len(list) : list[j] = kept[i]
    <2> HIDE DEF kept, these
    <2> QED BY <1>1, OnlyTakes
  <1>3. ASSUME NEW e \in these PROVE e[1] # token
    OBVIOUS
  <1> HIDE DEF kept, these
  <1>4. EntriesOf(kept) \subseteq EntriesOf(list) /\ \A e \in EntriesOf(kept) : e[1] # token
    BY <1>2, <1>3 DEF EntriesOf
  <1> QED BY <1>2, <1>4 DEF kept

LEMMA KeptLastTakes ==
  ASSUME NEW list \in Seq(Entered), NEW n \in Nat
  PROVE  LET kept == Unlocking!KeptLast(list, n)
         IN  /\ kept \in Seq(Entered) /\ Len(kept) <= n
             /\ EntriesOf(kept) \subseteq EntriesOf(list)
  <1>1. PICK l \in Nat : l = Len(list)
    BY LenProperties
  <1>2. PICK a \in 1 .. l + 1 : a = IF l > n THEN l - n + 1 ELSE 1
    <2>1. (IF l > n THEN l - n + 1 ELSE 1) \in 1 .. l + 1
      OBVIOUS
    <2> QED BY <2>1
  <1>3. PICK kept : kept = SubSeq(list, a, l)
    OBVIOUS
  <1>4. Unlocking!KeptLast(list, n) = kept
    BY <1>1, <1>2, <1>3 DEF Unlocking!KeptLast
  <1>5. /\ kept \in Seq(Entered) /\ Len(kept) = IF a <= l THEN l - a + 1 ELSE 0
        /\ \A i \in 1 .. l - a + 1 : kept[i] = list[a + i - 1]
    BY <1>1, <1>3, SubSeqProperties
  <1>6. Len(kept) <= n
    BY <1>2, <1>5
  <1>7. ASSUME NEW i \in 1 .. Len(kept) PROVE kept[i] \in EntriesOf(list)
    <2>1. i \in 1 .. l - a + 1 /\ a + i - 1 \in 1 .. l
      BY <1>5, <1>2
    <2> QED BY <1>1, <1>5, <2>1 DEF EntriesOf
  <1>8. EntriesOf(kept) \subseteq EntriesOf(list)
    BY <1>7 DEF EntriesOf
  <1> QED BY <1>4, <1>5, <1>6, <1>8

LEMMA EntriesAreEntered ==
  ASSUME NEW list \in Seq(Entered), NEW e \in EntriesOf(list)
  PROVE  e \in Entered /\ e[1] \in Tokens /\ e[2] \in 1 .. Unlocking!Never
  BY ElementOfSeq DEF EntriesOf, Entered

LEMMA Lasts == ASSUME clock \in 0 .. LastTick
               PROVE  /\ Unlocking!Never \in Nat /\ Unlocking!Never > clock /\ clock \in Nat
                      /\ clock + SessionTtl \in 1 .. Unlocking!Never /\ Unlocking!Never \in 1 .. Unlocking!Never
                      /\ clock + SessionTtl > clock
  BY AccessAssumption DEF Unlocking!Never

LEMMA SessionsInit == ASSUME Unlocking!Init PROVE SessionTypes /\ SessionsEarned
  <1>1. <<>> \in Seq(Entered) /\ Len(<<>>) = 0 /\ EntriesOf(<<>>) = {}
    BY EmptySeq DEF EntriesOf
  <1>2. Limit \in Nat /\ LastTick \in Nat
    BY AccessAssumption
  <1>3. /\ sessions = <<>> /\ disk = [fingerprint |-> password, sessions |-> <<>>]
        /\ clock = 0 /\ password \in Passwords /\ revoked = {}
    BY DEF Unlocking!Init
  <1>4. disk \in [fingerprint : Passwords, sessions : Seq(Entered)]
    BY <1>1, <1>3
  <1> QED BY <1>1, <1>2, <1>3, <1>4 DEF SessionTypes, SessionsEarned

\* The new list is written, or what was on the disk stays and is known to be stale.
LEMMA PersistKeeps ==
  ASSUME SessionTypes, SessionsEarned, NEW list \in Seq(Entered), Len(list) <= Limit,
         Unlocking!Persist(list), sessions' = list, clock' = clock, password' = password,
         revoked' \subseteq DOMAIN issued',
         \A t \in DOMAIN issued : t \in DOMAIN issued' /\ issued'[t] = issued[t],
         \A e \in EntriesOf(list) : EarnedEntry(e, password)',
         \A e \in EntriesOf(list), d \in EntriesOf(list) \cup EntriesOf(disk.sessions) :
             e[1] = d[1] => e = d
  PROVE  SessionTypes' /\ SessionsEarned'
  <1>1. CASE disk' = [fingerprint |-> password, sessions |-> list] /\ UNCHANGED unsaved
    <2>1. disk'.fingerprint = password' /\ disk'.sessions = list
      BY <1>1
    <2>2. disk' \in [fingerprint : Passwords, sessions : Seq(Entered)]
      BY <1>1 DEF SessionTypes
    <2>3. SessionTypes'
      BY <2>1, <2>2 DEF SessionTypes, Entered, Unlocking!Never
    <2> QED BY <2>1, <2>3 DEF SessionsEarned
  <1>2. CASE unsaved' = TRUE /\ UNCHANGED disk
    <2>1. SessionTypes'
      BY <1>2 DEF SessionTypes, Entered, Unlocking!Never
    <2>2. \A e \in EntriesOf(disk'.sessions) : EarnedEntry(e, disk.fingerprint)'
      BY <1>2 DEF SessionsEarned, EarnedEntry
    <2>3. \A e, d \in EntriesOf(sessions') \cup EntriesOf(disk'.sessions) : e[1] = d[1] => e = d
      BY <1>2 DEF SessionsEarned
    <2> QED BY <1>2, <2>1, <2>2, <2>3 DEF SessionsEarned
  <1> QED BY <1>1, <1>2 DEF Unlocking!Persist

LEMMA UseKeeps ==
  ASSUME SessionTypes, SessionsEarned, Unlocking!Use PROVE SessionTypes' /\ SessionsEarned'
  <1>1. PICK list : list = Unlocking!Live(sessions)
    OBVIOUS
  <1>2. /\ list \in Seq(Entered) /\ Len(list) <= Len(sessions)
        /\ EntriesOf(list) \subseteq EntriesOf(sessions)
    BY <1>1, LiveTakes DEF SessionTypes
  <1>3. /\ sessions' = list /\ Unlocking!Persist(list) /\ clock' = clock /\ password' = password
        /\ issued' = issued /\ revoked' = revoked
    BY <1>1 DEF Unlocking!Use
  <1>4. Len(list) <= Limit
    BY <1>2, AccessAssumption, LenProperties DEF SessionTypes
  <1>5. unsaved => unsaved'
    BY <1>3 DEF Unlocking!Persist
  <1>6. \A e \in EntriesOf(list) : EarnedEntry(e, password)'
    BY <1>2, <1>3, <1>5 DEF SessionsEarned, EarnedEntry
  <1>7. \A e \in EntriesOf(list), d \in EntriesOf(list) \cup EntriesOf(disk.sessions) :
            e[1] = d[1] => e = d
    BY <1>2 DEF SessionsEarned
  <1>8. revoked' \subseteq DOMAIN issued'
    BY <1>3 DEF SessionTypes
  <1> QED BY <1>2, <1>3, <1>4, <1>6, <1>7, <1>8, PersistKeeps

LEMMA RevokeKeeps ==
  ASSUME SessionTypes, SessionsEarned, NEW t \in Tokens, Unlocking!Revoke(t)
  PROVE  SessionTypes' /\ SessionsEarned'
  <1>1. PICK list : list = Unlocking!Without(sessions, t)
    OBVIOUS
  <1>2. /\ list \in Seq(Entered) /\ Len(list) <= Len(sessions)
        /\ EntriesOf(list) \subseteq EntriesOf(sessions)
        /\ \A e \in EntriesOf(list) : e[1] # t
    BY <1>1, WithoutTakes DEF SessionTypes
  <1>3. /\ sessions' = list /\ Unlocking!Persist(list) /\ clock' = clock /\ password' = password
        /\ issued' = issued /\ revoked' = revoked \cup {t}
    BY <1>1 DEF Unlocking!Revoke, Unlocking!limiter
  <1>4. Len(list) <= Limit
    BY <1>2, AccessAssumption, LenProperties DEF SessionTypes
  <1>5. unsaved => unsaved'
    BY <1>3 DEF Unlocking!Persist
  <1>6. \A e \in EntriesOf(list) : EarnedEntry(e, password)'
    BY <1>2, <1>3, <1>5 DEF SessionsEarned, EarnedEntry
  <1>7. \A e \in EntriesOf(list), d \in EntriesOf(list) \cup EntriesOf(disk.sessions) :
            e[1] = d[1] => e = d
    BY <1>2 DEF SessionsEarned
  <1>8. t \in DOMAIN issued
    <2>1. PICK i \in 1 .. Len(sessions) : sessions[i][1] = t
      BY DEF Unlocking!Revoke
    <2>2. sessions[i] \in EntriesOf(sessions)
      BY DEF EntriesOf
    <2> QED BY <2>1, <2>2 DEF SessionsEarned, EarnedEntry
  <1>9. revoked' \subseteq DOMAIN issued'
    BY <1>3, <1>8 DEF SessionTypes
  <1> QED BY <1>2, <1>3, <1>4, <1>6, <1>7, <1>9, PersistKeeps

LEMMA UnlockKeeps ==
  ASSUME SessionTypes, SessionsEarned, NEW r \in Calls, NEW t \in Tokens,
         NEW until \in {clock + SessionTtl, Unlocking!Never}, Unlocking!Unlock(r, t, until)
  PROVE  SessionTypes' /\ SessionsEarned'
  <1>1. PICK live : live = Unlocking!Live(sessions)
    OBVIOUS
  <1>2. live \in Seq(Entered) /\ EntriesOf(live) \subseteq EntriesOf(sessions)
    BY <1>1, LiveTakes DEF SessionTypes
  <1>3. Limit - 1 \in Nat
    BY AccessAssumption
  <1>4. PICK left : left = Unlocking!KeptLast(live, Limit - 1)
    OBVIOUS
  <1>5. left \in Seq(Entered) /\ Len(left) <= Limit - 1 /\ EntriesOf(left) \subseteq EntriesOf(sessions)
    BY <1>2, <1>3, <1>4, KeptLastTakes
  <1>6. PICK entry \in Entered : entry = <<t, until>>
    BY Lasts DEF SessionTypes, Entered
  <1>7. PICK list : list = Append(left, entry)
    OBVIOUS
  <1>8. /\ list \in Seq(Entered) /\ Len(list) = Len(left) + 1 /\ Len(left) \in Nat
        /\ list[Len(left) + 1] = entry /\ \A i \in 1 .. Len(left) : list[i] = left[i]
    BY <1>5, <1>7, AppendProperties, LenProperties
  <1>9. EntriesOf(list) \subseteq EntriesOf(left) \cup {entry}
    <2>1. ASSUME NEW i \in 1 .. Len(list) PROVE list[i] \in EntriesOf(left) \cup {entry}
      <3>1. i \in 1 .. Len(left) \/ i = Len(left) + 1
        BY <1>8
      <3> QED BY <1>8, <3>1 DEF EntriesOf
    <2> QED BY <2>1 DEF EntriesOf
  <1>10. /\ sessions' = list /\ Unlocking!Persist(list) /\ clock' = clock /\ password' = password
         /\ t \notin DOMAIN issued /\ revoked' = revoked
         /\ issued' = [u \in DOMAIN issued \cup {t} |-> IF u = t THEN password ELSE issued[u]]
    BY <1>1, <1>4, <1>6, <1>7 DEF Unlocking!Unlock
  <1>11. Len(list) <= Limit
    BY <1>3, <1>5, <1>8, AccessAssumption
  <1>12. unsaved => unsaved'
    BY <1>10 DEF Unlocking!Persist
  <1>13. /\ DOMAIN issued' = DOMAIN issued \cup {t} /\ issued'[t] = password
         /\ \A u \in DOMAIN issued : u \in DOMAIN issued' /\ issued'[u] = issued[u]
    BY <1>10
  <1>14. entry[1] = t
    BY <1>6
  <1>15. t \notin revoked
    BY <1>10 DEF SessionTypes
  <1>16. \A e \in EntriesOf(sessions) \cup EntriesOf(disk.sessions) : e[1] \in DOMAIN issued
    BY DEF SessionsEarned, EarnedEntry
  <1>17. EarnedEntry(entry, password)'
    BY <1>10, <1>13, <1>14, <1>15 DEF EarnedEntry
  <1>18. \A e \in EntriesOf(sessions) : EarnedEntry(e, password)'
    BY <1>10, <1>12, <1>13 DEF SessionsEarned, EarnedEntry
  <1>19. \A e \in EntriesOf(list) : EarnedEntry(e, password)'
    BY <1>5, <1>9, <1>17, <1>18
  <1>20. \A e \in EntriesOf(sessions) \cup EntriesOf(disk.sessions) : e[1] # t
    BY <1>10, <1>16
  <1>21. \A e \in EntriesOf(list), d \in EntriesOf(list) \cup EntriesOf(disk.sessions) :
            e[1] = d[1] => e = d
    BY <1>5, <1>9, <1>14, <1>20 DEF SessionsEarned
  <1>22. revoked' \subseteq DOMAIN issued'
    BY <1>10, <1>13 DEF SessionTypes
  <1> QED BY <1>8, <1>10, <1>11, <1>13, <1>19, <1>21, <1>22, PersistKeeps

LEMMA RestartKeeps ==
  ASSUME SessionTypes, SessionsEarned, NEW p \in Passwords, Unlocking!Restart(p)
  PROVE  SessionTypes' /\ SessionsEarned'
  <1>1. PICK list : list = Unlocking!KeptLast(disk.sessions, Limit)
    OBVIOUS
  <1>2. disk.sessions \in Seq(Entered) /\ Limit \in Nat
    BY AccessAssumption DEF SessionTypes
  <1>3. list \in Seq(Entered) /\ Len(list) <= Limit /\ EntriesOf(list) \subseteq EntriesOf(disk.sessions)
    BY <1>1, <1>2, KeptLastTakes
  <1>4. <<>> \in Seq(Entered) /\ Len(<<>>) <= Limit /\ EntriesOf(<<>>) = {}
    BY <1>2, EmptySeq DEF EntriesOf
  <1>5. PICK none : none = <<>>
    OBVIOUS
  <1>6. /\ password' = p /\ UNCHANGED <<clock, disk, issued, revoked, unsaved>>
        /\ sessions' = IF disk.fingerprint = p THEN list ELSE none
    BY <1>1, <1>5 DEF Unlocking!Restart
  <1>7. SessionTypes'
    BY <1>3, <1>4, <1>5, <1>6 DEF SessionTypes, Entered, Unlocking!Never
  <1>8. EntriesOf(sessions') \subseteq EntriesOf(disk.sessions)
    BY <1>3, <1>4, <1>5, <1>6
  <1>9. \A e \in EntriesOf(disk.sessions) : EarnedEntry(e, disk.fingerprint)'
    BY <1>6 DEF SessionsEarned, EarnedEntry
  <1>10. \A e \in EntriesOf(sessions') : EarnedEntry(e, password)'
    BY <1>4, <1>5, <1>6, <1>8, <1>9
  <1>11. disk' = disk
    BY <1>6
  <1>12. \A e, d \in EntriesOf(sessions') \cup EntriesOf(disk'.sessions) : e[1] = d[1] => e = d
    BY <1>8, <1>11 DEF SessionsEarned
  <1> QED BY <1>7, <1>9, <1>10, <1>11, <1>12 DEF SessionsEarned

LEMMA TickEarns ==
  ASSUME SessionTypes, SessionsEarned, Unlocking!Tick PROVE SessionTypes' /\ SessionsEarned'
  <1> DEFINE past == {t \in DOMAIN issued : \E i \in 1 .. Len(sessions) : sessions[i] = <<t, clock + 1>>}
  <1>1. /\ clock < LastTick /\ clock' = clock + 1 /\ revoked' = revoked \cup past
        /\ UNCHANGED <<password, sessions, disk, issued, unsaved>>
    BY DEF Unlocking!Tick
  <1>2. clock' \in 0 .. LastTick
    BY <1>1, AccessAssumption DEF SessionTypes
  <1>3. past \subseteq DOMAIN issued
    OBVIOUS
  <1>4. ASSUME NEW e \in EntriesOf(sessions) \cup EntriesOf(disk.sessions), e[1] \in past
        PROVE  e[2] <= clock'
    <2>1. PICK i \in 1 .. Len(sessions) : sessions[i] = <<e[1], clock + 1>>
      BY <1>4
    <2>2. sessions[i] \in EntriesOf(sessions) /\ sessions[i][1] = e[1] /\ sessions[i][2] = clock + 1
      BY <2>1 DEF EntriesOf
    <2>3. sessions[i] = e
      BY <2>2 DEF SessionsEarned
    <2>4. e[2] = clock'
      BY <1>1, <2>2, <2>3
    <2> QED BY <1>2, <2>4
  <1> HIDE DEF past
  <1>5. SessionTypes'
    BY <1>1, <1>2, <1>3 DEF SessionTypes, Entered, Unlocking!Never
  <1>6. ASSUME NEW under, NEW e \in EntriesOf(sessions) \cup EntriesOf(disk.sessions), EarnedEntry(e, under)
        PROVE  e[1] \in DOMAIN issued' /\ issued'[e[1]] = under /\ (e[1] \in revoked' => unsaved' \/ e[2] <= clock')
    <2>1. e[2] \in Nat /\ clock \in Nat
      BY EntriesAreEntered, AccessAssumption DEF SessionTypes, Unlocking!Never
    <2> QED BY <1>1, <1>4, <1>6, <2>1 DEF EarnedEntry
  <1>7. \A e \in EntriesOf(sessions) : EarnedEntry(e, password)'
    BY <1>1, <1>6 DEF SessionsEarned, EarnedEntry
  <1>8. \A e \in EntriesOf(disk.sessions) : EarnedEntry(e, disk.fingerprint)'
    BY <1>1, <1>6 DEF SessionsEarned, EarnedEntry
  <1> QED BY <1>1, <1>5, <1>7, <1>8 DEF SessionsEarned

LEMMA SessionsStep ==
  ASSUME SessionTypes, SessionsEarned, [Unlocking!Next]_(Unlocking!vars)
  PROVE  SessionTypes' /\ SessionsEarned'
  <1>1. ASSUME UNCHANGED <<clock, password, sessions, disk, issued, revoked, unsaved>>
        PROVE  SessionTypes' /\ SessionsEarned'
    BY <1>1 DEF SessionTypes, Entered, Unlocking!Never, SessionsEarned, EarnedEntry
  <1>2. ASSUME NEW r \in Calls, Unlocking!Begin(r) \/ Unlocking!Miss(r) \/ Unlocking!Succeed(r)
        PROVE  SessionTypes' /\ SessionsEarned'
    BY <1>1, <1>2 DEF Unlocking!Begin, Unlocking!Miss, Unlocking!Succeed, Unlocking!kept
  <1>3. ASSUME NEW r \in Calls, NEW t \in Tokens, NEW until \in {clock + SessionTtl, Unlocking!Never},
               Unlocking!Unlock(r, t, until)
        PROVE  SessionTypes' /\ SessionsEarned'
    BY <1>3, UnlockKeeps
  <1>4. CASE Unlocking!Use
    BY <1>4, UseKeeps
  <1>5. ASSUME NEW t \in Tokens, Unlocking!Revoke(t) PROVE SessionTypes' /\ SessionsEarned'
    BY <1>5, RevokeKeeps
  <1>6. ASSUME NEW p \in Passwords, Unlocking!Restart(p) PROVE SessionTypes' /\ SessionsEarned'
    BY <1>6, RestartKeeps
  <1>7. CASE Unlocking!Tick
    BY <1>7, TickEarns
  <1>8. CASE UNCHANGED Unlocking!vars
    BY <1>1, <1>8 DEF Unlocking!vars
  <1> QED BY <1>2, <1>3, <1>4, <1>5, <1>6, <1>7, <1>8 DEF Unlocking!Next

LEMMA OpensWhenEarned == ASSUME SessionTypes, SessionsEarned PROVE Unlocking!SessionsAreEarned
  <1>1. PICK live : live = Unlocking!Live(sessions)
    OBVIOUS
  <1>2. /\ EntriesOf(live) \subseteq EntriesOf(sessions) /\ \A e \in EntriesOf(live) : e[2] > clock
    BY <1>1, LiveTakes DEF SessionTypes
  <1>3. ASSUME NEW t \in Tokens, Unlocking!Valid(t)
        PROVE  t \in DOMAIN issued /\ issued[t] = password /\ (t \notin revoked \/ unsaved)
    <2>1. PICK i \in 1 .. Len(live) : live[i][1] = t
      BY <1>1, <1>3 DEF Unlocking!Valid
    <2>2. PICK e \in EntriesOf(live) : e[1] = t
      BY <2>1 DEF EntriesOf
    <2>3. e \in EntriesOf(sessions) /\ e[2] > clock
      BY <1>2, <2>2
    <2>4. e[2] \in Nat /\ clock \in Nat
      BY <2>3, EntriesAreEntered, AccessAssumption DEF SessionTypes, Unlocking!Never
    <2>5. ~ (e[2] <= clock)
      BY <2>3, <2>4
    <2> QED BY <2>2, <2>3, <2>5 DEF SessionsEarned, EarnedEntry
  <1> QED BY <1>3 DEF Unlocking!SessionsAreEarned

LEMMA AccessTyped == ASSUME LimiterTypes, SessionTypes PROVE Unlocking!TypeOK
  <1>1. ASSUME NEW i \in 1 .. Len(sessions) PROVE sessions[i] \in Tokens \X (1 .. Unlocking!Never)
    BY ElementOfSeq DEF SessionTypes, Entered
  <1> QED BY <1>1 DEF LimiterTypes, SessionTypes, Unlocking!TypeOK

\* Wrong passwords keep to the pace of the locks, however many attempts overlap, and a
\* session that opens the settings was issued under this password and has not been taken
\* back (remote-api.js:38-66, server.js:501-509, settings-sessions.js:32-80).
THEOREM UnlocksAreEarned == Spec => []UnlockIsEarned
  <1>1. Init => (part = "access" => AccessIInv)
    BY LimiterInit, SessionsInit DEF Init, AccessIInv
  <1>2. (part = "access" => AccessIInv) /\ [Next]_parts => (part = "access" => AccessIInv)'
    <2> SUFFICES ASSUME part = "access" => AccessIInv, [Next]_parts, part' = "access" PROVE AccessIInv'
      OBVIOUS
    <2>1. part = "access" /\ AccessIInv
      BY PartStays
    <2> QED BY <2>1, AccessMoves, LimiterStep, SessionsStep DEF AccessIInv
  <1>3. (part = "access" => AccessIInv) => UnlockIsEarned
    BY KeepsPace, OpensWhenEarned, AccessTyped DEF AccessIInv, UnlockIsEarned, Unlocking!UnlockIsEarned
  <1> QED BY <1>1, <1>2, <1>3, PTL DEF Spec, parts

-----------------------------------------------------------------------------
(* An agent's output.                                                      *)

LEMMA AgentMoves ==
  ASSUME [Next]_parts, part = "agent" PROVE [Agent!Next]_(Agent!vars)
  BY DEF Next, parts, agent, Agent!vars

EventKinds == {"system", "assistant_text", "tool_use", "result", "other", "raw_unparseable"}

Events == [kind : EventKinds, line : 0 .. MaxLines]

\* The tokens of what the agent writes, counted from 1: a line is three of them.
Token(j) == IF j % 3 = 0 THEN Agent!Newline ELSE Agent!Half(j \div 3 + 1, j % 3)

Written == 3 * Len(said) - (IF open = "none" THEN 0 ELSE IF open = "whole" THEN 1 ELSE 2)

\* What is held back of the line that is not complete after c tokens.
Held(c) == IF c % 3 = 0 THEN <<>> ELSE IF c % 3 = 1 THEN <<Token(c)>> ELSE <<Token(c - 1), Token(c)>>

SaidBy(n) == Agent!Normalized(said[n], n, Agent!LastMessage(n))

\* The events of the first lines, for every number of lines.
Tells(up) ==
    /\ up \in [0 .. Len(said) -> Seq(Events)] /\ up[0] = <<>>
    /\ \A n \in 1 .. Len(said) : up[n] = up[n - 1] \o SaidBy(n)

\* What the events of the first k lines come to, and what is held back.
Known(up, k, held) ==
    [buffer |-> held, events |-> up[k],
     result |-> Agent!LastOf(up[k], "result", 0), text |-> Agent!LastOf(up[k], "assistant_text", 0),
     outcome |-> Agent!LastOf(up[k], "tool_use", 0),
     final |-> IF provider = "codex" THEN Agent!LastMessage(k + 1) ELSE 0,
     model |-> model]

\* What is known after c tokens have been read, however they were cut.
After(up, c) == Known(up, c \div 3, Held(c))

AgentTypes ==
    /\ provider \in {"claude", "codex"} /\ open \in {"none", "half", "whole"}
    /\ said \in Seq(Agent!LineKinds) /\ Len(said) \in 0 .. MaxLines
    /\ open # "none" => Len(said) >= 1
    /\ child \in {"alive", "ok", "bad", "closed", "none"}
    /\ settled \in {"no", "resolved", "rejected", "not started"} /\ reason \in 0 .. MaxLines

\* The pipe holds what was written and not yet read.
Unread(c) == c \in 0 .. Written /\ pipe = [i \in 1 .. Written - c |-> Token(c + i)]

Follows == \E up, c : Tells(up) /\ Unread(c) /\ Agent!Heard = After(up, c)

\* The events of all lines, the last one as it is when nothing follows.
Sums(all) ==
    /\ all \in [0 .. Len(said) -> Seq(Events)] /\ all[0] = <<>>
    /\ \A n \in 1 .. Len(said) : all[n] = all[n - 1] \o Agent!Meant(n)

\* All has been passed on, and what is remembered is the last of it.
Summed(whole) ==
    /\ \E extra \in {<<>>, <<Agent!At("system", 0)>>} : events = whole \o extra
    /\ lastResult = Agent!LastOf(whole, "result", 0)
    /\ lastText = Agent!LastOf(whole, "assistant_text", 0)
    /\ outcome = Agent!LastOf(whole, "tool_use", 0)
    /\ settled = "rejected" => reason = IF lastResult # 0 THEN lastResult ELSE lastText

Over ==
    /\ pipe = <<>> /\ final \in 0 .. MaxLines /\ settled \in {"resolved", "rejected"}
    /\ \E all : Sums(all) /\ Summed(all[Len(said)])

AgentIInv ==
    /\ AgentTypes
    /\ child = "alive" => agentPid
    /\ child # "closed" => Follows /\ settled \in {"no", "not started"}
    /\ child = "closed" => Over

-----------------------------------------------------------------------------
(* The last event of a kind.                                               *)

\* The greatest of some numbers up to n.
LEMMA GreatestIsThere ==
  ASSUME NEW n \in Nat, NEW some \in SUBSET (1 .. n), some # {}
  PROVE  Agent!Max(some) \in some /\ \A y \in some : y <= Agent!Max(some)
  <1> DEFINE H == {k \in 0 .. n : \A T \in SUBSET (1 .. k) : T # {} => \E x \in T : \A y \in T : y <= x}
  <1>1. 0 \in H
    <2>1. 1 .. 0 = {} /\ 0 \in 0 .. n
      OBVIOUS
    <2> QED BY <2>1
  <1>2. ASSUME NEW k \in 1 .. n, k - 1 \in H PROVE k \in H
    <2>1. ASSUME NEW T \in SUBSET (1 .. k), T # {} PROVE \E x \in T : \A y \in T : y <= x
      <3>1. CASE k \in T
        BY <3>1
      <3>2. CASE k \notin T
        <4>1. T \subseteq 1 .. k - 1
          BY <3>2
        <4> QED BY <1>2, <2>1, <4>1
      <3> QED BY <3>1, <3>2
    <2>2. k \in 0 .. n
      OBVIOUS
    <2> QED BY <2>1, <2>2
  <1>3. n \in H
    <2> HIDE DEF H
    <2>1. 0 .. n \subseteq H
      BY <1>1, <1>2, UpTo
    <2> QED BY <2>1
  <1>4. \E x \in some : \A y \in some : y <= x
    BY <1>3
  <1>5. \E x \in some : \A y \in some : x >= y
    BY <1>4
  <1>6. Agent!Max(some) \in some /\ \A y \in some : Agent!Max(some) >= y
    BY <1>5 DEF Agent!Max
  <1> QED BY <1>6

\* The event of a kind after which there is none of it.
IsLast(list, kind, i) ==
    /\ i \in 1 .. Len(list) /\ list[i].kind = kind
    /\ \A j \in 1 .. Len(list) : list[j].kind = kind => j <= i

None(list, kind) == \A i \in 1 .. Len(list) : list[i].kind # kind

LEMMA LastOfNone ==
  ASSUME NEW list, NEW kind, NEW else, None(list, kind) PROVE Agent!LastOf(list, kind, else) = else
  BY DEF Agent!LastOf, None

LEMMA HasLast ==
  ASSUME NEW list \in Seq(Events), NEW kind, ~None(list, kind)
  PROVE  \E i : IsLast(list, kind, i)
  <1> DEFINE of == {i \in 1 .. Len(list) : list[i].kind = kind}
  <1>1. Len(list) \in Nat /\ of \subseteq 1 .. Len(list) /\ of # {}
    BY LenProperties DEF None
  <1>2. PICK m \in of : \A y \in of : y <= m
    <2> HIDE DEF of
    <2> QED BY <1>1, GreatestIsThere
  <1>3. IsLast(list, kind, m)
    BY <1>2 DEF IsLast
  <1> QED BY <1>3

LEMMA LastOfLast ==
  ASSUME NEW list \in Seq(Events), NEW kind, NEW else, NEW i, IsLast(list, kind, i)
  PROVE  Agent!LastOf(list, kind, else) = list[i].line
  <1> DEFINE of == {k \in 1 .. Len(list) : list[k].kind = kind}
  <1>1. Len(list) \in Nat /\ of \subseteq 1 .. Len(list)
    BY LenProperties
  <1>2. i \in of /\ \A j \in of : j <= i
    BY DEF IsLast
  <1>3. Agent!LastOf(list, kind, else) = IF of = {} THEN else ELSE list[Agent!Max(of)].line
    BY DEF Agent!LastOf
  <1> HIDE DEF of
  <1>4. Agent!Max(of) \in of /\ \A y \in of : y <= Agent!Max(of)
    BY <1>1, <1>2, GreatestIsThere
  <1>5. Agent!Max(of) = i
    <2>1. PICK m : m = Agent!Max(of)
      OBVIOUS
    <2>2. PICK l \in Nat : l = Len(list)
      BY <1>1
    <2>3. m \in 1 .. l /\ i \in 1 .. l
      BY <1>1, <1>2, <1>4, <2>1, <2>2
    <2>4. m <= i /\ i <= m
      BY <1>2, <1>4, <2>1
    <2> QED BY <2>1, <2>3, <2>4
  <1> QED BY <1>2, <1>3, <1>5

LEMMA LastOfTypes ==
  ASSUME NEW list \in Seq(Events), NEW kind PROVE Agent!LastOf(list, kind, 0) \in 0 .. MaxLines
  <1>1. MaxLines \in Nat
    BY AgentAssumption
  <1>2. CASE None(list, kind)
    BY <1>1, <1>2, LastOfNone
  <1>3. CASE ~None(list, kind)
    <2>1. PICK i : IsLast(list, kind, i)
      BY <1>3, HasLast
    <2>2. list[i] \in Events
      BY <2>1, ElementOfSeq DEF IsLast
    <2>3. Agent!LastOf(list, kind, 0) = list[i].line
      BY <2>1, LastOfLast
    <2> QED BY <2>2, <2>3 DEF Events
  <1> QED BY <1>2, <1>3

\* What comes after decides, if it is of the kind.
LEMMA LastOfTwo ==
  ASSUME NEW s \in Seq(Events), NEW t \in Seq(Events), NEW kind, NEW else
  PROVE  Agent!LastOf(s \o t, kind, else) = Agent!LastOf(t, kind, Agent!LastOf(s, kind, else))
  <1>1. PICK a \in Nat, b \in Nat : a = Len(s) /\ b = Len(t)
    BY LenProperties
  <1>2. PICK u \in Seq(Events) : u = s \o t
    BY ConcatProperties
  <1>3. /\ Len(u) = a + b
        /\ \A i \in 1 .. a : u[i] = s[i]
        /\ \A i \in 1 .. b : u[a + i] = t[i]
    BY <1>1, <1>2, ConcatProperties
  <1>4. ASSUME NEW i \in 1 .. a + b
        PROVE  i \in 1 .. a \/ (i - a \in 1 .. b /\ u[i] = t[i - a])
    <2>1. ASSUME i \notin 1 .. a PROVE i - a \in 1 .. b /\ i = a + (i - a)
      BY <2>1
    <2> QED BY <1>3, <2>1
  <1>5. \A i \in 1 .. b : a + i \in 1 .. a + b
    OBVIOUS
  <1>6. CASE ~None(t, kind)
    <2>1. PICK m : IsLast(t, kind, m)
      BY <1>6, HasLast
    <2>2. m \in 1 .. b /\ t[m].kind = kind /\ \A j \in 1 .. b : t[j].kind = kind => j <= m
      BY <1>1, <2>1 DEF IsLast
    <2>3. ASSUME NEW j \in 1 .. a + b, u[j].kind = kind PROVE j <= a + m
      <3>1. CASE j \in 1 .. a
        BY <2>2, <3>1
      <3>2. CASE j - a \in 1 .. b /\ u[j] = t[j - a]
        <4>1. j - a <= m
          BY <2>2, <2>3, <3>2
        <4> QED BY <2>2, <4>1
      <3> QED BY <1>4, <3>1, <3>2
    <2>4. u[a + m] = t[m] /\ a + m \in 1 .. a + b
      BY <1>3, <1>5, <2>2
    <2>5. IsLast(u, kind, a + m)
      BY <1>3, <2>2, <2>3, <2>4 DEF IsLast
    <2>6. Agent!LastOf(u, kind, else) = t[m].line
      BY <2>4, <2>5, LastOfLast
    <2>7. Agent!LastOf(t, kind, Agent!LastOf(s, kind, else)) = t[m].line
      BY <2>1, LastOfLast
    <2> QED BY <1>2, <2>6, <2>7
  <1>7. CASE None(t, kind)
    <2>1. Agent!LastOf(t, kind, Agent!LastOf(s, kind, else)) = Agent!LastOf(s, kind, else)
      BY <1>7, LastOfNone
    <2>2. \A j \in 1 .. a + b : u[j].kind = kind => j \in 1 .. a
      BY <1>1, <1>4, <1>7 DEF None
    <2>3. CASE None(s, kind)
      <3>1. None(u, kind)
        BY <1>1, <1>3, <2>2, <2>3 DEF None
      <3>2. Agent!LastOf(u, kind, else) = else
        BY <3>1, LastOfNone
      <3>3. Agent!LastOf(s, kind, else) = else
        BY <2>3, LastOfNone
      <3> QED BY <1>2, <2>1, <3>2, <3>3
    <2>4. CASE ~None(s, kind)
      <3>1. PICK m : IsLast(s, kind, m)
        BY <2>4, HasLast
      <3>2. m \in 1 .. a /\ s[m].kind = kind /\ \A j \in 1 .. a : s[j].kind = kind => j <= m
        BY <1>1, <3>1 DEF IsLast
      <3>3. ASSUME NEW j \in 1 .. a + b, u[j].kind = kind PROVE j <= m
        BY <1>3, <2>2, <3>2, <3>3
      <3>4. m \in 1 .. a + b /\ u[m] = s[m]
        BY <1>3, <3>2
      <3>5. IsLast(u, kind, m)
        BY <1>3, <3>2, <3>3, <3>4 DEF IsLast
      <3>6. Agent!LastOf(u, kind, else) = s[m].line
        BY <3>4, <3>5, LastOfLast
      <3>7. Agent!LastOf(s, kind, else) = s[m].line
        BY <3>1, LastOfLast
      <3> QED BY <1>2, <2>1, <3>6, <3>7
    <2> QED BY <2>3, <2>4
  <1> QED BY <1>6, <1>7

LEMMA LastOfOne ==
  ASSUME NEW e \in Events, NEW kind, NEW else, e.kind # kind
  PROVE  Agent!LastOf(<<e>>, kind, else) = else
  <1>1. ASSUME NEW i \in 1 .. Len(<<e>>) PROVE <<e>>[i] = e
    <2>1. i = 1
      OBVIOUS
    <2> QED BY <2>1
  <1>2. None(<<e>>, kind)
    BY <1>1 DEF None
  <1> QED BY <1>2, LastOfNone

-----------------------------------------------------------------------------
(* One line.                                                               *)

LEMMA OneOrTwo ==
  ASSUME NEW e \in Events, NEW d \in Events
  PROVE  <<>> \in Seq(Events) /\ <<e>> \in Seq(Events) /\ <<e, d>> \in Seq(Events)
  OBVIOUS

LEMMA NormalTypes ==
  ASSUME AgentTypes, NEW kind \in Agent!LineKinds, NEW n \in 0 .. MaxLines, NEW m \in 0 .. MaxLines
  PROVE  Agent!Normalized(kind, n, m) \in Seq(Events)
  <1>1. ASSUME NEW k \in EventKinds, NEW l \in 0 .. MaxLines PROVE Agent!At(k, l) \in Events
    BY <1>1 DEF Agent!At, Events
  <1>2. /\ Agent!At("system", n) \in Events /\ Agent!At("assistant_text", n) \in Events
        /\ Agent!At("tool_use", n) \in Events /\ Agent!At("result", n) \in Events
        /\ Agent!At("result", m) \in Events /\ Agent!At("other", n) \in Events
    BY <1>1 DEF EventKinds
  <1>3. provider \in {"claude", "codex"}
    BY DEF AgentTypes
  <1>4. kind \in {"init", "say", "post", "result", "failed", "silent", "unknown"}
    BY DEF Agent!LineKinds
  <1>5. CASE kind = "post"
    <2>1. provider = "claude" => Agent!Normalized(kind, n, m) = <<Agent!At("assistant_text", n), Agent!At("tool_use", n)>>
      BY <1>5 DEF Agent!Normalized
    <2>2. provider = "codex" => Agent!Normalized(kind, n, m) = <<Agent!At("tool_use", n)>>
      BY <1>5 DEF Agent!Normalized
    <2> QED BY <1>2, <1>3, <2>1, <2>2, OneOrTwo
  <1>6. CASE kind = "result"
    <2>1. Agent!Normalized(kind, n, m) = <<Agent!At("result", IF provider = "codex" THEN m ELSE n)>>
      BY <1>6 DEF Agent!Normalized
    <2> QED BY <1>2, <2>1, OneOrTwo
  <1>7. CASE kind = "init"
    <2>1. Agent!Normalized(kind, n, m) = <<Agent!At("system", n)>>
      BY <1>7 DEF Agent!Normalized
    <2> QED BY <1>2, <2>1, OneOrTwo
  <1>8. CASE kind = "say"
    <2>1. Agent!Normalized(kind, n, m) = <<Agent!At("assistant_text", n)>>
      BY <1>8 DEF Agent!Normalized
    <2> QED BY <1>2, <2>1, OneOrTwo
  <1>9. CASE kind = "failed"
    <2>1. Agent!Normalized(kind, n, m) = <<Agent!At("result", n)>>
      BY <1>9 DEF Agent!Normalized
    <2> QED BY <1>2, <2>1, OneOrTwo
  <1>10. CASE kind = "silent"
    <2>1. Agent!Normalized(kind, n, m) = <<>>
      BY <1>10 DEF Agent!Normalized
    <2> QED BY <2>1, EmptySeq
  <1>11. CASE kind = "unknown"
    <2>1. Agent!Normalized(kind, n, m) = <<Agent!At("other", n)>>
      BY <1>11 DEF Agent!Normalized
    <2> QED BY <1>2, <2>1, OneOrTwo
  <1> QED BY <1>4, <1>5, <1>6, <1>7, <1>8, <1>9, <1>10, <1>11

\* Only codex has its result from the last message.
LEMMA ClaudeNeedsNoMessage ==
  ASSUME provider # "codex", NEW kind, NEW n, NEW a, NEW b
  PROVE  Agent!Normalized(kind, n, a) = Agent!Normalized(kind, n, b)
  BY DEF Agent!Normalized

LEMMA MessageTypes ==
  ASSUME AgentTypes, NEW n \in 1 .. Len(said) + 1
  PROVE  Agent!LastMessage(n) \in 0 .. n - 1 /\ Agent!LastMessage(n) \in 0 .. MaxLines
  <1>1. n \in Nat /\ n - 1 \in Nat /\ n - 1 <= MaxLines /\ MaxLines \in Nat
    <2>1. PICK l \in 0 .. MaxLines : l = Len(said)
      BY DEF AgentTypes
    <2> QED BY <2>1, AgentAssumption
  <1>2. Agent!MessagesBefore(n) \subseteq 1 .. n - 1
    BY DEF Agent!MessagesBefore
  <1>3. CASE Agent!MessagesBefore(n) = {}
    BY <1>1, <1>3 DEF Agent!LastMessage
  <1>4. CASE Agent!MessagesBefore(n) # {}
    <2>1. Agent!Max(Agent!MessagesBefore(n)) \in 1 .. n - 1
      BY <1>1, <1>2, <1>4, GreatestIsThere
    <2> QED BY <1>1, <1>4, <2>1 DEF Agent!LastMessage
  <1> QED BY <1>3, <1>4

LEMMA NextMessage ==
  ASSUME AgentTypes, NEW n \in 1 .. Len(said)
  PROVE  Agent!LastMessage(n + 1) = IF Agent!IsMessage(said[n]) THEN n ELSE Agent!LastMessage(n)
  <1>1. n \in Nat /\ n >= 1
    <2>1. PICK l \in Nat : l = Len(said)
      BY LenProperties DEF AgentTypes
    <2> QED BY <2>1
  <1>2. CASE Agent!IsMessage(said[n])
    <2>1. n \in Agent!MessagesBefore(n + 1) /\ Agent!MessagesBefore(n + 1) \subseteq 1 .. n
      BY <1>1, <1>2 DEF Agent!MessagesBefore
    <2>2. PICK m : m = Agent!Max(Agent!MessagesBefore(n + 1))
      OBVIOUS
    <2>3. m \in 1 .. n /\ n <= m
      BY <1>1, <2>1, <2>2, GreatestIsThere
    <2>4. m = n
      BY <1>1, <2>3
    <2> QED BY <1>2, <2>1, <2>2, <2>4 DEF Agent!LastMessage
  <1>3. CASE ~Agent!IsMessage(said[n])
    <2>1. \A m \in 1 .. n : m \in 1 .. n - 1 \/ m = n
      BY <1>1
    <2>2. Agent!MessagesBefore(n + 1) = Agent!MessagesBefore(n)
      BY <1>1, <1>3, <2>1 DEF Agent!MessagesBefore
    <2> QED BY <1>3, <2>2 DEF Agent!LastMessage
  <1> QED BY <1>2, <1>3

LEMMA SaidTypes ==
  ASSUME AgentTypes, NEW n \in 1 .. Len(said)
  PROVE  said[n] \in Agent!LineKinds /\ n \in 1 .. MaxLines /\ SaidBy(n) \in Seq(Events)
  <1>1. said[n] \in Agent!LineKinds
    BY ElementOfSeq DEF AgentTypes
  <1>2. n \in 0 .. MaxLines /\ n \in 1 .. MaxLines /\ n \in 1 .. Len(said) + 1
    <2>1. PICK l \in 0 .. MaxLines : l = Len(said)
      BY DEF AgentTypes
    <2> QED BY <2>1, AgentAssumption
  <1>3. SaidBy(n) \in Seq(Events)
    BY <1>1, <1>2, MessageTypes, NormalTypes DEF SaidBy
  <1> QED BY <1>1, <1>2, <1>3

\* The tokens of line n, and what they leave.
LEMMA TokensOfLine ==
  ASSUME NEW n \in Nat \ {0}
  PROVE  /\ Token(3 * n - 2) = Agent!Half(n, 1) /\ Token(3 * n - 1) = Agent!Half(n, 2)
         /\ Token(3 * n) = Agent!Newline
         /\ Held(3 * n - 3) = <<>> /\ Held(3 * n - 2) = <<Agent!Half(n, 1)>>
         /\ Held(3 * n - 1) = <<Agent!Half(n, 1), Agent!Half(n, 2)>> /\ Held(3 * n) = <<>>
         /\ (3 * n - 3) \div 3 = n - 1 /\ (3 * n - 2) \div 3 = n - 1 /\ (3 * n - 1) \div 3 = n - 1
         /\ (3 * n) \div 3 = n
  <1>1. /\ (3 * n - 3) \div 3 = n - 1 /\ (3 * n - 2) \div 3 = n - 1 /\ (3 * n - 1) \div 3 = n - 1
        /\ (3 * n) \div 3 = n
    OBVIOUS
  <1>2. /\ (3 * n - 3) % 3 = 0 /\ (3 * n - 2) % 3 = 1 /\ (3 * n - 1) % 3 = 2 /\ (3 * n) % 3 = 0
    OBVIOUS
  <1>3. (n - 1) + 1 = n /\ (3 * n - 1) - 1 = 3 * n - 2
    OBVIOUS
  <1>4. /\ Token(3 * n - 2) = Agent!Half(n, 1) /\ Token(3 * n - 1) = Agent!Half(n, 2)
        /\ Token(3 * n) = Agent!Newline
    BY <1>1, <1>2, <1>3 DEF Token
  <1> QED BY <1>1, <1>2, <1>3, <1>4 DEF Held

LEMMA CompleteLine ==
  ASSUME NEW n PROVE Agent!Complete(<<Agent!Half(n, 1), Agent!Half(n, 2)>>)
  BY DEF Agent!Complete, Agent!Half

LEMMA Emptied ==
  ASSUME NEW b, NEW e, NEW r, NEW x, NEW o, NEW f, NEW m, NEW y,
         NEW s, s = [buffer |-> b, events |-> e, result |-> r, text |-> x, outcome |-> o, final |-> f, model |-> m]
  PROVE  [s EXCEPT !.buffer = y] =
            [buffer |-> y, events |-> e, result |-> r, text |-> x, outcome |-> o, final |-> f, model |-> m]
  OBVIOUS

LEMMA HandlesLine ==
  ASSUME AgentTypes, NEW up, Tells(up), NEW n \in 1 .. Len(said)
  PROVE  LET s == After(up, 3 * n - 1)
         IN  /\ s.buffer = Held(3 * n - 1)
             /\ [Agent!HandleLine(s, Held(3 * n - 1)) EXCEPT !.buffer = <<>>] = After(up, 3 * n)
  <1>1. n \in Nat \ {0} /\ n - 1 \in 0 .. Len(said) /\ n \in 0 .. Len(said)
    <2>1. PICK l \in Nat : l = Len(said)
      BY LenProperties DEF AgentTypes
    <2> QED BY <2>1
  <1>2. PICK e \in Seq(Events) : e = up[n - 1]
    BY <1>1 DEF Tells
  <1>3. PICK t \in Seq(Events) : t = SaidBy(n)
    BY SaidTypes
  <1>4. up[n] = e \o t
    BY <1>2, <1>3 DEF Tells
  <1>5. PICK r, x, o, f, h : /\ r = Agent!LastOf(e, "result", 0) /\ x = Agent!LastOf(e, "assistant_text", 0)
                             /\ o = Agent!LastOf(e, "tool_use", 0) /\ h = Held(3 * n - 1)
                             /\ f = IF provider = "codex" THEN Agent!LastMessage(n) ELSE 0
    OBVIOUS
  <1>6. h = <<Agent!Half(n, 1), Agent!Half(n, 2)>>
    BY <1>1, <1>5, TokensOfLine
  <1>7. PICK s : s = After(up, 3 * n - 1)
    OBVIOUS
  <1>8. (3 * n - 1) \div 3 = n - 1 /\ (n - 1) + 1 = n /\ (3 * n) \div 3 = n /\ Held(3 * n) = <<>>
    BY <1>1, TokensOfLine
  <1>9. s = [buffer |-> h, events |-> e, result |-> r, text |-> x, outcome |-> o, final |-> f, model |-> model]
    BY <1>2, <1>5, <1>7, <1>8 DEF After, Known
  <1>10. s.final = f /\ s.buffer = h
    BY <1>9
  <1>11. Agent!Normalized(said[n], n, f) = t
    <2>1. CASE provider = "codex"
      BY <1>3, <1>5, <2>1 DEF SaidBy
    <2>2. CASE provider # "codex"
      BY <1>3, <2>2, ClaudeNeedsNoMessage DEF SaidBy
    <2> QED BY <2>1, <2>2
  <1>12. PICK r1, x1, o1, f1 :
            /\ r1 = Agent!LastOf(t, "result", r) /\ x1 = Agent!LastOf(t, "assistant_text", x)
            /\ o1 = Agent!LastOf(t, "tool_use", o)
            /\ f1 = IF provider = "codex" /\ Agent!IsMessage(said[n]) THEN n ELSE f
    OBVIOUS
  <1>13. h # <<>> /\ h[1].line = n /\ Agent!Complete(h)
    BY <1>6, CompleteLine DEF Agent!Half
  <1>14. PICK told : told = Agent!Listened(s, t)
    OBVIOUS
  <1>15. told = [buffer |-> h, events |-> e \o t, result |-> r1, text |-> x1, outcome |-> o1, final |-> f,
                  model |-> model]
    BY <1>9, <1>12, <1>14 DEF Agent!Listened
  <1>16. Agent!HandleLine(s, h) =
            IF provider = "codex" /\ Agent!IsMessage(said[n]) THEN [told EXCEPT !.final = n] ELSE told
    BY <1>10, <1>11, <1>13, <1>14 DEF Agent!HandleLine
  <1>17. [Agent!HandleLine(s, h) EXCEPT !.buffer = <<>>] =
            [buffer |-> <<>>, events |-> e \o t, result |-> r1, text |-> x1, outcome |-> o1, final |-> f1,
             model |-> model]
    <2>1. PICK last : last = Agent!HandleLine(s, h)
      OBVIOUS
    <2>2. last = [buffer |-> h, events |-> e \o t, result |-> r1, text |-> x1, outcome |-> o1, final |-> f1,
                  model |-> model]
      <3>1. CASE provider = "codex" /\ Agent!IsMessage(said[n])
        <4>1. last = [told EXCEPT !.final = n] /\ f1 = n
          BY <1>12, <1>16, <2>1, <3>1
        <4> QED BY <1>15, <4>1
      <3>2. CASE ~ (provider = "codex" /\ Agent!IsMessage(said[n]))
        <4>1. last = told /\ f1 = f
          BY <1>12, <1>16, <2>1, <3>2
        <4> QED BY <1>15, <4>1
      <3> QED BY <3>1, <3>2
    <2>3. [last EXCEPT !.buffer = <<>>] =
             [buffer |-> <<>>, events |-> e \o t, result |-> r1, text |-> x1, outcome |-> o1, final |-> f1,
              model |-> model]
      <3>1. PICK w, y : w = e \o t /\ y = <<>>
        OBVIOUS
      <3>2. last = [buffer |-> h, events |-> w, result |-> r1, text |-> x1, outcome |-> o1, final |-> f1,
                    model |-> model]
        BY <2>2, <3>1
      <3>3. [last EXCEPT !.buffer = y] =
               [buffer |-> y, events |-> w, result |-> r1, text |-> x1, outcome |-> o1, final |-> f1,
                model |-> model]
        BY <3>2, Emptied
      <3> QED BY <3>1, <3>3
    <2> QED BY <2>1, <2>3
  <1>18. /\ r1 = Agent!LastOf(e \o t, "result", 0) /\ x1 = Agent!LastOf(e \o t, "assistant_text", 0)
         /\ o1 = Agent!LastOf(e \o t, "tool_use", 0)
    BY <1>5, <1>12, LastOfTwo
  <1>19. f1 = IF provider = "codex" THEN Agent!LastMessage(n + 1) ELSE 0
    BY <1>5, <1>12, NextMessage
  <1>20. After(up, 3 * n) =
            [buffer |-> <<>>, events |-> e \o t, result |-> r1, text |-> x1, outcome |-> o1, final |-> f1,
             model |-> model]
    BY <1>4, <1>8, <1>18, <1>19 DEF After, Known
  <1> QED BY <1>5, <1>7, <1>10, <1>17, <1>20

-----------------------------------------------------------------------------
(* One chunk.                                                              *)

LEMMA WrittenIs ==
  ASSUME AgentTypes
  PROVE  /\ Len(said) \in Nat /\ Written \in Nat
         /\ open = "none" => Written = 3 * Len(said)
         /\ open = "whole" => Written = 3 * Len(said) - 1 /\ Len(said) >= 1
         /\ open = "half" => Written = 3 * Len(said) - 2 /\ Len(said) >= 1
         /\ open \in {"none", "half", "whole"}
  <1>1. PICK l \in Nat : l = Len(said)
    BY LenProperties DEF AgentTypes
  <1>2. open \in {"none", "half", "whole"} /\ (open # "none" => l >= 1)
    BY <1>1 DEF AgentTypes
  <1>3. Written = 3 * l - (IF open = "none" THEN 0 ELSE IF open = "whole" THEN 1 ELSE 2)
    BY <1>1 DEF Written
  <1>4. CASE open = "none"
    BY <1>1, <1>3, <1>4
  <1>5. CASE open = "whole"
    BY <1>1, <1>2, <1>3, <1>5
  <1>6. CASE open = "half"
    BY <1>1, <1>2, <1>3, <1>6
  <1> QED BY <1>2, <1>4, <1>5, <1>6

\* One of the three tokens of a line.
LEMMA WhichToken ==
  ASSUME AgentTypes, NEW c \in 0 .. Written - 1
  PROVE  \E n \in 1 .. Len(said) : c = 3 * n - 3 \/ c = 3 * n - 2 \/ c = 3 * n - 1
  <1>1. PICK l \in Nat, w \in Nat : l = Len(said) /\ w = Written /\ w <= 3 * l
    BY WrittenIs
  <1>2. c \in Nat /\ c < 3 * l
    BY <1>1
  <1>3. PICK n \in Int : n = c \div 3 + 1
    BY <1>2
  <1>4. c = 3 * n - 3 \/ c = 3 * n - 2 \/ c = 3 * n - 1
    BY <1>2, <1>3
  <1>5. n \in 1 .. l
    BY <1>2, <1>4
  <1> QED BY <1>1, <1>4, <1>5

LEMMA Holds ==
  ASSUME NEW up, NEW k, NEW held, NEW y
  PROVE  [Known(up, k, held) EXCEPT !.buffer = y] = Known(up, k, y) /\ Known(up, k, held).buffer = held
  BY Emptied DEF Known

LEMMA OneMore == ASSUME NEW a, NEW b PROVE Append(<<>>, a) = <<a>> /\ Append(<<a>>, b) = <<a, b>>
  <1>1. PICK S : a \in S /\ b \in S
    <2>1. a \in {a, b} /\ b \in {a, b}
      OBVIOUS
    <2> QED BY <2>1
  <1>2. <<a>> \in Seq(S) /\ Len(<<a>>) = 1 /\ <<a>>[1] = a
    BY <1>1
  <1>3. <<a, b>> \in Seq(S) /\ Len(<<a, b>>) = 2 /\ <<a, b>>[1] = a /\ <<a, b>>[2] = b
    BY <1>1
  <1>4. PICK s, t, u : s = <<a>> /\ t = <<a, b>> /\ u = Append(s, b)
    OBVIOUS
  <1>5. s \in Seq(S) /\ Len(s) = 1 /\ s[1] = a
    BY <1>2, <1>4
  <1>6. u \in Seq(S) /\ Len(u) = Len(s) + 1 /\ u[Len(s) + 1] = b /\ \A i \in 1 .. Len(s) : u[i] = s[i]
    BY <1>1, <1>4, <1>5, AppendProperties
  <1>7. Len(u) = 2 /\ u[1] = a /\ u[2] = b
    BY <1>5, <1>6
  <1>8. t \in Seq(S) /\ Len(t) = 2 /\ t[1] = a /\ t[2] = b
    BY <1>3, <1>4
  <1>9. ASSUME NEW i \in 1 .. 2 PROVE u[i] = t[i]
    <2>1. i = 1 \/ i = 2
      OBVIOUS
    <2> QED BY <1>7, <1>8, <2>1
  <1>10. u = t
    BY <1>6, <1>7, <1>8, <1>9, SeqEqual
  <1>11. Append(<<>>, a) = <<a>>
    OBVIOUS
  <1> QED BY <1>4, <1>10, <1>11

LEMMA TakesOne ==
  ASSUME AgentTypes, NEW up, Tells(up), NEW c \in 0 .. Written - 1
  PROVE  Agent!Takes(After(up, c), Token(c + 1)) = After(up, c + 1)
  <1>1. PICK n \in 1 .. Len(said) : c = 3 * n - 3 \/ c = 3 * n - 2 \/ c = 3 * n - 1
    BY WhichToken
  <1>2. n \in Nat \ {0}
    <2>1. PICK l \in Nat : l = Len(said)
      BY WrittenIs
    <2> QED BY <2>1
  <1>3. Agent!Half(n, 1) # Agent!Newline /\ Agent!Half(n, 2) # Agent!Newline
    BY <1>2 DEF Agent!Half, Agent!Newline
  <1>4. PICK a, b : a = Agent!Half(n, 1) /\ b = Agent!Half(n, 2)
    OBVIOUS
  <1>5. Append(<<>>, a) = <<a>> /\ Append(<<a>>, b) = <<a, b>>
    BY OneMore
  <1>6. /\ After(up, 3 * n - 3) = Known(up, n - 1, <<>>)
        /\ After(up, 3 * n - 2) = Known(up, n - 1, <<a>>)
        /\ After(up, 3 * n - 1) = Known(up, n - 1, <<a, b>>)
    BY <1>2, <1>4, TokensOfLine DEF After
  <1>7. CASE c = 3 * n - 3
    <2>1. c + 1 = 3 * n - 2 /\ Token(c + 1) = a
      BY <1>2, <1>4, <1>7, TokensOfLine
    <2>2. Agent!Takes(Known(up, n - 1, <<>>), a) = Known(up, n - 1, <<a>>)
      BY <1>3, <1>4, <1>5, Holds DEF Agent!Takes
    <2> QED BY <1>6, <1>7, <2>1, <2>2
  <1>8. CASE c = 3 * n - 2
    <2>1. c + 1 = 3 * n - 1 /\ Token(c + 1) = b
      BY <1>2, <1>4, <1>8, TokensOfLine
    <2>2. Agent!Takes(Known(up, n - 1, <<a>>), b) = Known(up, n - 1, <<a, b>>)
      BY <1>3, <1>4, <1>5, Holds DEF Agent!Takes
    <2> QED BY <1>6, <1>8, <2>1, <2>2
  <1>9. CASE c = 3 * n - 1
    <2>1. c + 1 = 3 * n /\ Token(c + 1) = Agent!Newline
      BY <1>2, <1>9, TokensOfLine
    <2> QED BY <1>9, <2>1, HandlesLine DEF Agent!Takes
  <1> QED BY <1>1, <1>7, <1>8, <1>9

\* A chunk is taken token by token.
OneByOne(f, n, s, tokens) ==
    /\ f = [i \in 0 .. n |-> f[i]] /\ f[0] = s
    /\ \A i \in 1 .. n : f[i] = Agent!Takes(f[i - 1], tokens[i])

LEMMA FedIs ==
  ASSUME NEW s, NEW tokens, NEW n \in Nat, Len(tokens) = n, NEW f, OneByOne(f, n, s, tokens)
  PROVE  Agent!Fed(s, tokens) = f[n]
  <1>0. /\ f = [i \in 0 .. n |-> f[i]] /\ f[0] = s
        /\ \A i \in 1 .. n : f[i] = Agent!Takes(f[i - 1], tokens[i])
    BY DEF OneByOne
  <1> DEFINE Step(t, i) == Agent!Takes(t, tokens[i])
             Is(g) == g = [i \in 0 .. n |-> IF i = 0 THEN s ELSE Step(g[i - 1], i)]
             fed == CHOOSE g : Is(g)
             H == {i \in 0 .. n : fed[i] = f[i]}
  <1>1. Agent!Fed(s, tokens) = fed[n]
    BY DEF Agent!Fed
  <1>2. \A i \in 1 .. n : f[i] = Step(f[i - 1], i)
    BY <1>0
  <1> HIDE DEF Step
  <1>3. ASSUME NEW i \in 0 .. n PROVE f[i] = IF i = 0 THEN s ELSE Step(f[i - 1], i)
    <2>1. i = 0 \/ i \in 1 .. n
      OBVIOUS
    <2> QED BY <1>0, <1>2, <2>1
  <1>4. Is(f)
    BY <1>0, <1>3
  <1>5. Is(fed)
    <2> HIDE DEF Is
    <2> QED BY <1>4
  <1> HIDE DEF fed
  <1>6. \A i \in 0 .. n : fed[i] = IF i = 0 THEN s ELSE Step(fed[i - 1], i)
    BY <1>5
  <1>7. 0 \in H
    <2>1. 0 \in 0 .. n
      OBVIOUS
    <2> QED BY <1>0, <1>6, <2>1
  <1>8. ASSUME NEW i \in 1 .. n, i - 1 \in H PROVE i \in H
    <2>1. i \in 0 .. n /\ i # 0
      OBVIOUS
    <2> QED BY <1>2, <1>6, <1>8, <2>1
  <1>9. n \in H
    <2> HIDE DEF H
    <2>1. 0 .. n \subseteq H
      BY <1>7, <1>8, UpTo
    <2> QED BY <2>1
  <1> QED BY <1>1, <1>9

LEMMA UnreadIs ==
  ASSUME AgentTypes, NEW c, Unread(c)
  PROVE  /\ c \in Nat /\ Written - c \in Nat /\ Len(pipe) = Written - c
         /\ \A i \in 1 .. Len(pipe) : pipe[i] = Token(c + i)
         /\ pipe \in Seq({Token(j) : j \in 1 .. Written})
  <1>1. PICK w \in Nat : w = Written
    BY WrittenIs
  <1>2. c \in 0 .. w /\ pipe = [i \in 1 .. w - c |-> Token(c + i)]
    BY <1>1 DEF Unread
  <1>3. PICK d \in Nat : d = w - c
    BY <1>2
  <1>4. pipe = [i \in 1 .. d |-> Token(c + i)]
    BY <1>2, <1>3
  <1>5. ASSUME NEW i \in 1 .. d PROVE pipe[i] \in {Token(j) : j \in 1 .. w}
    <2>1. c + i \in 1 .. w
      BY <1>2, <1>3
    <2> QED BY <1>4, <2>1
  <1>6. pipe \in Seq({Token(j) : j \in 1 .. w}) /\ Len(pipe) = d
    BY <1>4, <1>5, IsASeq
  <1> QED BY <1>1, <1>2, <1>3, <1>4, <1>6

\* What is read of the pipe is known as if it had come one token at a time.
LEMMA FedAfter ==
  ASSUME AgentTypes, NEW up, Tells(up), NEW c, Unread(c), NEW n \in 1 .. Len(pipe)
  PROVE  /\ Agent!Fed(After(up, c), SubSeq(pipe, 1, n)) = After(up, c + n)
         /\ c + n \in 0 .. Written
         /\ SubSeq(pipe, n + 1, Len(pipe)) = [i \in 1 .. Written - (c + n) |-> Token(c + n + i)]
  <1>1. PICK w \in Nat, d \in Nat : w = Written /\ d = Len(pipe) /\ d = w - c
    BY UnreadIs, WrittenIs
  <1>2. c \in Nat /\ n \in 1 .. d /\ n \in Nat /\ c + n \in 0 .. w
    <2>1. c \in Nat
      BY UnreadIs
    <2>2. n \in 1 .. d
      BY <1>1
    <2> QED BY <1>1, <2>1, <2>2
  <1>3. PICK S : S = {Token(j) : j \in 1 .. Written}
    OBVIOUS
  <1>4. pipe \in Seq(S) /\ \A i \in 1 .. d : pipe[i] = Token(c + i)
    BY <1>1, <1>3, UnreadIs
  <1>5. PICK read1 : read1 = SubSeq(pipe, 1, n)
    OBVIOUS
  <1>6. Len(read1) = n /\ \A i \in 1 .. n : read1[i] = pipe[i]
    BY <1>1, <1>2, <1>4, <1>5, SubSeqProperties
  <1> DEFINE f == [i \in 0 .. n |-> After(up, c + i)]
  <1>7. f[0] = After(up, c) /\ f[n] = After(up, c + n)
    BY <1>2
  <1>8. ASSUME NEW i \in 1 .. n PROVE f[i] = Agent!Takes(f[i - 1], read1[i])
    <2>1. i \in 0 .. n /\ i - 1 \in 0 .. n /\ i \in 1 .. d /\ c + (i - 1) = c + i - 1
      BY <1>2
    <2>2. c + i - 1 \in 0 .. Written - 1 /\ (c + i - 1) + 1 = c + i
      BY <1>1, <1>2, <2>1
    <2>3. read1[i] = Token(c + i)
      BY <1>4, <1>6, <2>1
    <2>4. f[i] = After(up, c + i) /\ f[i - 1] = After(up, c + i - 1)
      BY <2>1
    <2> HIDE DEF f
    <2> QED BY <2>2, <2>3, <2>4, TakesOne
  <1>9. f = [i \in 0 .. n |-> f[i]]
    OBVIOUS
  <1>10. Agent!Fed(After(up, c), read1) = After(up, c + n)
    <2> HIDE DEF f
    <2>1. OneByOne(f, n, After(up, c), read1)
      BY <1>7, <1>8, <1>9 DEF OneByOne
    <2>2. n \in Nat /\ Len(read1) = n
      BY <1>2, <1>6
    <2> QED BY <1>7, <2>1, <2>2, FedIs
  <1>11. PICK rest : rest = SubSeq(pipe, n + 1, d)
    OBVIOUS
  <1>12. PICK e \in Nat : e = d - n
    BY <1>2
  <1>m. PICK m \in Nat : m = n + 1
    BY <1>2
  <1>13. rest \in Seq(S) /\ Len(rest) = e /\ \A i \in 1 .. e : rest[i] = pipe[n + i]
    <2>1. \A i \in m .. d : pipe[i] \in S
      <3>1. \A i \in 1 .. d : pipe[i] \in S
        BY <1>1, <1>4, ElementOfSeq
      <3>2. \A i \in m .. d : i \in 1 .. d
        BY <1>m, <1>2
      <3> QED BY <3>1, <3>2
    <2>2. rest = SubSeq(pipe, m, d)
      BY <1>11, <1>m
    <2>3. /\ rest \in Seq(S) /\ Len(rest) = IF m <= d THEN d - m + 1 ELSE 0
          /\ \A i \in 1 .. d - m + 1 : rest[i] = pipe[m + i - 1]
      BY <2>1, <2>2, SubSeqProperties
    <2>4. d - m + 1 = e /\ (m <= d => e = d - m + 1) /\ (~ (m <= d) => e = 0)
      BY <1>2, <1>12, <1>m
    <2>5. \A i \in 1 .. e : m + i - 1 = n + i
      BY <1>2, <1>m, <1>12
    <2>6. Len(rest) = e
      BY <2>3, <2>4
    <2>7. \A i \in 1 .. e : rest[i] = pipe[n + i]
      BY <2>3, <2>4, <2>5
    <2> QED BY <2>3, <2>6, <2>7
  <1>14. ASSUME NEW i \in 1 .. e PROVE rest[i] = Token(c + n + i)
    <2>1. n + i \in 1 .. d /\ c + (n + i) = c + n + i
      BY <1>2, <1>12
    <2> QED BY <1>4, <1>13, <2>1
  <1>15. rest = [i \in 1 .. e |-> Token(c + n + i)]
    <2>1. rest \in [1 .. e -> S]
      BY <1>13, LenProperties
    <2> QED BY <1>14, <2>1
  <1>16. e = Written - (c + n)
    BY <1>1, <1>2, <1>12
  <1> QED BY <1>1, <1>2, <1>5, <1>10, <1>11, <1>15, <1>16

-----------------------------------------------------------------------------
(* The agent writes, and ends.                                             *)

LEMMA SameLines ==
  ASSUME UNCHANGED <<said, provider>>
  PROVE  /\ \A n : SaidBy(n)' = SaidBy(n) /\ Agent!LastMessage(n)' = Agent!LastMessage(n)
         /\ \A up : Tells(up)' <=> Tells(up)
  <1>1. \A n : Agent!LastMessage(n)' = Agent!LastMessage(n)
    BY DEF Agent!LastMessage, Agent!MessagesBefore, Agent!IsMessage
  <1>2. \A n : SaidBy(n)' = SaidBy(n)
    BY <1>1 DEF SaidBy, Agent!Normalized, Agent!At
  <1>3. \A up : Tells(up)' <=> Tells(up)
    BY <1>2 DEF Tells, Events
  <1> QED BY <1>1, <1>2, <1>3

LEMMA SameKnown ==
  ASSUME UNCHANGED <<said, provider>>, NEW up, NEW k, NEW held, NEW s, s = Known(up, k, held), model' = s.model
  PROVE  Known(up, k, held)' = s
  <1>1. model' = model
    BY DEF Known
  <1>2. Agent!LastMessage(k + 1)' = Agent!LastMessage(k + 1)
    BY SameLines
  <1> QED BY <1>1, <1>2 DEF Known

LEMMA AgentInit == ASSUME Agent!Init PROVE AgentIInv
  <1>1. MaxLines \in Nat
    BY AgentAssumption
  <1>2. /\ said = <<>> /\ open = "none" /\ pipe = <<>> /\ buffer = <<>> /\ events = <<>>
        /\ final = 0 /\ lastResult = 0 /\ lastText = 0 /\ outcome = 0
        /\ provider \in {"claude", "codex"} /\ child \in {"alive", "none"} /\ agentPid = (child = "alive")
        /\ settled = "no" /\ reason = 0
    BY DEF Agent!Init
  <1>3. said \in Seq(Agent!LineKinds) /\ Len(said) = 0 /\ <<>> \in Seq(Events)
    BY <1>2, EmptySeq
  <1>4. AgentTypes
    BY <1>1, <1>2, <1>3 DEF AgentTypes
  <1> DEFINE up == [n \in 0 .. 0 |-> <<>>]
  <1>5. up[0] = <<>> /\ up \in [0 .. Len(said) -> Seq(Events)]
    BY <1>3
  <1>6. Tells(up)
    <2>1. 1 .. Len(said) = {}
      BY <1>3
    <2> HIDE DEF up
    <2> QED BY <1>5, <2>1 DEF Tells
  <1>7. Written = 0
    BY <1>2, <1>3 DEF Written
  <1>8. Unread(0)
    <2>1. [i \in 1 .. 0 |-> Token(0 + i)] = <<>>
      OBVIOUS
    <2> QED BY <1>2, <1>7, <2>1 DEF Unread
  <1>9. Agent!Heard = After(up, 0)
    <2>1. \A kind : None(<<>>, kind)
      BY DEF None
    <2>2. \A kind : Agent!LastOf(<<>>, kind, 0) = 0
      BY <2>1, LastOfNone
    <2>3. Agent!LastMessage(1) = 0
      <3>1. Agent!MessagesBefore(1) = {}
        BY DEF Agent!MessagesBefore
      <3> QED BY <3>1 DEF Agent!LastMessage
    <2>4. 0 \div 3 = 0 /\ Held(0) = <<>> /\ 0 + 1 = 1
      BY DEF Held
    <2> HIDE DEF up
    <2> QED BY <1>2, <1>5, <2>2, <2>3, <2>4 DEF Agent!Heard, After, Known
  <1>10. Follows
    <2> HIDE DEF up
    <2> QED BY <1>6, <1>8, <1>9 DEF Follows
  <1> QED BY <1>2, <1>4, <1>10 DEF AgentIInv

\* One more token in the pipe.
LEMMA WritesOne ==
  ASSUME AgentTypes, NEW c, Unread(c), NEW t, t = Token(Written + 1), pipe' = pipe \o <<t>>,
         Written' = Written + 1
  PROVE  Unread(c)'
  <1>1. PICK w \in Nat, d \in Nat : w = Written /\ d = Len(pipe) /\ d = w - c
    BY UnreadIs, WrittenIs
  <1>2. c \in Nat /\ c \in 0 .. w + 1 /\ w + 1 - c = d + 1 /\ c + (d + 1) = w + 1
    <2>1. c \in Nat
      BY UnreadIs
    <2> QED BY <1>1, <2>1
  <1>3. PICK S : S = {Token(j) : j \in 1 .. Written} \cup {t}
    OBVIOUS
  <1>4. pipe \in Seq(S) /\ \A i \in 1 .. d : pipe[i] = Token(c + i)
    <2>1. \A i \in 1 .. d : pipe[i] = Token(c + i) /\ pipe[i] \in S
      <3>1. pipe \in Seq({Token(j) : j \in 1 .. Written}) /\ \A i \in 1 .. d : pipe[i] = Token(c + i)
        BY <1>1, UnreadIs
      <3> QED BY <1>1, <1>3, <3>1, ElementOfSeq
    <2>2. pipe = [i \in 1 .. d |-> pipe[i]]
      BY <1>1, UnreadIs, LenProperties
    <2>3. [i \in 1 .. d |-> pipe[i]] \in Seq(S)
      BY <2>1, IsASeq
    <2> QED BY <2>1, <2>2, <2>3
  <1>5. t \in S /\ <<t>> \in Seq(S) /\ Len(<<t>>) = 1 /\ <<t>>[1] = t
    BY <1>3
  <1>6. PICK u \in Seq(S) : u = pipe \o <<t>> /\ Len(u) = d + 1 /\ u[d + 1] = t /\ \A i \in 1 .. d : u[i] = pipe[i]
    <2>1. PICK b : b = <<t>>
      OBVIOUS
    <2>2. b \in Seq(S) /\ Len(b) = 1 /\ b[1] = t
      BY <1>5, <2>1
    <2>3. PICK u \in Seq(S) : u = pipe \o b
      BY <1>4, <2>2, ConcatProperties
    <2>4. PICK p \in Seq(S) : p = pipe /\ Len(p) = d
      BY <1>1, <1>4
    <2>5. /\ Len(u) = Len(p) + Len(b)
          /\ \A i \in 1 .. Len(p) + Len(b) : u[i] = IF i <= Len(p) THEN p[i] ELSE b[i - Len(p)]
      BY <2>2, <2>3, <2>4, ConcatProperties
    <2>6. Len(u) = d + 1 /\ \A i \in 1 .. d + 1 : u[i] = IF i <= d THEN p[i] ELSE b[i - d]
      BY <2>2, <2>4, <2>5
    <2>7. u[d + 1] = t
      <3>1. d + 1 \in 1 .. d + 1 /\ ~ (d + 1 <= d) /\ d + 1 - d = 1
        OBVIOUS
      <3> QED BY <2>2, <2>6, <3>1
    <2>8. \A i \in 1 .. d : u[i] = pipe[i]
      BY <2>4, <2>6
    <2> QED BY <2>1, <2>3, <2>6, <2>7, <2>8
  <1>7. ASSUME NEW i \in 1 .. d + 1 PROVE u[i] = Token(c + i)
    <2>1. i \in 1 .. d \/ i = d + 1
      BY <1>1
    <2>2. CASE i \in 1 .. d
      BY <1>4, <1>6, <2>2
    <2>3. CASE i = d + 1
      BY <1>1, <1>2, <1>6, <2>3
    <2> QED BY <2>1, <2>2, <2>3
  <1>8. u = [i \in 1 .. d + 1 |-> Token(c + i)]
    <2>1. u \in [1 .. d + 1 -> S]
      BY <1>6, LenProperties
    <2> QED BY <1>7, <2>1
  <1>9. Written' = w + 1 /\ Written' - c = d + 1
    BY <1>1, <1>2
  <1> QED BY <1>2, <1>6, <1>8, <1>9 DEF Unread, Token

LEMMA BeginLineKeeps ==
  ASSUME AgentIInv, NEW kind \in Agent!LineKinds, Agent!BeginLine(kind) PROVE AgentIInv'
  <1>1. PICK l \in Nat : l = Len(said)
    BY WrittenIs DEF AgentIInv
  <1>2. /\ child = "alive" /\ open = "none" /\ l < MaxLines /\ said' = Append(said, kind) /\ open' = "half"
        /\ pipe' = pipe \o <<Agent!Half(l + 1, 1)>>
        /\ UNCHANGED <<provider, child, buffer, final, model, events, lastResult, lastText, outcome,
                       agentPid, settled, reason>>
    BY <1>1 DEF Agent!BeginLine, Agent!Writes, Agent!followed
  <1>3. AgentTypes /\ MaxLines \in Nat /\ said \in Seq(Agent!LineKinds)
    BY AgentAssumption DEF AgentIInv, AgentTypes
  <1>4. /\ said' \in Seq(Agent!LineKinds) /\ Len(said') = l + 1 /\ said'[l + 1] = kind
        /\ \A i \in 1 .. l : said'[i] = said[i]
    BY <1>1, <1>2, <1>3, AppendProperties
  <1>5. AgentTypes'
    <2>1. Len(said') \in 0 .. MaxLines /\ Len(said') >= 1
      BY <1>2, <1>3, <1>4
    <2> QED BY <1>2, <1>3, <1>4, <2>1 DEF AgentTypes
  <1>6. PICK up, c : Tells(up) /\ Unread(c) /\ Agent!Heard = After(up, c)
    BY <1>2 DEF AgentIInv, Follows
  <1>7. Written = 3 * l /\ Written' = 3 * l + 1
    BY <1>1, <1>2, <1>4 DEF Written
  <1>8. ASSUME NEW n \in 1 .. l + 1 PROVE Agent!LastMessage(n)' = Agent!LastMessage(n)
    <2>1. \A m \in 1 .. n - 1 : said'[m] = said[m]
      BY <1>4
    <2>2. Agent!MessagesBefore(n)' = Agent!MessagesBefore(n)
      BY <1>2, <2>1 DEF Agent!MessagesBefore, Agent!IsMessage
    <2> QED BY <2>2 DEF Agent!LastMessage
  <1>9. ASSUME NEW n \in 1 .. l PROVE SaidBy(n)' = SaidBy(n)
    <2>1. n \in 1 .. l + 1
      OBVIOUS
    <2>2. Agent!LastMessage(n)' = Agent!LastMessage(n) /\ said'[n] = said[n] /\ provider' = provider
      BY <1>2, <1>4, <1>8, <2>1
    <2> QED BY <2>2 DEF SaidBy, Agent!Normalized, Agent!At
  <1>10. SaidBy(l + 1)' \in Seq(Events)
    <2>1. l + 1 \in 1 .. l + 1 /\ l + 1 \in 0 .. MaxLines
      BY <1>2, <1>3
    <2>2. Agent!LastMessage(l + 1)' = Agent!LastMessage(l + 1) /\ Agent!LastMessage(l + 1) \in 0 .. MaxLines
      BY <1>1, <1>3, <1>8, <2>1, MessageTypes
    <2>3. SaidBy(l + 1)' = Agent!Normalized(kind, l + 1, Agent!LastMessage(l + 1))
      BY <1>2, <1>4, <2>2 DEF SaidBy, Agent!Normalized, Agent!At
    <2> QED BY <1>3, <2>1, <2>2, <2>3, NormalTypes
  <1>t. PICK t \in Seq(Events) : t = SaidBy(l + 1)'
    BY <1>10
  <1>o. PICK more : more = [n \in 0 .. l + 1 |-> IF n = l + 1 THEN up[l] \o t ELSE up[n]]
    OBVIOUS
  <1>11. up \in [0 .. l -> Seq(Events)] /\ up[0] = <<>> /\ \A n \in 1 .. l : up[n] = up[n - 1] \o SaidBy(n)
    BY <1>1, <1>6 DEF Tells
  <1>12. up[l] \o t \in Seq(Events)
    BY <1>t, <1>11, ConcatProperties
  <1>13. more \in [0 .. l + 1 -> Seq(Events)]
    BY <1>o, <1>11, <1>12
  <1>14. (\A n \in 0 .. l : more[n] = up[n]) /\ more[l + 1] = up[l] \o t
    BY <1>o
  <1>15. ASSUME NEW n \in 1 .. l + 1 PROVE more[n] = more[n - 1] \o SaidBy(n)'
    <2>1. CASE n = l + 1
      <3>1. n - 1 = l /\ l \in 0 .. l
        BY <2>1
      <3> QED BY <1>t, <1>14, <2>1, <3>1
    <2>2. CASE n # l + 1
      <3>1. n \in 1 .. l /\ n \in 0 .. l /\ n - 1 \in 0 .. l
        BY <2>2
      <3> QED BY <1>9, <1>11, <1>14, <3>1
    <2> QED BY <2>1, <2>2
  <1>16. Tells(more)'
    <2>1. 0 \in 0 .. l
      OBVIOUS
    <2>2. more[0] = <<>>
      BY <1>11, <1>14, <2>1
    <2>3. more \in [0 .. Len(said') -> Seq(Events)]
      BY <1>4, <1>13
    <2>4. \A n \in 1 .. Len(said') : more[n] = more[n - 1] \o SaidBy(n)'
      BY <1>4, <1>15
    <2> QED BY <2>2, <2>3, <2>4 DEF Tells, Events
  <1>17. c \in 0 .. 3 * l
    BY <1>6, <1>7 DEF Unread
  <1>18. Unread(c)'
    <2>1. Token(Written + 1) = Agent!Half(l + 1, 1)
      <3>1. 3 * (l + 1) - 2 = Written + 1
        BY <1>7
      <3> QED BY <3>1, TokensOfLine
    <2> QED BY <1>2, <1>3, <1>6, <1>7, <2>1, WritesOne
  <1>19. PICK k \in 0 .. l : k = c \div 3 /\ k + 1 \in 1 .. l + 1
    BY <1>17
  <1>20. After(more, c)' = After(up, c)
    <2>1. more[k] = up[k] /\ Agent!LastMessage(k + 1)' = Agent!LastMessage(k + 1)
      BY <1>8, <1>14, <1>19
    <2> QED BY <1>2, <1>19, <2>1 DEF After, Known, Held, Token, Agent!Half, Agent!Newline
  <1>21. Agent!Heard' = After(more, c)'
    BY <1>2, <1>6, <1>20 DEF Agent!Heard
  <1>22. Follows'
    BY <1>16, <1>18, <1>21 DEF Follows
  <1> QED BY <1>2, <1>5, <1>22 DEF AgentIInv

LEMMA GoOnKeeps == ASSUME AgentIInv, Agent!GoOn PROVE AgentIInv'
  <1>1. PICK l \in Nat : l = Len(said)
    BY WrittenIs DEF AgentIInv
  <1>2. AgentTypes
    BY DEF AgentIInv
  <1>3. /\ child = "alive"
        /\ UNCHANGED <<said, provider, child, buffer, final, model, events, lastResult, lastText, outcome,
                       agentPid, settled, reason>>
        /\ \/ open = "half" /\ open' = "whole" /\ pipe' = pipe \o <<Agent!Half(l, 2)>>
           \/ open = "whole" /\ open' = "none" /\ pipe' = pipe \o <<Agent!Newline>>
    BY <1>1 DEF Agent!GoOn, Agent!Writes, Agent!followed
  <1>4. AgentTypes'
    BY <1>2, <1>3 DEF AgentTypes
  <1>5. PICK up, c : Tells(up) /\ Unread(c) /\ Agent!Heard = After(up, c)
    BY <1>3 DEF AgentIInv, Follows
  <1>6. l >= 1
    BY <1>1, <1>2, <1>3, WrittenIs
  <1>7. Unread(c)'
    <2>1. CASE open = "half" /\ open' = "whole" /\ pipe' = pipe \o <<Agent!Half(l, 2)>>
      <3>1. Written = 3 * l - 2 /\ Written' = 3 * l - 1
        BY <1>1, <1>3, <2>1 DEF Written
      <3>2. Written + 1 = 3 * l - 1 /\ Written' = Written + 1
        BY <3>1
      <3>3. Token(Written + 1) = Agent!Half(l, 2)
        BY <1>6, <3>2, TokensOfLine
      <3> QED BY <1>2, <1>5, <2>1, <3>2, <3>3, WritesOne
    <2>2. CASE open = "whole" /\ open' = "none" /\ pipe' = pipe \o <<Agent!Newline>>
      <3>1. Written = 3 * l - 1 /\ Written' = 3 * l
        BY <1>1, <1>3, <2>2 DEF Written
      <3>2. Written + 1 = 3 * l /\ Written' = Written + 1
        BY <3>1
      <3>3. Token(Written + 1) = Agent!Newline
        <4>1. Token(3 * l) = Agent!Newline
          <5>1. l \in Nat \ {0}
            BY <1>6
          <5> QED BY <5>1, TokensOfLine
        <4> QED BY <3>2, <4>1
      <3> QED BY <1>2, <1>5, <2>2, <3>2, <3>3, WritesOne
    <2> QED BY <1>3, <2>1, <2>2
  <1>8. Tells(up)'
    BY <1>3, <1>5, SameLines
  <1>9. After(up, c)' = After(up, c)
    BY <1>3, SameLines DEF After, Known, Held, Token, Agent!Half, Agent!Newline
  <1>10. Follows'
    BY <1>3, <1>5, <1>7, <1>8, <1>9 DEF Follows, Agent!Heard
  <1> QED BY <1>3, <1>4, <1>10 DEF AgentIInv

\* Where the agent's output does not move, neither does what is said of it.
LEMMA FollowsStays ==
  ASSUME Follows, UNCHANGED <<provider, said, open, pipe, buffer, final, model, events,
                              lastResult, lastText, outcome>>
  PROVE  Follows'
  <1>1. PICK up, c : Tells(up) /\ Unread(c) /\ Agent!Heard = After(up, c)
    BY DEF Follows
  <1>2. Tells(up)'
    BY <1>1, SameLines
  <1>3. Unread(c)'
    BY <1>1 DEF Unread, Written, Token, Agent!Half, Agent!Newline
  <1>4. After(up, c)' = After(up, c)
    BY SameLines DEF After, Known, Held, Token, Agent!Half, Agent!Newline
  <1> QED BY <1>1, <1>2, <1>3, <1>4 DEF Follows, Agent!Heard

LEMMA EndsKeeps ==
  ASSUME AgentIInv, NEW how \in {"ok", "bad"}, Agent!Ends(how) PROVE AgentIInv'
  <1>1. /\ child = "alive" /\ child' = how
        /\ UNCHANGED <<provider, said, open, pipe, buffer, final, model, events,
                       lastResult, lastText, outcome, agentPid, settled, reason>>
    BY DEF Agent!Ends, Agent!followed
  <1>2. Follows'
    BY <1>1, FollowsStays DEF AgentIInv
  <1>3. AgentTypes'
    BY <1>1 DEF AgentIInv, AgentTypes
  <1> QED BY <1>1, <1>2, <1>3 DEF AgentIInv

LEMMA SpawnErrorKeeps == ASSUME AgentIInv, Agent!SpawnError PROVE AgentIInv'
  <1>1. /\ child = "none" /\ settled' = "not started"
        /\ UNCHANGED <<provider, said, open, pipe, buffer, final, model, events, child,
                       lastResult, lastText, outcome, agentPid, reason>>
    BY DEF Agent!SpawnError, Agent!followed
  <1>2. Follows'
    BY <1>1, FollowsStays DEF AgentIInv
  <1>3. AgentTypes'
    BY <1>1 DEF AgentIInv, AgentTypes
  <1> QED BY <1>1, <1>2, <1>3 DEF AgentIInv

LEMMA DataKeeps == ASSUME AgentIInv, NEW n, Agent!Data(n) PROVE AgentIInv'
  <1>1. /\ n \in 1 .. Len(pipe) /\ pipe' = SubSeq(pipe, n + 1, Len(pipe))
        /\ Agent!Becomes(Agent!Fed(Agent!Heard, SubSeq(pipe, 1, n)))
        /\ UNCHANGED <<provider, said, open, child, agentPid, settled, reason>>
    BY DEF Agent!Data
  <1>2. AgentTypes
    BY DEF AgentIInv
  <1>3. child # "closed"
    <2>1. pipe = <<>> => Len(pipe) = 0
      BY EmptySeq
    <2>2. Len(pipe) # 0
      BY <1>1
    <2> QED BY <2>1, <2>2 DEF AgentIInv, Over
  <1>4. PICK up, c : Tells(up) /\ Unread(c) /\ Agent!Heard = After(up, c)
    BY <1>3 DEF AgentIInv, Follows
  <1>5. /\ Agent!Fed(After(up, c), SubSeq(pipe, 1, n)) = After(up, c + n) /\ c + n \in 0 .. Written
        /\ pipe' = [i \in 1 .. Written - (c + n) |-> Token(c + n + i)]
    BY <1>1, <1>2, <1>4, FedAfter
  <1>6. PICK s, d : s = After(up, c + n) /\ d = c + n
    OBVIOUS
  <1>7. /\ buffer' = s.buffer /\ events' = s.events /\ lastResult' = s.result /\ lastText' = s.text
        /\ outcome' = s.outcome /\ final' = s.final /\ model' = s.model
    BY <1>1, <1>4, <1>5, <1>6 DEF Agent!Becomes
  <1>8. After(up, d)' = s
    BY <1>1, <1>6, <1>7, SameKnown DEF After, Held, Token, Agent!Half, Agent!Newline
  <1>9. Agent!Heard' = s
    BY <1>6, <1>7 DEF Agent!Heard, After, Known
  <1>10. Tells(up)'
    BY <1>1, <1>4, SameLines
  <1>11. Unread(d)'
    BY <1>1, <1>5, <1>6 DEF Unread, Written, Token, Agent!Half, Agent!Newline
  <1>12. Follows'
    BY <1>8, <1>9, <1>10, <1>11 DEF Follows
  <1>13. AgentTypes'
    BY <1>1, <1>2 DEF AgentTypes
  <1> QED BY <1>1, <1>3, <1>12, <1>13 DEF AgentIInv

-----------------------------------------------------------------------------
(* The end of the output.                                                  *)

\* What one reading of the whole output comes to, given step by step.
LEMMA OutputIs ==
  ASSUME NEW all, Len(said) \in Nat, Sums(all) PROVE Agent!Output = all[Len(said)]
  <1> DEFINE n == Len(said)
             Step(t, i) == t \o Agent!Meant(i)
             Is(g) == g = [i \in 0 .. n |-> IF i = 0 THEN <<>> ELSE Step(g[i - 1], i)]
             upto == CHOOSE g : Is(g)
             H == {i \in 0 .. n : upto[i] = all[i]}
  <1>0. n \in Nat
    OBVIOUS
  <1>1. Agent!Output = upto[n]
    BY DEF Agent!Output
  <1>2. all[0] = <<>> /\ \A i \in 1 .. n : all[i] = Step(all[i - 1], i)
    BY DEF Sums
  <1>3. all = [i \in 0 .. n |-> all[i]]
    BY DEF Sums
  <1> HIDE DEF Step, n
  <1>4. ASSUME NEW i \in 0 .. n PROVE all[i] = IF i = 0 THEN <<>> ELSE Step(all[i - 1], i)
    <2>1. i = 0 \/ i \in 1 .. n
      BY <1>0
    <2> QED BY <1>2, <2>1
  <1>5. Is(all)
    BY <1>3, <1>4
  <1>6. Is(upto)
    <2> HIDE DEF Is
    <2> QED BY <1>5
  <1> HIDE DEF upto
  <1>7. \A i \in 0 .. n : upto[i] = IF i = 0 THEN <<>> ELSE Step(upto[i - 1], i)
    BY <1>6
  <1>8. 0 \in H
    <2>1. 0 \in 0 .. n
      BY <1>0
    <2> QED BY <1>2, <1>7, <2>1
  <1>9. ASSUME NEW i \in 1 .. n, i - 1 \in H PROVE i \in H
    <2>1. i \in 0 .. n /\ i # 0
      BY <1>0
    <2> QED BY <1>2, <1>7, <1>9, <2>1
  <1>10. n \in H
    <2> HIDE DEF H
    <2>1. 0 .. n \subseteq H
      BY <1>0, <1>8, <1>9, UpTo
    <2> QED BY <1>0, <2>1
  <1> QED BY <1>1, <1>10 DEF n

\* When all that was written has been read, the rest completes it.
LEMMA RestSums ==
  ASSUME AgentTypes, NEW up, Tells(up), Agent!Heard = After(up, Written)
  PROVE  \E all, f : /\ Sums(all) /\ f \in 0 .. MaxLines
                     /\ Agent!Rest = [buffer |-> <<>>, events |-> all[Len(said)],
                          result |-> Agent!LastOf(all[Len(said)], "result", 0),
                          text |-> Agent!LastOf(all[Len(said)], "assistant_text", 0),
                          outcome |-> Agent!LastOf(all[Len(said)], "tool_use", 0),
                          final |-> f, model |-> model]
  <1>1. PICK l \in Nat : l = Len(said)
    BY WrittenIs
  <1>2. buffer = Held(Written)
    BY DEF Agent!Heard, After, Known
  <1>3. \A n \in 1 .. l : n # l \/ open # "half" => Agent!Meant(n) = SaidBy(n)
    BY <1>1 DEF Agent!Meant, SaidBy
  <1>4. up \in [0 .. l -> Seq(Events)] /\ up[0] = <<>> /\ \A n \in 1 .. l : up[n] = up[n - 1] \o SaidBy(n)
    BY <1>1 DEF Tells
  <1>5. ASSUME NEW k \in 0 .. l PROVE (IF provider = "codex" THEN Agent!LastMessage(k + 1) ELSE 0) \in 0 .. MaxLines
    <2>1. k + 1 \in 1 .. Len(said) + 1
      BY <1>1
    <2> QED BY <2>1, MessageTypes, AgentAssumption
  <1>6. ASSUME Agent!Rest = Known(up, l, <<>>), open # "half"
        PROVE  \E all, f : /\ Sums(all) /\ f \in 0 .. MaxLines
                     /\ Agent!Rest = [buffer |-> <<>>, events |-> all[l],
                          result |-> Agent!LastOf(all[l], "result", 0),
                          text |-> Agent!LastOf(all[l], "assistant_text", 0),
                          outcome |-> Agent!LastOf(all[l], "tool_use", 0),
                          final |-> f, model |-> model]
    <2>1. Sums(up)
      BY <1>1, <1>3, <1>4, <1>6 DEF Sums
    <2>2. PICK f \in 0 .. MaxLines : f = IF provider = "codex" THEN Agent!LastMessage(l + 1) ELSE 0
      BY <1>5
    <2> QED BY <1>6, <2>1, <2>2 DEF Known
  <1>7. CASE open = "none"
    <2>1. Written = 3 * l /\ Held(3 * l) = <<>> /\ (3 * l) \div 3 = l
      BY <1>1, <1>7, WrittenIs DEF Held
    <2>2. Agent!Heard = Known(up, l, <<>>) /\ buffer = <<>>
      BY <1>2, <2>1 DEF After
    <2>3. Agent!Rest = Known(up, l, <<>>)
      BY <2>2, Holds DEF Agent!Rest, Agent!HandleLine
    <2> QED BY <1>1, <1>6, <1>7, <2>3
  <1>8. CASE open = "whole"
    <2>1. Written = 3 * l - 1 /\ l \in 1 .. Len(said) /\ l \in Nat \ {0}
      BY <1>1, <1>8, WrittenIs
    <2>2. Agent!Rest = After(up, 3 * l)
      BY <1>2, <2>1, HandlesLine DEF Agent!Rest
    <2>3. Agent!Rest = Known(up, l, <<>>)
      BY <2>1, <2>2, TokensOfLine DEF After
    <2> QED BY <1>1, <1>6, <1>8, <2>3
  <1>9. CASE open = "half"
    <2>1. Written = 3 * l - 2 /\ l \in Nat \ {0} /\ l - 1 \in 0 .. l
      BY <1>1, <1>9, WrittenIs
    <2>2. PICK h : h = Agent!Half(l, 1)
      OBVIOUS
    <2>3. PICK line1 : line1 = <<h>>
      OBVIOUS
    <2>4. Held(Written) = line1 /\ Agent!Heard = Known(up, l - 1, line1)
      BY <2>1, <2>2, <2>3, TokensOfLine DEF After
    <2>5. line1 # <<>> /\ line1[1] = h /\ h.line = l /\ ~Agent!Complete(line1)
      BY <2>2, <2>3 DEF Agent!Complete, Agent!Half
    <2>6. PICK raw : raw = Agent!At("raw_unparseable", l)
      OBVIOUS
    <2>7. raw \in Events /\ raw.kind = "raw_unparseable"
      <3>1. l \in 0 .. MaxLines
        BY <1>1, <2>1, AgentAssumption DEF AgentTypes
      <3> QED BY <2>6, <3>1 DEF Agent!At, Events, EventKinds
    <2>8. PICK t : t = <<raw>>
      OBVIOUS
    <2>9. t \in Seq(Events) /\ \A kind, else : kind # "raw_unparseable" => Agent!LastOf(t, kind, else) = else
      BY <2>7, <2>8, LastOfOne, OneOrTwo
    <2>10. PICK e \in Seq(Events) : e = up[l - 1]
      BY <1>4, <2>1
    <2>11. PICK whole \in Seq(Events) : whole = e \o t
      BY <2>9, ConcatProperties
    <2>12. PICK r, x, o : /\ r = Agent!LastOf(e, "result", 0) /\ x = Agent!LastOf(e, "assistant_text", 0)
                          /\ o = Agent!LastOf(e, "tool_use", 0)
      OBVIOUS
    <2>13. PICK f \in 0 .. MaxLines : f = IF provider = "codex" THEN Agent!LastMessage((l - 1) + 1) ELSE 0
      BY <1>5, <2>1
    <2>14. Agent!Heard = [buffer |-> line1, events |-> e, result |-> r, text |-> x, outcome |-> o, final |-> f,
                          model |-> model]
      BY <2>4, <2>10, <2>12, <2>13 DEF Known
    <2>15. PICK s : s = Agent!HandleLine(Agent!Heard, buffer)
      OBVIOUS
    <2>16. s = Agent!Listened(Agent!Heard, t)
      BY <1>2, <2>4, <2>5, <2>6, <2>8, <2>15 DEF Agent!HandleLine
    <2>17. s = [buffer |-> line1, events |-> whole, result |-> r, text |-> x, outcome |-> o, final |-> f,
                model |-> model]
      <3>1. /\ r = Agent!LastOf(t, "result", r) /\ x = Agent!LastOf(t, "assistant_text", x)
            /\ o = Agent!LastOf(t, "tool_use", o)
        BY <2>9
      <3>2. PICK g : g = Agent!Heard
        OBVIOUS
      <3>3. g = [buffer |-> line1, events |-> e, result |-> r, text |-> x, outcome |-> o, final |-> f,
                 model |-> model]
        BY <2>14, <3>2
      <3>4. g.events = e /\ g.result = r /\ g.text = x /\ g.outcome = o
        BY <3>3
      <3>5. s = [g EXCEPT !.events = e \o t, !.result = Agent!LastOf(t, "result", r),
                          !.text = Agent!LastOf(t, "assistant_text", x),
                          !.outcome = Agent!LastOf(t, "tool_use", o)]
        BY <2>16, <3>2, <3>4 DEF Agent!Listened
      <3>6. s = [g EXCEPT !.events = whole, !.result = r, !.text = x, !.outcome = o]
        BY <2>11, <3>1, <3>5
      <3> QED BY <3>3, <3>6
    <2>18. Agent!Rest = [buffer |-> <<>>, events |-> whole, result |-> r, text |-> x, outcome |-> o, final |-> f,
                         model |-> model]
      <3>1. PICK y : y = <<>>
        OBVIOUS
      <3>2. [s EXCEPT !.buffer = y] = [buffer |-> y, events |-> whole, result |-> r, text |-> x, outcome |-> o,
                                       final |-> f, model |-> model]
        BY <2>17, Emptied
      <3>3. Agent!Rest = [s EXCEPT !.buffer = y]
        BY <2>15, <3>1 DEF Agent!Rest
      <3> QED BY <3>1, <3>2, <3>3
    <2>19. /\ r = Agent!LastOf(whole, "result", 0) /\ x = Agent!LastOf(whole, "assistant_text", 0)
           /\ o = Agent!LastOf(whole, "tool_use", 0)
      BY <2>9, <2>11, <2>12, LastOfTwo
    <2>20. PICK all : all = [n \in 0 .. l |-> IF n = l THEN whole ELSE up[n]]
      OBVIOUS
    <2>21. /\ all \in [0 .. l -> Seq(Events)] /\ all[l] = whole /\ all[0] = <<>>
           /\ \A n \in 0 .. l - 1 : all[n] = up[n]
      <3>1. /\ all \in [0 .. l -> Seq(Events)]
            /\ \A n \in 0 .. l : all[n] = IF n = l THEN whole ELSE up[n]
        <4>1. \A n \in 0 .. l : up[n] \in Seq(Events)
          BY <1>4
        <4>2. whole \in Seq(Events)
          OBVIOUS
        <4> QED BY <2>20, <4>1, <4>2
      <3>2. 0 \in 0 .. l /\ l \in 0 .. l /\ 0 # l /\ \A n \in 0 .. l - 1 : n \in 0 .. l /\ n # l
        BY <2>1
      <3>3. all[0] = up[0] /\ all[l] = whole /\ \A n \in 0 .. l - 1 : all[n] = up[n]
        BY <3>1, <3>2
      <3>4. all[0] = <<>>
        BY <1>4, <3>3
      <3> QED BY <3>1, <3>3, <3>4
    <2>22. ASSUME NEW n \in 1 .. l PROVE all[n] = all[n - 1] \o Agent!Meant(n)
      <3>1. CASE n = l
        <4>1. Agent!Meant(n) = t
          BY <1>1, <1>9, <2>6, <2>8, <3>1 DEF Agent!Meant
        <4>2. n - 1 \in 0 .. l - 1
          OBVIOUS
        <4> QED BY <2>10, <2>11, <2>21, <3>1, <4>1, <4>2
      <3>2. CASE n # l
        <4>1. n \in 0 .. l - 1 /\ n - 1 \in 0 .. l - 1
          BY <3>2
        <4> QED BY <1>3, <1>4, <2>21, <3>2, <4>1
      <3> QED BY <3>1, <3>2
    <2>23. Sums(all)
      BY <1>1, <2>21, <2>22 DEF Sums
    <2> QED BY <1>1, <2>13, <2>18, <2>19, <2>21, <2>23
  <1> QED BY <1>7, <1>8, <1>9, WrittenIs

LEMMA SumsStay == ASSUME UNCHANGED <<said, provider, open>>, NEW all, Sums(all) PROVE Sums(all)'
  <1>1. \A n : Agent!Meant(n)' = Agent!Meant(n)
    <2>1. \A n : Agent!LastMessage(n)' = Agent!LastMessage(n)
      BY SameLines
    <2> QED BY <2>1 DEF Agent!Meant, Agent!Normalized, Agent!At
  <1> QED BY <1>1 DEF Sums, Events

LEMMA CloseKeeps == ASSUME AgentIInv, NEW found \in BOOLEAN, Agent!Close(found) PROVE AgentIInv'
  <1> DEFINE looked == Agent!Listened([Agent!Rest EXCEPT !.model = TRUE], <<Agent!At("system", 0)>>)
  <1>1. /\ child \in {"ok", "bad"} /\ pipe = <<>> /\ UNCHANGED <<provider, said, open, pipe>>
    BY DEF Agent!Close
  <1>2. PICK s : /\ s = IF Agent!MustLook /\ found THEN looked ELSE Agent!Rest
                 /\ Agent!Becomes(s) /\ Agent!Exit(child, s)
    BY DEF Agent!Close
  <1>3. AgentTypes
    BY DEF AgentIInv
  <1>4. PICK up, c : Tells(up) /\ Unread(c) /\ Agent!Heard = After(up, c)
    BY <1>1 DEF AgentIInv, Follows
  <1>5. PICK l \in Nat : l = Len(said)
    BY <1>3, WrittenIs
  <1>6. c = Written
    <2>1. Len(pipe) = 0
      BY <1>1
    <2>2. c \in Nat /\ Written \in Nat /\ Written - c = 0
      BY <1>3, <1>4, <2>1, UnreadIs, WrittenIs
    <2> QED BY <2>2
  <1>7. PICK all, f : /\ Sums(all) /\ f \in 0 .. MaxLines
                      /\ Agent!Rest = [buffer |-> <<>>, events |-> all[l],
                          result |-> Agent!LastOf(all[l], "result", 0),
                          text |-> Agent!LastOf(all[l], "assistant_text", 0),
                          outcome |-> Agent!LastOf(all[l], "tool_use", 0),
                          final |-> f, model |-> model]
    BY <1>3, <1>4, <1>5, <1>6, RestSums
  <1>8. PICK whole \in Seq(Events) : whole = all[l]
    BY <1>5, <1>7 DEF Sums
  <1>9. PICK r, x, o : /\ r = Agent!LastOf(whole, "result", 0) /\ x = Agent!LastOf(whole, "assistant_text", 0)
                       /\ o = Agent!LastOf(whole, "tool_use", 0)
    OBVIOUS
  <1>10. Agent!Rest = [buffer |-> <<>>, events |-> whole, result |-> r, text |-> x, outcome |-> o, final |-> f,
                       model |-> model]
    BY <1>7, <1>8, <1>9
  <1>11. /\ s.final = f /\ s.result = r /\ s.text = x /\ s.outcome = o
         /\ \E extra \in {<<>>, <<Agent!At("system", 0)>>} : s.events = whole \o extra
    <2>1. CASE s = Agent!Rest
      <3>1. whole \o <<>> = whole
        BY ConcatEmptySeq
      <3> QED BY <1>10, <2>1, <3>1
    <2>2. CASE s = looked
      <3>1. Agent!At("system", 0) \in Events /\ Agent!At("system", 0).kind = "system"
        BY AgentAssumption DEF Agent!At, Events, EventKinds
      <3>2. PICK one : one = <<Agent!At("system", 0)>>
        OBVIOUS
      <3>3. \A kind, else : kind # "system" => Agent!LastOf(one, kind, else) = else
        BY <3>1, <3>2, LastOfOne
      <3>4. PICK q : q = [Agent!Rest EXCEPT !.model = TRUE]
        OBVIOUS
      <3>5. q = [buffer |-> <<>>, events |-> whole, result |-> r, text |-> x, outcome |-> o, final |-> f,
                 model |-> TRUE]
        BY <1>10, <3>4
      <3>6. s = Agent!Listened(q, one)
        BY <2>2, <3>2, <3>4
      <3>7. s.final = f /\ s.result = r /\ s.text = x /\ s.outcome = o /\ s.events = whole \o one
        BY <3>3, <3>5, <3>6 DEF Agent!Listened
      <3> QED BY <3>2, <3>7
    <2> HIDE DEF looked
    <2> QED BY <1>2, <2>1, <2>2
  <1>12. /\ events' = s.events /\ lastResult' = r /\ lastText' = x /\ outcome' = o /\ final' = f
    BY <1>2, <1>11 DEF Agent!Becomes
  <1>13. /\ child' = "closed" /\ agentPid' = FALSE /\ settled' \in {"resolved", "rejected"}
         /\ settled' = "rejected" => reason' = IF r # 0 THEN r ELSE x
         /\ settled' # "rejected" => reason' = 0
    BY <1>1, <1>2, <1>11 DEF Agent!Exit
  <1>14. Summed(whole)'
    BY <1>9, <1>11, <1>12, <1>13 DEF Summed, Agent!At
  <1>15. Sums(all)' /\ whole = all[Len(said')]
    BY <1>1, <1>5, <1>7, <1>8, SumsStay
  <1>16. Over'
    BY <1>1, <1>7, <1>12, <1>13, <1>14, <1>15 DEF Over
  <1>17. r \in 0 .. MaxLines /\ x \in 0 .. MaxLines /\ MaxLines \in Nat
    BY <1>9, LastOfTypes, AgentAssumption
  <1>18. AgentTypes'
    <2>1. reason' \in 0 .. MaxLines
      BY <1>13, <1>17
    <2> QED BY <1>1, <1>3, <1>13, <2>1 DEF AgentTypes
  <1> QED BY <1>13, <1>16, <1>18 DEF AgentIInv

LEMMA AgentStep == ASSUME AgentIInv, [Agent!Next]_(Agent!vars) PROVE AgentIInv'
  <1>1. ASSUME NEW kind \in Agent!LineKinds, Agent!BeginLine(kind) PROVE AgentIInv'
    BY <1>1, BeginLineKeeps
  <1>2. CASE Agent!GoOn
    BY <1>2, GoOnKeeps
  <1>3. ASSUME NEW how \in {"ok", "bad"}, Agent!Ends(how) PROVE AgentIInv'
    BY <1>3, EndsKeeps
  <1>4. ASSUME NEW n, Agent!Data(n) PROVE AgentIInv'
    BY <1>4, DataKeeps
  <1>5. ASSUME NEW found \in BOOLEAN, Agent!Close(found) PROVE AgentIInv'
    BY <1>5, CloseKeeps
  <1>6. CASE Agent!SpawnError
    BY <1>6, SpawnErrorKeeps
  <1>7. CASE UNCHANGED Agent!vars
    <2>1. UNCHANGED <<provider, said, open, pipe, child, buffer, final, model, events,
                      lastResult, lastText, outcome, agentPid, settled, reason>>
      BY <1>7 DEF Agent!vars
    <2>2. AgentTypes'
      BY <2>1 DEF AgentIInv, AgentTypes
    <2>3. child' # "closed" => Follows'
      BY <2>1, FollowsStays DEF AgentIInv
    <2>4. child' = "closed" => Over'
      <3>1. SUFFICES ASSUME child = "closed" PROVE Over'
        BY <2>1
      <3>2. PICK all : Sums(all) /\ Summed(all[Len(said)])
        BY <3>1 DEF AgentIInv, Over
      <3>3. Sums(all)'
        BY <2>1, <3>2, SumsStay
      <3>4. PICK whole : whole = all[Len(said)] /\ whole = all[Len(said')]
        BY <2>1
      <3>5. Summed(whole)'
        BY <2>1, <3>2, <3>4 DEF Summed, Agent!At
      <3> QED BY <2>1, <3>1, <3>3, <3>4, <3>5 DEF AgentIInv, Over
    <2> QED BY <2>1, <2>2, <2>3, <2>4 DEF AgentIInv
  <1> QED BY <1>1, <1>2, <1>3, <1>4, <1>5, <1>6, <1>7 DEF Agent!Next

LEMMA HeardWhenOver == ASSUME AgentIInv PROVE Agent!AgentIsHeard
  <1>1. AgentTypes /\ MaxLines \in Nat
    BY AgentAssumption DEF AgentIInv
  <1>2. PICK l \in Nat : l = Len(said)
    BY <1>1, WrittenIs
  <1>3. CASE child = "closed"
    <2>1. PICK all : Sums(all) /\ Summed(all[l])
      BY <1>2, <1>3 DEF AgentIInv, Over
    <2>2. PICK whole \in Seq(Events) : whole = all[l]
      BY <1>2, <2>1 DEF Sums
    <2>3. Agent!Output = whole
      BY <1>2, <2>1, <2>2, OutputIs
    <2>4. \A kind : Agent!LastOf(whole, kind, 0) \in 0 .. MaxLines /\ Agent!LastLine(kind) = Agent!LastOf(whole, kind, 0)
      BY <2>3, LastOfTypes DEF Agent!LastLine
    <2>5. Summed(whole) /\ final \in 0 .. MaxLines
      BY <1>3, <2>1, <2>2 DEF AgentIInv, Over
    <2>6. {lastResult, lastText, outcome, final, reason} \subseteq 0 .. MaxLines
      BY <1>1, <2>4, <2>5 DEF Summed, AgentTypes
    <2>7. Agent!TypeOK
      <3>1. \A i \in 1 .. Len(said) : said[i] \in Agent!LineKinds
        BY <1>1, SaidTypes
      <3> QED BY <1>1, <2>6, <3>1 DEF AgentTypes, Agent!TypeOK
    <2> QED BY <1>3, <2>3, <2>4, <2>5, <2>7 DEF Summed, Agent!AgentIsHeard
  <1>4. CASE child # "closed"
    <2>1. PICK up, c : Tells(up) /\ Unread(c) /\ Agent!Heard = After(up, c)
      BY <1>4 DEF AgentIInv, Follows
    <2>2. PICK k \in 0 .. l : k = c \div 3 /\ k + 1 \in 1 .. Len(said) + 1
      <3>1. PICK w \in Nat : w = Written /\ w <= 3 * l
        BY <1>1, <1>2, WrittenIs
      <3>2. c \in Nat /\ c <= 3 * l
        BY <2>1, <3>1 DEF Unread
      <3> QED BY <1>2, <3>2
    <2>3. PICK e \in Seq(Events) : e = up[k]
      BY <1>2, <2>1, <2>2 DEF Tells
    <2>4. /\ lastResult = Agent!LastOf(e, "result", 0) /\ lastText = Agent!LastOf(e, "assistant_text", 0)
          /\ outcome = Agent!LastOf(e, "tool_use", 0)
          /\ final = IF provider = "codex" THEN Agent!LastMessage(k + 1) ELSE 0
      BY <2>1, <2>2, <2>3 DEF Agent!Heard, After, Known
    <2>5. {lastResult, lastText, outcome, final, reason} \subseteq 0 .. MaxLines
      <3>1. final \in 0 .. MaxLines
        BY <1>1, <2>2, <2>4, MessageTypes
      <3>2. lastResult \in 0 .. MaxLines /\ lastText \in 0 .. MaxLines /\ outcome \in 0 .. MaxLines
        BY <2>4, LastOfTypes
      <3> QED BY <1>1, <3>1, <3>2 DEF AgentTypes
    <2>6. \A i \in 1 .. Len(said) : said[i] \in Agent!LineKinds
      BY <1>1, SaidTypes
    <2>7. Agent!TypeOK
      BY <1>1, <2>5, <2>6 DEF AgentTypes, Agent!TypeOK
    <2>8. settled \in {"no", "not started"} /\ (child = "alive" => agentPid)
      BY <1>4 DEF AgentIInv
    <2> QED BY <2>7, <2>8 DEF Agent!AgentIsHeard
  <1> QED BY <1>3, <1>4

\* When the run of an agent is over all it wrote has been passed on, once and in order,
\* however the pipe cut it, and the outcome and the reason are those of its last words
\* (claude-runner.js:688-780, codex.js:249-312, review-job.js:185-227).
THEOREM AgentsAreHeard == Spec => []AgentIsHeard
  <1>1. Init => (part = "agent" => AgentIInv)
    BY AgentInit DEF Init
  <1>2. (part = "agent" => AgentIInv) /\ [Next]_parts => (part = "agent" => AgentIInv)'
    <2> SUFFICES ASSUME part = "agent" => AgentIInv, [Next]_parts, part' = "agent" PROVE AgentIInv'
      OBVIOUS
    <2>1. part = "agent" /\ AgentIInv
      BY PartStays
    <2> QED BY <2>1, AgentMoves, AgentStep
  <1>3. (part = "agent" => AgentIInv) => AgentIsHeard
    BY HeardWhenOver DEF AgentIsHeard
  <1> QED BY <1>1, <1>2, <1>3, PTL DEF Spec, parts
=============================================================================

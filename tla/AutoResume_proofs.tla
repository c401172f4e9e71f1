--------------------------- MODULE AutoResume_proofs ---------------------------
(***************************************************************************)
(* The timed pass of lib/auto-resume.js, for any number of reviews and     *)
(* pushes, with every fault of the module.                                 *)
(***************************************************************************)
EXTENDS AutoResume, TLAPS

Asked == pass.stage \in {"deciding", "resuming"}

\* persistJob writes at once, so a restart finds the marker as it was.
WrittenAtOnce == file = job

\* No record knows a head GitHub did not have.
HeadsExist ==
    \A p \in Prs : job[p].marker <= head[p] /\ job[p].reviewed <= head[p]

\* Seen from head h of p, a head that was followed up is the marker's or older
\* than h.
OldOrMarked(p, h) ==
    \A f \in followed[p] : f <= h /\ (f = job[p].marker \/ f < h)

\* What the pass was told of the head is as recent as any follow-up.
PassIsRecent ==
    Asked => /\ pass.pr \in Prs /\ pass.head \in 0 .. head[pass.pr]
             /\ OldOrMarked(pass.pr, pass.head)

MarkedBefore ==
    pass.stage = "resuming" => /\ job[pass.pr].marker = pass.head
                               /\ pass.head \notin followed[pass.pr]

\* Unless its resume is still to come, or a crash came instead, the head a marker
\* names was read by the run that has begun or ended.
ReadSince ==
    \A p \in Prs \ cut :
        /\ job[p].state \in {"reading", "done", "approved"}
        /\ ~(pass.stage = "resuming" /\ pass.pr = p)
        => job[p].marker <= job[p].reviewed

OnceInv ==
    /\ WrittenAtOnce /\ HeadsExist
    /\ \A p \in Prs : OldOrMarked(p, head[p])
    /\ PassIsRecent /\ MarkedBefore /\ OncePerHead

IInv == TypeOK /\ OnceInv /\ ReadSince
-----------------------------------------------------------------------------
Passes ==
    [stage : {"off", "asking", "deciding", "resuming"}, todo : SUBSET Prs,
     pr : Prs \cup {None}, head : Heads \cup {NoHead}, live : BOOLEAN]

\* A record that keeps its fields' types but for one.
LEMMA RecordsMove ==
  ASSUME TypeOK, NEW p \in Prs
  PROVE  /\ \A s \in States : [job[p] EXCEPT !.state = s] \in Records
         /\ \A m \in Heads \cup {NoHead} : [job[p] EXCEPT !.marker = m] \in Records
         /\ \A h \in Heads : [job[p] EXCEPT !.state = "reading", !.reviewed = h] \in Records
  <1>1. job[p] \in [state : States, reviewed : Heads, marker : Heads \cup {NoHead}]
    BY DEF TypeOK, Records
  <1>2. \A s \in States : [job[p] EXCEPT !.state = s] \in Records
    BY <1>1 DEF Records
  <1>3. \A m \in Heads \cup {NoHead} : [job[p] EXCEPT !.marker = m] \in Records
    BY <1>1 DEF Records
  <1>4. \A h \in Heads : [job[p] EXCEPT !.state = "reading", !.reviewed = h] \in Records
    <2>1. "reading" \in States
      BY DEF States
    <2> QED BY <1>1, <2>1 DEF Records
  <1> QED BY <1>2, <1>3, <1>4

LEMMA PersistedTypes ==
  ASSUME TypeOK, NEW p \in Prs, NEW r \in Records, Persisted(p, r)
  PROVE  /\ job' \in [Prs -> Records] /\ file' \in [Prs -> Records]
         /\ listed' \in SUBSET Prs /\ stored' \in SUBSET Prs
  BY DEF TypeOK, Persisted

LEMMA TypesInit == ASSUME Init PROVE TypeOK
  <1> USE DEF Init
  <1>1. head \in [Prs -> Heads]
    BY AutoResumeAssumption DEF AutoResumeAssumption, Heads
  <1>2. [state |-> "done", reviewed |-> 0, marker |-> NoHead] \in Records
    BY AutoResumeAssumption DEF AutoResumeAssumption, Heads, Records, States
  <1>3. job \in [Prs -> Records] /\ file \in [Prs -> Records]
    BY <1>2
  <1>4. pass \in Passes
    BY DEF NoPass, Passes
  <1> QED BY <1>1, <1>3, <1>4 DEF TypeOK, Passes

\* The pass, when it goes on to what is left of its candidates.
LEMMA NextTypes ==
  ASSUME TypeOK, NextCandidate
  PROVE  pass' \in Passes
  <1>1. pass' = [stage |-> "asking", todo |-> pass.todo, pr |-> None, head |-> NoHead, live |-> FALSE]
    BY DEF NextCandidate, NoPass
  <1>2. pass.todo \in SUBSET Prs
    BY DEF TypeOK
  <1> QED BY <1>1, <1>2 DEF Passes

LEMMA BegunTypes ==
  ASSUME TypeOK, Begun
  PROVE  pass' \in Passes /\ pass'.stage \in {"off", "asking"}
  <1>1. Candidates \in SUBSET Prs
    BY DEF TypeOK, Candidates
  <1>2. pass' = NoPass \/ pass' = [stage |-> "asking", todo |-> Candidates, pr |-> None,
                                  head |-> NoHead, live |-> FALSE]
    BY DEF Begun, NoPass
  <1>3. CASE pass' = NoPass
    BY <1>3 DEF NoPass, Passes
  <1>4. CASE pass' = [stage |-> "asking", todo |-> Candidates, pr |-> None,
                      head |-> NoHead, live |-> FALSE]
    BY <1>1, <1>4 DEF Passes
  <1> QED BY <1>2, <1>3, <1>4

\* What people, GitHub and the runs do to a review and its pull request.
LEMMA TypesWorld ==
  ASSUME TypeOK, NEW p \in Prs,
         \/ Push(p) \/ Close(p) \/ ApprovalChanges(p) \/ ResumeByHand(p)
         \/ RunReads(p) \/ RunEnds(p) \/ Delete(p)
  PROVE  TypeOK'
  <1> USE DEF github, records, timer, history
  <1>1. CASE Push(p)
    BY <1>1, AutoResumeAssumption DEF Push, TypeOK, Heads, AutoResumeAssumption
  <1>2. CASE Close(p) \/ ApprovalChanges(p)
    BY <1>2 DEF Close, ApprovalChanges, TypeOK
  <1>3. CASE ResumeByHand(p)
    <2>1. [job[p] EXCEPT !.state = "queued"] \in Records
      BY RecordsMove DEF States
    <2> QED BY <1>3, <2>1, PersistedTypes DEF ResumeByHand, TypeOK
  <1>4. CASE RunReads(p)
    <2>1. [job[p] EXCEPT !.state = "reading", !.reviewed = head[p]] \in Records
      BY RecordsMove DEF TypeOK
    <2> QED BY <1>4, <2>1, PersistedTypes DEF RunReads, TypeOK
  <1>5. CASE RunEnds(p)
    <2>1. PICK s \in {"done", "approved", "failed"} : Persisted(p, [job[p] EXCEPT !.state = s])
      BY <1>5 DEF RunEnds
    <2>2. [job[p] EXCEPT !.state = s] \in Records
      BY RecordsMove DEF States
    <2> QED BY <1>5, <2>1, <2>2, PersistedTypes DEF RunEnds, TypeOK
  <1>6. CASE Delete(p)
    BY <1>6 DEF Delete, TypeOK
  <1> QED BY <1>1, <1>2, <1>3, <1>4, <1>5, <1>6

LEMMA TypesTimer ==
  ASSUME TypeOK, \/ AdmissionChanges \/ TimerFires \/ CheckNow
                 \/ \E b \in BOOLEAN : Configure(b)
  PROVE  TypeOK'
  <1> USE DEF github, records, timer, history
  <1>1. CASE AdmissionChanges
    BY <1>1 DEF AdmissionChanges, TypeOK
  <1>2. CASE TimerFires
    <2>1. pass' \in Passes
      BY <1>2, BegunTypes DEF TimerFires, TypeOK, Passes
    <2>2. armed' \in BOOLEAN /\ chained' \in BOOLEAN
      BY <1>2 DEF TimerFires, TypeOK
    <2> QED BY <1>2, <2>1, <2>2 DEF TimerFires, TypeOK, Passes
  <1>3. CASE CheckNow
    BY <1>3, BegunTypes DEF CheckNow, TypeOK, Passes
  <1>4. ASSUME NEW b \in BOOLEAN, Configure(b) PROVE TypeOK'
    BY <1>4 DEF Configure, TypeOK
  <1> QED BY <1>1, <1>2, <1>3, <1>4

LEMMA TypesPass == ASSUME TypeOK, PassIsRecent, PassStep PROVE TypeOK'
  <1> USE DEF github, records, timer, history
  <1>1. ASSUME NEW p \in Prs, Ask(p) PROVE TypeOK'
    <2>1. pass' \in Passes
      BY <1>1 DEF Ask, TypeOK, Passes
    <2> QED BY <1>1, <2>1 DEF Ask, TypeOK, Passes
  <1>2. ASSUME NEW p \in Prs, AskFails(p) PROVE TypeOK'
    <2>1. pass' \in Passes
      BY <1>2 DEF AskFails, TypeOK, Passes
    <2> QED BY <1>2, <2>1 DEF AskFails, TypeOK, Passes
  <1>3. ASSUME NEW p \in Prs, Resume(p) PROVE TypeOK'
    <2>1. [job[p] EXCEPT !.state = "queued"] \in Records
      BY RecordsMove DEF States
    <2>2. job' \in [Prs -> Records] /\ file' \in [Prs -> Records]
          /\ listed' \in SUBSET Prs /\ stored' \in SUBSET Prs
      BY <1>3, <2>1, PersistedTypes DEF Resume
    <2>3. pass' \in Passes
      BY <1>3, NextTypes DEF Resume
    <2>4. pass.head \in Heads
      BY <1>3, AutoResumeAssumption
      DEF Resume, Asked, PassIsRecent, TypeOK, Heads, AutoResumeAssumption
    <2>5. followed' \in [Prs -> SUBSET Heads] /\ twice' \in BOOLEAN
      BY <1>3, <2>4 DEF Resume, TypeOK
    <2> QED BY <1>3, <2>2, <2>3, <2>5 DEF Resume, TypeOK, Passes
  <1>4. CASE Skip
    BY <1>4, NextTypes DEF Skip, TypeOK, Passes
  <1>5. CASE Mark
    <2> DEFINE p == pass.pr
    <2>1. p \in Prs /\ pass.head \in Heads \cup {NoHead}
      BY <1>5 DEF Mark, PassIsRecent, Asked, TypeOK
    <2>2. [job[p] EXCEPT !.marker = NoHead] \in Records
          /\ [job[p] EXCEPT !.marker = pass.head] \in Records
      BY <2>1, RecordsMove
    <2>3. job' \in [Prs -> Records] /\ file' \in [Prs -> Records]
          /\ listed' \in SUBSET Prs /\ stored' \in SUBSET Prs
      BY <1>5, <2>1, <2>2, PersistedTypes DEF Mark
    <2>4. pass' \in Passes
      <3>1. CASE NextCandidate
        BY <3>1, NextTypes
      <3>2. CASE pass' = [pass EXCEPT !.stage = "resuming"]
        BY <3>2 DEF TypeOK, Passes
      <3> QED BY <1>5, <3>1, <3>2 DEF Mark
    <2> QED BY <1>5, <2>3, <2>4 DEF Mark, TypeOK, Passes
  <1>6. CASE Refused
    <2>1. pass.pr \in Prs
      BY <1>6 DEF Refused, PassIsRecent, Asked
    <2>2. [job[pass.pr] EXCEPT !.marker = NoHead] \in Records
      BY <2>1, RecordsMove
    <2> QED BY <1>6, <2>1, <2>2, PersistedTypes, NextTypes DEF Refused, TypeOK, Passes
  <1>7. CASE PassEnds
    BY <1>7 DEF PassEnds, TypeOK, NoPass
  <1> QED BY <1>1, <1>2, <1>3, <1>4, <1>5, <1>6, <1>7 DEF PassStep

-----------------------------------------------------------------------------
(* The follow-ups.                                                         *)

\* A step that leaves markers, reviewed heads, follow-ups and GitHub's heads
\* alone, and takes the pass nowhere new.
LEMMA OnceKept ==
  ASSUME TypeOK, OnceInv, file' = job',
         \A p \in Prs : job'[p].marker = job[p].marker /\ job'[p].reviewed = job[p].reviewed,
         head' = head, followed' = followed, twice' = twice,
         pass' = pass \/ pass'.stage \in {"off", "asking"}
  PROVE  OnceInv'
  BY DEF OnceInv, WrittenAtOnce, HeadsExist, OldOrMarked, PassIsRecent, MarkedBefore, OncePerHead, Asked, TypeOK

LEMMA OnceWorld ==
  ASSUME TypeOK, OnceInv, NEW p \in Prs,
         \/ Push(p) \/ Close(p) \/ ApprovalChanges(p) \/ ResumeByHand(p)
         \/ RunReads(p) \/ RunEnds(p) \/ Delete(p)
  PROVE  OnceInv'
  <1> USE DEF github, records, timer, history
  <1>1. CASE Push(p)
    <2>1. /\ head' = [head EXCEPT ![p] = head[p] + 1] /\ head[p] \in Nat
          /\ UNCHANGED <<job, file, pass, followed, twice>>
      BY <1>1 DEF Push, TypeOK, Heads
    <2>2. \A q \in Prs : head[q] \in Nat /\ head[q] <= head'[q]
      BY <2>1 DEF TypeOK, Heads
    <2>3. \A q \in Prs : /\ job[q].marker \in Int /\ job[q].reviewed \in Int
                         /\ \A f \in followed[q] : f \in Nat
      BY DEF TypeOK, Records, Heads, NoHead
    <2>4. WrittenAtOnce' /\ MarkedBefore' /\ OncePerHead'
      BY <2>1 DEF OnceInv, WrittenAtOnce, MarkedBefore, OncePerHead
    <2>5. HeadsExist'
      BY <2>1, <2>2, <2>3 DEF OnceInv, HeadsExist
    <2>6. \A q \in Prs : OldOrMarked(q, head[q])'
      BY <2>1, <2>2, <2>3 DEF OnceInv, OldOrMarked
    <2>7. PassIsRecent'
      BY <2>1, <2>2 DEF OnceInv, PassIsRecent, OldOrMarked, Asked
    <2> QED BY <2>4, <2>5, <2>6, <2>7 DEF OnceInv
  <1>2. CASE Close(p) \/ ApprovalChanges(p)
    BY <1>2, OnceKept DEF Close, ApprovalChanges, OnceInv, WrittenAtOnce
  <1>3. CASE ResumeByHand(p)
    BY <1>3, OnceKept DEF ResumeByHand, Persisted, OnceInv, WrittenAtOnce, TypeOK, Records
  <1>4. CASE RunReads(p)
    <2>1. /\ job' = [job EXCEPT ![p] = [job[p] EXCEPT !.state = "reading", !.reviewed = head[p]]]
          /\ file' = [file EXCEPT ![p] = [job[p] EXCEPT !.state = "reading", !.reviewed = head[p]]]
          /\ UNCHANGED <<head, pass, followed, twice>>
      BY <1>4 DEF RunReads, Persisted
    <2>2. \A q \in Prs : /\ job'[q].marker = job[q].marker
                         /\ job'[q].reviewed = job[q].reviewed \/ job'[q].reviewed = head[q]
      BY <2>1 DEF TypeOK, Records
    <2>3. WrittenAtOnce' /\ HeadsExist'
      BY <2>1, <2>2 DEF OnceInv, WrittenAtOnce, HeadsExist, TypeOK, Heads
    <2>4. /\ \A q \in Prs : OldOrMarked(q, head[q])'
          /\ PassIsRecent' /\ MarkedBefore' /\ OncePerHead'
      BY <2>1, <2>2 DEF OnceInv, OldOrMarked, PassIsRecent, MarkedBefore, OncePerHead, Asked
    <2> QED BY <2>3, <2>4 DEF OnceInv
  <1>5. CASE RunEnds(p)
    <2>1. PICK s \in {"done", "approved", "failed"} : Persisted(p, [job[p] EXCEPT !.state = s])
      BY <1>5 DEF RunEnds
    <2> QED BY <1>5, <2>1, OnceKept DEF RunEnds, Persisted, OnceInv, WrittenAtOnce, TypeOK, Records
  <1>6. CASE Delete(p)
    BY <1>6, OnceKept DEF Delete, OnceInv, WrittenAtOnce
  <1> QED BY <1>1, <1>2, <1>3, <1>4, <1>5, <1>6

LEMMA OnceTimer ==
  ASSUME TypeOK, OnceInv, \/ AdmissionChanges \/ TimerFires \/ CheckNow
                          \/ \E b \in BOOLEAN : Configure(b)
  PROVE  OnceInv'
  <1> USE DEF github, records, timer, history
  <1>1. Begun => pass'.stage \in {"off", "asking"}
    BY BegunTypes
  <1>2. /\ UNCHANGED <<job, file, head, followed, twice>>
        /\ pass' = pass \/ pass'.stage \in {"off", "asking"}
    BY <1>1 DEF AdmissionChanges, TimerFires, CheckNow, Configure
  <1> QED BY <1>2, OnceKept DEF OnceInv, WrittenAtOnce

LEMMA OncePass == ASSUME TypeOK, OnceInv, PassStep PROVE OnceInv'
  <1> USE DEF github, records, timer, history
  <1>1. ASSUME NEW p \in Prs, Ask(p) PROVE OnceInv'
    <2>1. /\ pass'.stage = "deciding" /\ pass'.pr = p /\ pass'.head = head[p]
          /\ UNCHANGED <<head, job, file, followed, twice>>
      BY <1>1 DEF Ask
    <2>2. head[p] \in 0 .. head[p]
      BY DEF TypeOK, Heads
    <2>3. PassIsRecent'
      BY <2>1, <2>2 DEF OnceInv, PassIsRecent, OldOrMarked
    <2> QED BY <2>1, <2>3
            DEF OnceInv, WrittenAtOnce, HeadsExist, OldOrMarked, MarkedBefore, OncePerHead
  <1>2. ASSUME NEW p \in Prs, AskFails(p) PROVE OnceInv'
    BY <1>2, OnceKept DEF AskFails, OnceInv, WrittenAtOnce, TypeOK
  <1>3. ASSUME NEW p \in Prs, Resume(p) PROVE OnceInv'
    <2>1. /\ pass.stage = "resuming" /\ pass.pr = p /\ pass'.stage = "asking"
          /\ job' = [job EXCEPT ![p] = [job[p] EXCEPT !.state = "queued"]]
          /\ file' = [file EXCEPT ![p] = [job[p] EXCEPT !.state = "queued"]]
          /\ followed' = [followed EXCEPT ![p] = followed[p] \cup {pass.head}]
          /\ twice' = (twice \/ pass.head \in followed[p]) /\ head' = head
      BY <1>3 DEF Resume, Persisted, NextCandidate, NoPass
    <2>2. /\ job[p].marker = pass.head /\ pass.head \notin followed[p]
          /\ pass.head <= head[p]
      BY <2>1 DEF OnceInv, MarkedBefore, PassIsRecent, Asked
    <2>3. \A q \in Prs : job'[q].marker = job[q].marker /\ job'[q].reviewed = job[q].reviewed
      BY <2>1 DEF TypeOK, Records
    <2>4. WrittenAtOnce' /\ HeadsExist' /\ PassIsRecent' /\ MarkedBefore' /\ OncePerHead'
      BY <2>1, <2>2, <2>3
      DEF OnceInv, WrittenAtOnce, HeadsExist, PassIsRecent, Asked, MarkedBefore, OncePerHead
    <2>5. \A q \in Prs : OldOrMarked(q, head[q])'
      BY <2>1, <2>2, <2>3 DEF OnceInv, OldOrMarked, TypeOK
    <2> QED BY <2>4, <2>5 DEF OnceInv
  <1>4. CASE Skip
    BY <1>4, OnceKept DEF Skip, NextCandidate, NoPass, OnceInv, WrittenAtOnce
  <1>5. CASE Mark
    <2> DEFINE p == pass.pr
    <2>1. /\ pass.stage = "deciding" /\ p \in Prs /\ pass.head # job[p].marker
          /\ pass.head \in 0 .. head[p] /\ OldOrMarked(p, pass.head)
      BY <1>5 DEF Mark, AlreadyFollowed, OnceInv, PassIsRecent, Asked
    <2>2. UNCHANGED <<head, followed, twice>>
      BY <1>5 DEF Mark
    <2>3. \A f \in followed[p] : f < pass.head /\ f < head[p]
      BY <2>1 DEF OldOrMarked, TypeOK, Heads
    <2>4. PICK m \in {NoHead, pass.head} : Persisted(p, [job[p] EXCEPT !.marker = m])
      BY <1>5 DEF Mark
    <2>5. /\ job' = [job EXCEPT ![p] = [job[p] EXCEPT !.marker = m]]
          /\ file' = [file EXCEPT ![p] = [job[p] EXCEPT !.marker = m]]
      BY <2>4 DEF Persisted
    <2>6. /\ job'[p].marker = m /\ \A q \in Prs \ {p} : job'[q].marker = job[q].marker
          /\ \A q \in Prs : job'[q].reviewed = job[q].reviewed
      BY <2>1, <2>5 DEF TypeOK, Records
    <2>7. m <= head[p]
      BY <2>1, <2>4 DEF NoHead, TypeOK, Heads
    <2>8. WrittenAtOnce' /\ HeadsExist' /\ OncePerHead'
      BY <2>1, <2>2, <2>5, <2>6, <2>7 DEF OnceInv, WrittenAtOnce, HeadsExist, OncePerHead
    <2>9. \A q \in Prs : OldOrMarked(q, head[q])'
      BY <2>2, <2>3, <2>6 DEF OnceInv, OldOrMarked
    <2>10. PassIsRecent' /\ MarkedBefore'
      <3>1. CASE NextCandidate
        <4>1. pass'.stage = "asking"
          BY <3>1 DEF NextCandidate, NoPass
        <4> QED BY <4>1 DEF PassIsRecent, MarkedBefore, Asked
      <3>2. CASE /\ pass' = [pass EXCEPT !.stage = "resuming"]
                 /\ Persisted(p, [job[p] EXCEPT !.marker = pass.head])
        <4>1. pass'.stage = "resuming" /\ pass'.pr = p /\ pass'.head = pass.head
          BY <3>2 DEF TypeOK
        <4>2. job'[p].marker = pass.head
          BY <2>1, <3>2 DEF Persisted, TypeOK, Records
        <4> QED BY <2>1, <2>2, <2>3, <4>1, <4>2 DEF PassIsRecent, MarkedBefore, Asked, OldOrMarked
      <3> QED BY <1>5, <3>1, <3>2 DEF Mark
    <2> QED BY <2>8, <2>9, <2>10 DEF OnceInv
  <1>6. CASE Refused
    <2> DEFINE p == pass.pr
    <2>1. /\ pass.stage = "resuming" /\ p \in Prs /\ OldOrMarked(p, pass.head)
          /\ pass.head \in 0 .. head[p]
          /\ job[p].marker = pass.head /\ pass.head \notin followed[p]
      BY <1>6 DEF Refused, OnceInv, PassIsRecent, MarkedBefore, Asked
    <2>2. /\ job' = [job EXCEPT ![p] = [job[p] EXCEPT !.marker = NoHead]]
          /\ file' = [file EXCEPT ![p] = [job[p] EXCEPT !.marker = NoHead]]
          /\ pass'.stage = "asking" /\ UNCHANGED <<head, followed, twice>>
      BY <1>6 DEF Refused, Persisted, NextCandidate, NoPass
    <2>3. \A f \in followed[p] : f < head[p]
      BY <2>1 DEF OldOrMarked, TypeOK, Heads
    <2>4. /\ job'[p].marker = NoHead /\ \A q \in Prs \ {p} : job'[q].marker = job[q].marker
          /\ \A q \in Prs : job'[q].reviewed = job[q].reviewed
      BY <2>1, <2>2 DEF TypeOK, Records
    <2>5. HeadsExist'
      BY <2>2, <2>4 DEF OnceInv, HeadsExist, NoHead, TypeOK, Heads
    <2>6. \A q \in Prs : OldOrMarked(q, head[q])'
      BY <2>2, <2>3, <2>4 DEF OnceInv, OldOrMarked
    <2> QED BY <2>2, <2>5, <2>6
            DEF OnceInv, WrittenAtOnce, PassIsRecent, MarkedBefore, OncePerHead, Asked
  <1>7. CASE PassEnds
    BY <1>7, OnceKept DEF PassEnds, NoPass, OnceInv, WrittenAtOnce
  <1> QED BY <1>1, <1>2, <1>3, <1>4, <1>5, <1>6, <1>7 DEF PassStep

\* A restart finds every record as it was, but for the state of an active one.
LEMMA CrashRecords ==
  ASSUME TypeOK, OnceInv, Crash
  PROVE  job' \in [Prs -> Records] /\ file' = job' /\ pass' = NoPass
  <1>1. \A p \in Prs : [file[p] EXCEPT !.state = "interrupted"] \in Records
    BY RecordsMove DEF OnceInv, WrittenAtOnce, States
  <1>2. \A p \in Prs : file[p] \in Records
    BY DEF TypeOK
  <1> QED BY <1>1, <1>2 DEF Crash

LEMMA CrashKeeps ==
  ASSUME TypeOK, OnceInv, Crash, NEW p \in Prs
  PROVE  /\ job'[p].marker = job[p].marker
         /\ job'[p].reviewed = job[p].reviewed
         /\ job'[p].state = job[p].state \/ job'[p].state = "interrupted"
  <1>1. job[p] \in [state : States, reviewed : Heads, marker : Heads \cup {NoHead}]
    BY DEF TypeOK, Records
  <1>2. job'[p] = job[p] \/ job'[p] = [job[p] EXCEPT !.state = "interrupted"]
    BY DEF Crash, OnceInv, WrittenAtOnce
  <1> QED BY <1>1, <1>2

LEMMA OnceStep == ASSUME TypeOK, OnceInv, [Next]_vars PROVE OnceInv'
  <1>1. CASE Crash
    <2>1. UNCHANGED <<head, followed, twice>> /\ pass'.stage = "off"
      BY <1>1, CrashRecords DEF Crash, github, NoPass
    <2>2. /\ file' = job'
          /\ \A p \in Prs : job'[p].marker = job[p].marker /\ job'[p].reviewed = job[p].reviewed
      BY <1>1, CrashKeeps, CrashRecords
    <2> QED BY <2>1, <2>2, OnceKept
  <1>2. CASE UNCHANGED vars
    <2>1. UNCHANGED <<job, file, head, pass, followed, twice>>
      BY <1>2 DEF vars, github, records, history
    <2> QED BY <2>1, OnceKept DEF OnceInv, WrittenAtOnce
  <1> QED BY <1>1, <1>2, OnceWorld, OnceTimer, OncePass DEF Next

LEMMA TypesStep == ASSUME TypeOK, OnceInv, [Next]_vars PROVE TypeOK'
  <1>1. CASE Crash
    <2>1. pass' \in Passes
      <3>1. pass' = NoPass
        BY <1>1, CrashRecords
      <3> QED BY <3>1 DEF NoPass, Passes
    <2>2. cut' \in SUBSET Prs
      BY <1>1 DEF Crash, OnceInv, PassIsRecent, Asked, TypeOK
    <2>3. job' \in [Prs -> Records] /\ file' \in [Prs -> Records]
      BY <1>1, CrashRecords
    <2> QED BY <1>1, <2>1, <2>2, <2>3 DEF Crash, TypeOK, Passes, github
  <1>2. CASE UNCHANGED vars
    BY <1>2 DEF vars, github, records, timer, history, TypeOK
  <1> QED BY <1>1, <1>2, TypesWorld, TypesTimer, TypesPass DEF Next, OnceInv

-----------------------------------------------------------------------------
(* The runs behind the markers.                                            *)

\* A step that makes no run read or end, moves no marker and takes the pass from
\* no resume.
LEMMA ReadKept ==
  ASSUME TypeOK, ReadSince, cut \subseteq cut',
         \A p \in Prs : /\ job'[p].marker = job[p].marker
                        /\ job'[p].reviewed = job[p].reviewed
                        /\ \/ job'[p].state = job[p].state
                           \/ job'[p].state \in {"queued", "failed", "interrupted"},
         pass.stage = "resuming" => \/ pass' = pass
                                    \/ pass.pr \in cut'
  PROVE  ReadSince'
  BY DEF ReadSince

LEMMA ReadWorld ==
  ASSUME TypeOK, OnceInv, ReadSince, NEW p \in Prs,
         \/ Push(p) \/ Close(p) \/ ApprovalChanges(p) \/ ResumeByHand(p)
         \/ RunReads(p) \/ RunEnds(p) \/ Delete(p)
  PROVE  ReadSince'
  <1> USE DEF github, records, timer, history
  <1>1. CASE Push(p) \/ Close(p) \/ ApprovalChanges(p) \/ Delete(p)
    BY <1>1, ReadKept DEF Push, Close, ApprovalChanges, Delete
  <1>2. CASE ResumeByHand(p)
    BY <1>2, ReadKept DEF ResumeByHand, Persisted, TypeOK, Records
  <1>3. CASE RunReads(p)
    <2>1. /\ job' = [job EXCEPT ![p] = [job[p] EXCEPT !.state = "reading", !.reviewed = head[p]]]
          /\ UNCHANGED <<pass, cut>>
      BY <1>3 DEF RunReads, Persisted
    <2>2. job'[p].reviewed = head[p] /\ \A q \in Prs : job'[q].marker = job[q].marker
      BY <2>1 DEF TypeOK, Records
    <2>3. \A q \in Prs \ {p} : job'[q] = job[q]
      BY <2>1 DEF TypeOK
    <2> QED BY <2>1, <2>2, <2>3 DEF ReadSince, OnceInv, HeadsExist
  <1>4. CASE RunEnds(p)
    <2>1. PICK s \in {"done", "approved", "failed"} :
            Persisted(p, [job[p] EXCEPT !.state = s]) /\ (job[p].state = "queued" => s = "failed")
      BY <1>4 DEF RunEnds
    <2>2. /\ job' = [job EXCEPT ![p] = [job[p] EXCEPT !.state = s]]
          /\ UNCHANGED <<pass, cut>>
      BY <1>4, <2>1 DEF RunEnds, Persisted
    <2>3. /\ job'[p].state = s /\ \A q \in Prs \ {p} : job'[q] = job[q]
          /\ \A q \in Prs : job'[q].marker = job[q].marker /\ job'[q].reviewed = job[q].reviewed
      BY <2>2 DEF TypeOK, Records
    <2>4. s = "failed" \/ job[p].state = "reading"
      BY <1>4, <2>1 DEF RunEnds, IsActive
    <2> QED BY <2>2, <2>3, <2>4 DEF ReadSince
  <1> QED BY <1>1, <1>2, <1>3, <1>4

LEMMA ReadPass == ASSUME TypeOK, OnceInv, ReadSince, PassStep PROVE ReadSince'
  <1> USE DEF github, records, timer, history
  <1>1. ASSUME NEW p \in Prs, Ask(p) \/ AskFails(p) PROVE ReadSince'
    BY <1>1, ReadKept DEF Ask, AskFails
  <1>2. ASSUME NEW p \in Prs, Resume(p) PROVE ReadSince'
    <2>1. /\ pass.pr = p /\ cut' = cut
          /\ job' = [job EXCEPT ![p] = [job[p] EXCEPT !.state = "queued"]]
      BY <1>2 DEF Resume, Persisted
    <2>2. job'[p].state = "queued" /\ \A q \in Prs \ {p} : job'[q] = job[q]
      BY <2>1 DEF TypeOK, Records
    <2> QED BY <2>1, <2>2 DEF ReadSince
  <1>3. CASE Skip \/ PassEnds
    BY <1>3, ReadKept DEF Skip, PassEnds
  <1>4. CASE Mark
    <2> DEFINE p == pass.pr
    <2>1. /\ pass.stage = "deciding" /\ p \in Prs /\ cut' = cut
      BY <1>4 DEF Mark, OnceInv, PassIsRecent, Asked
    <2>2. ASSUME NEW m \in Heads \cup {NoHead}, Persisted(p, [job[p] EXCEPT !.marker = m])
          PROVE  /\ job'[p].marker = m
                 /\ \A q \in Prs \ {p} : job'[q] = job[q]
                 /\ job'[p].reviewed \in Heads
      BY <2>1, <2>2 DEF Persisted, TypeOK, Records
    <2>3. CASE Persisted(p, [job[p] EXCEPT !.marker = NoHead])
      <3>1. /\ job'[p].marker = NoHead /\ job'[p].reviewed \in Heads
            /\ \A q \in Prs \ {p} : job'[q] = job[q]
        BY <2>2, <2>3
      <3>2. NoHead <= job'[p].reviewed
        BY <3>1, AutoResumeAssumption DEF NoHead, Heads, AutoResumeAssumption
      <3> QED BY <2>1, <3>1, <3>2 DEF ReadSince
    <2>4. CASE /\ pass' = [pass EXCEPT !.stage = "resuming"]
               /\ Persisted(p, [job[p] EXCEPT !.marker = pass.head])
      <3>1. pass'.stage = "resuming" /\ pass'.pr = p
        BY <2>4 DEF TypeOK
      <3>2. \A q \in Prs \ {p} : job'[q] = job[q]
        BY <2>2, <2>4 DEF TypeOK
      <3> QED BY <2>1, <3>1, <3>2 DEF ReadSince
    <2> QED BY <1>4, <2>3, <2>4 DEF Mark
  <1>5. CASE Refused
    <2> DEFINE p == pass.pr
    <2>1. p \in Prs /\ cut' = cut /\ job' = [job EXCEPT ![p] = [job[p] EXCEPT !.marker = NoHead]]
      BY <1>5 DEF Refused, Persisted, OnceInv, PassIsRecent, Asked
    <2>2. /\ job'[p].marker = NoHead /\ job'[p].reviewed \in Heads
          /\ \A q \in Prs \ {p} : job'[q] = job[q]
      BY <2>1 DEF TypeOK, Records
    <2>3. NoHead <= job'[p].reviewed
      BY <2>2, AutoResumeAssumption DEF NoHead, Heads, AutoResumeAssumption
    <2> QED BY <2>1, <2>2, <2>3 DEF ReadSince
  <1> QED BY <1>1, <1>2, <1>3, <1>4, <1>5 DEF PassStep

LEMMA ReadStep == ASSUME TypeOK, OnceInv, ReadSince, [Next]_vars PROVE ReadSince'
  <1>1. CASE AdmissionChanges \/ \E b \in BOOLEAN : Configure(b)
    BY <1>1, ReadKept DEF AdmissionChanges, Configure, records, history
  <1>2. CASE TimerFires \/ CheckNow
    <2>1. UNCHANGED <<job, cut>> /\ (pass' = pass \/ pass = NoPass)
      BY <1>2 DEF TimerFires, CheckNow, records, history
    <2> QED BY <2>1, ReadKept DEF NoPass
  <1>3. CASE Crash
    <2>1. cut \subseteq cut' /\ (pass.stage = "resuming" => pass.pr \in cut')
      BY <1>3 DEF Crash
    <2>2. \A p \in Prs : /\ job'[p].marker = job[p].marker
                        /\ job'[p].reviewed = job[p].reviewed
                        /\ \/ job'[p].state = job[p].state
                           \/ job'[p].state \in {"queued", "failed", "interrupted"}
      BY <1>3, CrashKeeps
    <2> QED BY <2>1, <2>2, ReadKept
  <1>4. CASE UNCHANGED vars
    BY <1>4, ReadKept DEF vars, records, history
  <1> QED BY <1>1, <1>2, <1>3, <1>4, ReadWorld, ReadPass DEF Next

-----------------------------------------------------------------------------
(* The timer.                                                              *)

LEMMA ScheduledStep == ASSUME AlwaysScheduled, [Next]_vars PROVE AlwaysScheduled'
  <1> USE DEF AlwaysScheduled, timer
  <1>1. pass.stage = "asking" \/ pass.stage = "deciding" \/ pass.stage = "resuming" => pass # NoPass
    BY DEF NoPass
  <1>2. ASSUME UNCHANGED timer, pass' # NoPass \/ pass' = pass PROVE AlwaysScheduled'
    BY <1>2
  <1>3. CASE TimerFires
    BY <1>3 DEF TimerFires
  <1>4. CASE CheckNow
    BY <1>4 DEF CheckNow
  <1>5. CASE PassEnds
    <2>1. chained \/ ~chained
      OBVIOUS
    <2>2. CASE chained
      BY <1>5, <2>2 DEF PassEnds
    <2>3. CASE ~chained
      BY <1>5, <2>3 DEF PassEnds
    <2> QED BY <2>1, <2>2, <2>3
  <1>6. CASE Crash
    BY <1>6 DEF Crash
  <1>7. ASSUME NEW b \in BOOLEAN, Configure(b) PROVE AlwaysScheduled'
    BY <1>7 DEF Configure
  <1>8. ASSUME pass'.stage \in {"asking", "deciding", "resuming"} PROVE pass' # NoPass
    BY <1>8 DEF NoPass
  <1>9. NextCandidate => pass' # NoPass
    <2>1. NextCandidate => pass'.stage = "asking"
      BY DEF NextCandidate, NoPass
    <2> QED BY <2>1, <1>8
  <1>10. ASSUME NEW p \in Prs, Ask(p) \/ AskFails(p) \/ Resume(p) PROVE AlwaysScheduled'
    <2>1. CASE Ask(p)
      BY <1>2, <1>8, <2>1 DEF Ask
    <2>2. CASE AskFails(p)
      <3>1. pass' # NoPass \/ pass' = pass
        BY <1>8, <2>2 DEF AskFails
      <3> QED BY <1>2, <2>2, <3>1 DEF AskFails
    <2>3. CASE Resume(p)
      <3>1. UNCHANGED timer /\ NextCandidate
        BY <2>3 DEF Resume
      <3> QED BY <1>2, <1>9, <3>1
    <2> QED BY <1>10, <2>1, <2>2, <2>3
  <1>11. CASE Skip \/ Refused
    <2>1. UNCHANGED timer /\ NextCandidate
      BY <1>11 DEF Skip, Refused
    <2> QED BY <1>2, <1>9, <2>1
  <1>12. CASE Mark
    <2>1. UNCHANGED timer
      BY <1>12 DEF Mark
    <2>2. NextCandidate \/ pass' = [pass EXCEPT !.stage = "resuming"]
      BY <1>12 DEF Mark
    <2>3. CASE NextCandidate
      BY <1>2, <1>9, <2>1, <2>3
    <2>4. CASE pass' = [pass EXCEPT !.stage = "resuming"]
      BY <1>2, <2>1, <2>4 DEF NoPass
    <2> QED BY <2>2, <2>3, <2>4
  <1>13. CASE UNCHANGED vars \/ AdmissionChanges
    BY <1>2, <1>13 DEF vars, AdmissionChanges
  <1>14. ASSUME NEW p \in Prs, \/ Push(p) \/ Close(p) \/ ApprovalChanges(p) \/ ResumeByHand(p) \/ RunReads(p)
                             \/ RunEnds(p) \/ Delete(p)
        PROVE  AlwaysScheduled'
    BY <1>2, <1>14 DEF Push, Close, ApprovalChanges, ResumeByHand, RunReads, RunEnds, Delete
  <1> QED BY <1>3, <1>4, <1>5, <1>6, <1>7, <1>10, <1>11, <1>12, <1>13, <1>14 DEF Next, PassStep

-----------------------------------------------------------------------------
LEMMA InvInit == ASSUME Init PROVE IInv
  <1>1. TypeOK
    BY TypesInit
  <1>2. \A p \in Prs : job[p].marker = -1 /\ job[p].reviewed = 0 /\ head[p] = 0
    BY DEF Init, NoHead
  <1>3. OnceInv
    BY <1>2 DEF Init, OnceInv, WrittenAtOnce, HeadsExist, OldOrMarked, PassIsRecent,
                MarkedBefore, OncePerHead, Asked, NoPass
  <1>4. ReadSince
    BY <1>2 DEF ReadSince
  <1> QED BY <1>1, <1>3, <1>4 DEF IInv

LEMMA InvAlways == Spec => []IInv
  <1>1. IInv /\ [Next]_vars => IInv'
    BY TypesStep, OnceStep, ReadStep DEF IInv
  <1> QED BY <1>1, InvInit, PTL DEF Spec

\* "One automatic follow-up per pushed head" (maybeResume's marker): whatever is
\* pushed, refused, resumed by hand, removed or crashed in between.
THEOREM FollowsUpOnce == Spec => []OncePerHead
  <1>1. IInv => OncePerHead
    BY DEF IInv, OnceInv
  <1> QED BY <1>1, InvAlways, PTL

\* The timer chain of schedule and pollOnce never breaks while the watch is on.
THEOREM ChecksGoOn == Spec => []AlwaysScheduled
  <1>1. Init => AlwaysScheduled
    BY DEF Init, AlwaysScheduled
  <1> QED BY <1>1, ScheduledStep, PTL DEF Spec

\* A marker on the head of an open review hides no push: the pass goes on, and a
\* finished review whose marker names its head has read that head.
THEOREM PushesAreSeen == Spec => []NoPushForgotten
  <1>1. IInv /\ AlwaysScheduled => NoPushForgotten
    <2> SUFFICES ASSUME IInv, AlwaysScheduled, NEW p \in listed \ cut,
                        job[p].state = "done", job[p].marker = head[p], pass.pr # p
                 PROVE  job[p].reviewed = head[p]
      BY DEF IInv, NoPushForgotten
    <2>1. p \in Prs \ cut /\ job[p].reviewed \in Int /\ head[p] \in Int
      BY AutoResumeAssumption DEF IInv, TypeOK, Records, Heads, AutoResumeAssumption
    <2>2. job[p].reviewed <= head[p]
      BY <2>1 DEF IInv, OnceInv, HeadsExist
    <2>3. job[p].marker <= job[p].reviewed
      BY <2>1 DEF IInv, ReadSince
    <2> QED BY <2>1, <2>2, <2>3
  <1> QED BY <1>1, InvAlways, ChecksGoOn, PTL
================================================================================

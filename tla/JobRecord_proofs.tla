---------------------------- MODULE JobRecord_proofs ----------------------------
(***************************************************************************)
(* One review's record and its file (persistJob, pushEvent, DELETE,        *)
(* hydrateJobs of server.js), for any number of agents' pids, any number   *)
(* of file operations in flight, and whether or not the thread pool serves *)
(* them in order.                                                          *)
(***************************************************************************)
EXTENDS JobRecord, SequenceTheorems, TLAPS

\* A file with this content would show the review as the server does.
Matches(r) == r.state = job.state /\ (job.pid # NoPid => r.pid = job.pid)

\* Carried out by itself, the operation would make the file show what is listed.
Shows(op) == IF op.kind = "write" THEN listed /\ Matches(op.snap) ELSE ~listed

Pending ==
    /\ ~up => ops = <<>>
    /\ \A i \in DOMAIN ops : ops[i].stage # "issued" => ops[i].kind = "write"

NewestShows == ~stale => \A i \in DOMAIN ops : ops[i].newest => Shows(ops[i])

\* What DiskCatchesUp says, of what the host was last shown when it is down.
FileShows ==
    current /\ ~stale =>
        \/ disk = Garbled
        \/ ~listed /\ disk = Absent
        \/ listed /\ disk \in Records /\ Matches(disk)

\* There is no file and none was removed: there never was a review.
NothingYet ==
    current /\ disk = Absent /\ ~removed =>
        ~listed /\ held = "no" /\ late = {} /\ alive = {}

\* Up or down, the record knows every agent that has not escaped; after a crash
\* that left a file that is behind or garbled all have.
AgentsKnown ==
    /\ \A p \in alive : p = job.pid \/ p \in escaped
    /\ ~up /\ (~current \/ stale \/ disk = Garbled) => alive \subseteq escaped

IInv == /\ TypeOK /\ Pending /\ NewestShows /\ FileShows /\ NothingYet
        /\ AgentsKnown /\ ActiveIsRunHere

-----------------------------------------------------------------------------
(* File operations.                                                        *)

LEMMA WriteIssued ==
  ASSUME NEW r \in Records
  PROVE  /\ Issued("write", r) \in Ops
         /\ Issued("write", r).kind = "write" /\ Issued("write", r).snap = r
         /\ Issued("write", r).stage = "issued"
  BY DEF Issued, Ops

LEMMA RemovalIssued ==
  ASSUME NEW r \in Records
  PROVE  /\ Issued("rm", r) \in Ops
         /\ Issued("rm", r).kind = "rm" /\ Issued("rm", r).stage = "issued"
  BY DEF Issued, Ops

LEMMA AgedOp ==
  ASSUME NEW op \in Ops
  PROVE  /\ [op EXCEPT !.newest = FALSE] \in Ops
         /\ [op EXCEPT !.newest = FALSE].kind = op.kind
         /\ [op EXCEPT !.newest = FALSE].stage = op.stage
         /\ ~[op EXCEPT !.newest = FALSE].newest
  BY DEF Ops

LEMMA AgedFacts ==
  ASSUME NEW queue \in Seq(Ops)
  PROVE  /\ Aged(queue) \in Seq(Ops) /\ Len(Aged(queue)) = Len(queue)
         /\ \A i \in 1 .. Len(queue) :
              /\ Aged(queue)[i].kind = queue[i].kind
              /\ Aged(queue)[i].stage = queue[i].stage
              /\ ~Aged(queue)[i].newest
  <1>1. \A i \in 1 .. Len(queue) : /\ [queue[i] EXCEPT !.newest = FALSE] \in Ops
                                   /\ [queue[i] EXCEPT !.newest = FALSE].kind = queue[i].kind
                                   /\ [queue[i] EXCEPT !.newest = FALSE].stage = queue[i].stage
                                   /\ ~[queue[i] EXCEPT !.newest = FALSE].newest
    BY AgedOp
  <1>2. Aged(queue) = [i \in 1 .. Len(queue) |-> [queue[i] EXCEPT !.newest = FALSE]]
    BY DEF Aged
  <1>3. \A i \in 1 .. Len(queue) : Aged(queue)[i] = [queue[i] EXCEPT !.newest = FALSE]
    BY <1>2
  <1>4. Aged(queue) \in Seq(Ops) /\ Len(Aged(queue)) = Len(queue)
    BY <1>1, <1>2
  <1> QED BY <1>1, <1>3, <1>4

\* What is left when one is done are operations that were there.
LEMMA RemoveAtFacts ==
  ASSUME NEW queue \in Seq(Ops), NEW i \in 1 .. Len(queue)
  PROVE  /\ RemoveAt(queue, i) \in Seq(Ops)
         /\ \A k \in DOMAIN RemoveAt(queue, i) :
              \E m \in 1 .. Len(queue) : RemoveAt(queue, i)[k] = queue[m]
  <1>0. PICK s, t : s = SubSeq(queue, 1, i - 1) /\ t = SubSeq(queue, i + 1, Len(queue))
    OBVIOUS
  <1>1. /\ s \in Seq(Ops) /\ Len(s) = i - 1
        /\ \A k \in 1 .. i - 1 : s[k] = queue[k]
    BY <1>0, SubSeqProperties
  <1>2. /\ t \in Seq(Ops) /\ Len(t) = Len(queue) - i
        /\ \A k \in 1 .. Len(queue) - i : t[k] = queue[i + k]
    BY <1>0, SubSeqProperties
  <1>3. RemoveAt(queue, i) = s \o t
    BY <1>0 DEF RemoveAt
  <1>4. /\ s \o t \in Seq(Ops) /\ Len(s \o t) = Len(queue) - 1
        /\ \A k \in 1 .. Len(queue) - 1 : (s \o t)[k] = IF k <= i - 1 THEN s[k] ELSE t[k - (i - 1)]
    <2>1. Len(s) + Len(t) = Len(queue) - 1 /\ Len(s) = i - 1
      BY <1>1, <1>2
    <2>2. /\ s \o t \in Seq(Ops) /\ Len(s \o t) = Len(s) + Len(t)
          /\ \A k \in 1 .. Len(s) + Len(t) : (s \o t)[k] = IF k <= Len(s) THEN s[k] ELSE t[k - Len(s)]
      BY <1>1, <1>2, ConcatProperties
    <2> QED BY <2>1, <2>2
  <1>5. \A k \in 1 .. Len(queue) - 1 : \E m \in 1 .. Len(queue) : (s \o t)[k] = queue[m]
    <2> TAKE k \in 1 .. Len(queue) - 1
    <2>1. CASE k <= i - 1
      BY <1>1, <1>4, <2>1
    <2>2. CASE ~(k <= i - 1)
      <3>1. k - (i - 1) \in 1 .. Len(queue) - i
        BY <2>2
      <3>2. PICK m \in 1 .. Len(queue) : m = i + (k - (i - 1))
        BY <2>2
      <3>3. (s \o t)[k] = queue[m]
        BY <1>2, <1>4, <2>2, <3>1, <3>2
      <3> QED BY <3>2, <3>3
    <2> QED BY <2>1, <2>2
  <1>6. DOMAIN (s \o t) = 1 .. Len(queue) - 1
    BY <1>4
  <1> QED BY <1>3, <1>4, <1>5, <1>6

\* n writes of the record r: the newest operations are among them.
LEMMA WritesFacts ==
  ASSUME NEW n \in 0 .. 2, NEW r \in Records, ops \in Seq(Ops),
         current \in BOOLEAN, Writes(n, r)
  PROVE  /\ disk' = disk /\ ops' \in Seq(Ops) /\ current' \in BOOLEAN
         /\ n = 0 => ops' = ops /\ current' = current
         /\ n # 0 => /\ ~current'
                     /\ \A k \in DOMAIN ops' : ops'[k].newest => ops'[k].kind = "write" /\ ops'[k].snap = r
         /\ \A k \in DOMAIN ops' : ops'[k].stage # "issued" =>
               \E m \in DOMAIN ops : ops[m].kind = ops'[k].kind /\ ops[m].stage = ops'[k].stage
  <1>1. CASE n = 0
    BY <1>1 DEF Writes
  <1>2. CASE n # 0
    <2>0. PICK s, t : s = Aged(ops) /\ t = [i \in 1 .. n |-> Issued("write", r)]
      OBVIOUS
    <2>1. /\ s \in Seq(Ops) /\ Len(s) = Len(ops)
          /\ \A i \in 1 .. Len(ops) : /\ s[i].kind = ops[i].kind
                                      /\ s[i].stage = ops[i].stage
                                      /\ ~s[i].newest
      BY <2>0, AgedFacts
    <2>2. \A i \in 1 .. n : t[i] \in Ops /\ t[i].kind = "write" /\ t[i].snap = r /\ t[i].stage = "issued"
      BY <2>0, WriteIssued
    <2>3. t \in Seq(Ops) /\ Len(t) = n
      BY <2>0, <2>2
    <2>4. /\ s \o t \in Seq(Ops) /\ Len(s \o t) = Len(ops) + n
          /\ \A k \in 1 .. Len(ops) + n : (s \o t)[k] = IF k <= Len(ops) THEN s[k] ELSE t[k - Len(ops)]
      BY <2>1, <2>3, ConcatProperties
    <2>5. ops' = s \o t /\ disk' = disk /\ ~current' /\ current' \in BOOLEAN
      BY <1>2, <2>0 DEF Writes
    <2>6. ASSUME NEW k \in 1 .. Len(ops) + n
          PROVE  \/ k \in 1 .. Len(ops) /\ ops'[k] = s[k]
                 \/ \E i \in 1 .. n : ops'[k] = t[i]
      <3>1. CASE k <= Len(ops)
        BY <2>4, <2>5, <3>1
      <3>2. CASE k > Len(ops)
        <4>1. k - Len(ops) \in 1 .. n
          BY <3>2
        <4> QED BY <2>4, <2>5, <3>2, <4>1
      <3> QED BY <3>1, <3>2
    <2>7. DOMAIN ops' = 1 .. Len(ops) + n /\ DOMAIN ops = 1 .. Len(ops)
      BY <2>4, <2>5
    <2>8. \A k \in DOMAIN ops' : ops'[k].newest => ops'[k].kind = "write" /\ ops'[k].snap = r
      BY <2>1, <2>2, <2>6, <2>7
    <2>9. \A k \in DOMAIN ops' : ops'[k].stage # "issued" =>
            \E m \in DOMAIN ops : ops[m].kind = ops'[k].kind /\ ops[m].stage = ops'[k].stage
      BY <2>1, <2>2, <2>6, <2>7
    <2> QED BY <1>2, <2>4, <2>5, <2>8, <2>9
  <1> QED BY <1>1, <1>2

\* What the thread pool does to an operation that stays in flight.
Continues(new, old) ==
    /\ new.kind = old.kind /\ new.snap = old.snap /\ new.newest = old.newest
    /\ new.stage # "issued" => old.stage # "issued" \/ old.kind = "write"

LEMMA OpSteps ==
  ASSUME NEW op \in Ops, NEW new,
         \/ new = op
         \/ new = [op EXCEPT !.stage = "open", !.mixed = TRUE] /\ op.kind = "write"
         \/ new = [op EXCEPT !.stage = "open", !.mixed = FALSE] /\ op.kind = "write"
         \/ new = [op EXCEPT !.mixed = TRUE]
         \/ new = [op EXCEPT !.stage = "dangling"] /\ op.stage = "open"
  PROVE  new \in Ops /\ Continues(new, op)
  BY DEF Ops, Continues

LEMMA OpenFacts ==
  ASSUME ops \in Seq(Ops), NEW i \in DOMAIN ops, Open(i)
  PROVE  /\ ops' \in Seq(Ops) /\ DOMAIN ops' = DOMAIN ops
         /\ \A k \in DOMAIN ops : Continues(ops'[k], ops[k])
         /\ disk' = Torn /\ ~current' /\ current' \in BOOLEAN /\ removed' = removed
  <1>0. PICK others : others = {k \in DOMAIN ops : ops[k].stage = "open"}
    OBVIOUS
  <1>1. /\ DOMAIN ops' = DOMAIN ops
        /\ \A k \in DOMAIN ops :
             \/ ops'[k] = ops[k]
             \/ k = i /\ ops'[k] = [ops[k] EXCEPT !.stage = "open", !.mixed = TRUE]
             \/ k = i /\ ops'[k] = [ops[k] EXCEPT !.stage = "open", !.mixed = FALSE]
             \/ ops'[k] = [ops[k] EXCEPT !.mixed = TRUE]
    BY <1>0 DEF Open
  <1>2. ops[i].kind = "write" /\ disk' = Torn /\ ~current' /\ current' \in BOOLEAN /\ removed' = removed
    BY DEF Open
  <1>3. \A k \in DOMAIN ops : ops'[k] \in Ops /\ Continues(ops'[k], ops[k])
    <2> TAKE k \in DOMAIN ops
    <2>1. ops[k] \in Ops
      OBVIOUS
    <2>2. k = i => ops[k].kind = "write"
      BY <1>2
    <2> QED BY <1>1, <2>1, <2>2, OpSteps
  <1>4. \E n \in Nat : DOMAIN ops = 1 .. n
    OBVIOUS
  <1>5. ops' = [k \in DOMAIN ops |-> ops'[k]]
    BY <1>1 DEF Open
  <1>6. ops' \in Seq(Ops)
    BY <1>3, <1>4, <1>5
  <1> QED BY <1>1, <1>2, <1>3, <1>6

LEMMA UnlinkFacts ==
  ASSUME ops \in Seq(Ops), NEW i \in DOMAIN ops, Unlink(i)
  PROVE  /\ ops' \in Seq(Ops)
         /\ \A k \in DOMAIN ops' : \E m \in DOMAIN ops : Continues(ops'[k], ops[m])
         /\ ops[i].kind = "rm" /\ disk' = Absent /\ removed'
         /\ current' = ops[i].newest
  <1>0. PICK left : left = [k \in DOMAIN ops |-> IF ops[k].stage = "open"
                                                THEN [ops[k] EXCEPT !.stage = "dangling"] ELSE ops[k]]
    OBVIOUS
  <1>1. DOMAIN ops = 1 .. Len(ops) /\ Len(ops) \in Nat
    OBVIOUS
  <1>2. \A k \in 1 .. Len(ops) :
          \/ left[k] = ops[k]
          \/ left[k] = [ops[k] EXCEPT !.stage = "dangling"] /\ ops[k].stage = "open"
    BY <1>0, <1>1
  <1>3. \A k \in 1 .. Len(ops) : left[k] \in Ops /\ Continues(left[k], ops[k])
    <2> TAKE k \in 1 .. Len(ops)
    <2>1. ops[k] \in Ops
      BY <1>1
    <2> QED BY <1>2, <2>1, OpSteps
  <1>4. left \in Seq(Ops) /\ Len(left) = Len(ops)
    BY <1>0, <1>1, <1>3
  <1>5. /\ ops' = RemoveAt(left, i) /\ ops[i].kind = "rm" /\ disk' = Absent /\ removed'
        /\ current' = ops[i].newest
    BY <1>0 DEF Unlink
  <1>6. /\ RemoveAt(left, i) \in Seq(Ops)
        /\ \A k \in DOMAIN RemoveAt(left, i) :
             \E m \in 1 .. Len(left) : RemoveAt(left, i)[k] = left[m]
    BY <1>1, <1>4, RemoveAtFacts
  <1>7. \A k \in DOMAIN ops' : \E m \in DOMAIN ops : Continues(ops'[k], ops[m])
    BY <1>1, <1>3, <1>4, <1>5, <1>6
  <1> QED BY <1>4, <1>5, <1>6, <1>7

LEMMA DoneFacts ==
  ASSUME ops \in Seq(Ops), NEW i \in DOMAIN ops, ops' = RemoveAt(ops, i)
  PROVE  /\ ops' \in Seq(Ops)
         /\ \A k \in DOMAIN ops' : \E m \in DOMAIN ops : Continues(ops'[k], ops[m])
  <1>1. DOMAIN ops = 1 .. Len(ops)
    OBVIOUS
  <1>2. \A k \in DOMAIN ops' : \E m \in 1 .. Len(ops) : ops'[k] = ops[m]
    BY <1>1, RemoveAtFacts
  <1>3. ops' \in Seq(Ops)
    BY <1>1, RemoveAtFacts
  <1> QED BY <1>1, <1>2, <1>3 DEF Continues

\* The file shows what a newest operation has made of it, or a mixture.
LeftByNewest ==
    \E m \in DOMAIN ops :
        /\ ops[m].newest
        /\ IF ops[m].kind = "write" THEN disk' \in {ops[m].snap, Garbled}
           ELSE disk' = Absent /\ removed'

\* A step of the thread pool: what is in flight goes on; the file is as current as
\* it was, or is current because of a newest operation, or is not.
LEMMA FileFacts ==
  ASSUME TypeOK, Pending, FileStep
  PROVE  /\ ops' \in Seq(Ops) /\ up
         /\ \A k \in DOMAIN ops' : \E m \in DOMAIN ops : Continues(ops'[k], ops[m])
         /\ disk' \in Records \cup NoRecord
         /\ removed' \in BOOLEAN /\ (removed => removed')
         /\ current' \in BOOLEAN
         /\ current' => (current /\ disk' = disk) \/ LeftByNewest
  <1> USE DEF TypeOK
  <1>0. PICK i \in DOMAIN ops : Open(i) \/ Land(i) \/ Unlink(i) \/ Fail(i)
    BY DEF FileStep
  <1>1. ops \in Seq(Ops) /\ ops[i] \in Ops /\ up
    BY DEF FileStep
  <1>2. CASE Open(i)
    BY <1>1, <1>2, OpenFacts DEF NoRecord
  <1>3. CASE Fail(i)
    BY <1>1, <1>3, DoneFacts DEF Fail
  <1>4. CASE Unlink(i)
    <2>1. current' \in BOOLEAN
      BY <1>1, <1>4, UnlinkFacts DEF Ops
    <2>2. current' => LeftByNewest
      BY <1>1, <1>4, UnlinkFacts DEF LeftByNewest
    <2> QED BY <1>1, <1>4, <2>1, <2>2, UnlinkFacts DEF NoRecord
  <1>5. CASE Land(i)
    <2>1. ops[i].snap \in Records /\ ops[i].newest \in BOOLEAN
      BY <1>1 DEF Ops
    <2>2. ops[i].kind = "write"
      BY <1>5 DEF Land, Pending
    <2>3. ops' = RemoveAt(ops, i) /\ removed' = removed
      BY <1>5 DEF Land
    <2>4. \/ disk' = disk /\ current' = current
          \/ disk' \in {ops[i].snap, Garbled} /\ current' = ops[i].newest
      BY <1>5 DEF Land
    <2>5. current' => (current /\ disk' = disk) \/ LeftByNewest
      BY <2>2, <2>4 DEF LeftByNewest
    <2>6. disk' \in Records \cup NoRecord /\ current' \in BOOLEAN
      BY <2>1, <2>4 DEF NoRecord
    <2> QED BY <1>1, <2>3, <2>5, <2>6, DoneFacts
  <1> QED BY <1>0, <1>2, <1>3, <1>4, <1>5

-----------------------------------------------------------------------------
LEMMA TypeInit == ASSUME Init PROVE TypeOK
  BY EmptySeq DEF Init, TypeOK, Records, States, NoRecord

\* The record after one of the handlers, as long as its state and pid are of the
\* kind they should be.
LEMMA RecordFacts ==
  ASSUME job \in Records, NEW st \in States, NEW p \in Pids \cup {NoPid}
  PROVE  /\ [job EXCEPT !.state = st] \in Records /\ [job EXCEPT !.state = st].state = st
         /\ [job EXCEPT !.state = st].pid = job.pid
         /\ [job EXCEPT !.pid = p] \in Records /\ [job EXCEPT !.pid = p].pid = p
         /\ [job EXCEPT !.pid = p].state = job.state
         /\ [state |-> st, pid |-> p] \in Records
  BY DEF Records

\* The same of handlers, that write nothing for a review that is not listed.
LEMMA WrittenTypes ==
  ASSUME TypeOK, NEW n \in 0 .. 2, NEW r \in Records, Writes(n, r) \/ WritesIfListed(n, r)
  PROVE  ops' \in Seq(Ops) /\ disk' = disk /\ current' \in BOOLEAN
  <1>1. PICK m \in 0 .. 2 : Writes(m, r)
    BY DEF WritesIfListed
  <1> QED BY <1>1, WritesFacts DEF TypeOK

LEMMA TypeJobStep ==
  ASSUME TypeOK,
         \/ Create \/ Start \/ Phase \/ ResumeCommit \/ ApproveCommit \/ Delete
         \/ \E s \in {"done", "failed"} : Finish(s)
         \/ \E p \in Pids : AgentStarts(p) \/ AgentExits(p)
         \/ \E handler \in {"resume", "approve"} : Ask(handler) \/ Refused(handler)
  PROVE  TypeOK'
  <1> USE DEF TypeOK, States
  <1>1. CASE Create
    <2>1. job' \in Records
      BY <1>1, RecordFacts DEF Create
    <2>2. ops' \in Seq(Ops) /\ disk' = disk /\ current' \in BOOLEAN
      BY <1>1, <2>1, WrittenTypes DEF Create
    <2> QED BY <1>1, <2>1, <2>2 DEF Create
  <1>2. CASE Start
    <2>1. job' \in Records
      BY <1>2, RecordFacts DEF Start
    <2>2. ops' \in Seq(Ops) /\ disk' = disk /\ current' \in BOOLEAN
      BY <1>2, <2>1, WrittenTypes DEF Start
    <2> QED BY <1>2, <2>1, <2>2 DEF Start
  <1>3. CASE Phase
    <2>1. job' \in Records
      BY <1>3, RecordFacts DEF Phase
    <2>2. ops' \in Seq(Ops) /\ disk' = disk /\ current' \in BOOLEAN
      BY <1>3, <2>1, WrittenTypes DEF Phase
    <2> QED BY <1>3, <2>1, <2>2 DEF Phase
  <1>4. CASE ResumeCommit
    <2>1. job' \in Records
      BY <1>4, RecordFacts DEF ResumeCommit
    <2>2. ops' \in Seq(Ops) /\ disk' = disk /\ current' \in BOOLEAN
      BY <1>4, <2>1, WrittenTypes DEF ResumeCommit
    <2> QED BY <1>4, <2>1, <2>2 DEF ResumeCommit
  <1>5. CASE ApproveCommit
    <2>1. job' \in Records
      BY <1>5, RecordFacts DEF ApproveCommit
    <2>2. ops' \in Seq(Ops) /\ disk' = disk /\ current' \in BOOLEAN
      BY <1>5, <2>1, WrittenTypes DEF ApproveCommit
    <2> QED BY <1>5, <2>1, <2>2 DEF ApproveCommit
  <1>6. CASE Delete
    <2>1. ops' \in Seq(Ops)
      BY <1>6, AgedFacts, RemovalIssued, AppendProperties DEF Delete
    <2> QED BY <1>6, <2>1 DEF Delete
  <1>7. ASSUME NEW s \in {"done", "failed"}, Finish(s) PROVE TypeOK'
    <2>1. job' \in Records
      BY <1>7, RecordFacts DEF Finish
    <2>2. ops' \in Seq(Ops) /\ disk' = disk /\ current' \in BOOLEAN
      BY <1>7, <2>1, WrittenTypes DEF Finish
    <2> QED BY <1>7, <2>1, <2>2 DEF Finish
  <1>8. ASSUME NEW p \in Pids, AgentStarts(p) PROVE TypeOK'
    <2>1. job' \in Records
      BY <1>8, RecordFacts DEF AgentStarts
    <2>2. ops' \in Seq(Ops) /\ disk' = disk /\ current' \in BOOLEAN
      BY <1>8, <2>1, WrittenTypes DEF AgentStarts
    <2> QED BY <1>8, <2>1, <2>2 DEF AgentStarts
  <1>9. ASSUME NEW p \in Pids, AgentExits(p) PROVE TypeOK'
    BY <1>9, RecordFacts DEF AgentExits
  <1>10. ASSUME NEW handler \in {"resume", "approve"}, Ask(handler) \/ Refused(handler) PROVE TypeOK'
    BY <1>10 DEF Ask, Refused
  <1> QED BY <1>1, <1>2, <1>3, <1>4, <1>5, <1>6, <1>7, <1>8, <1>9, <1>10

\* What hydrateJobs makes of the file.
LEMMA RestartFacts ==
  ASSUME TypeOK, Restart
  PROVE  /\ ~up /\ up' /\ up' \in BOOLEAN /\ UNCHANGED <<held, late, stale, removed, escaped>>
         /\ listed' = (disk \notin NoRecord) /\ job' \in Records
         /\ listed' => disk \in Records
         /\ listed' /\ IsActive(disk.state) =>
              /\ job'.state = "interrupted" /\ job'.pid = NoPid
              /\ alive' = alive \ {disk.pid} /\ Writes(1, job')
         /\ listed' /\ ~IsActive(disk.state) => job' = disk /\ alive' = alive /\ Writes(0, job')
         /\ ~listed' => job' = job /\ alive' = alive /\ Writes(0, job')
  <1>1. listed' => disk \in Records
    BY DEF Restart, Boot, TypeOK, NoRecord
  <1>2. [state |-> "interrupted", pid |-> NoPid] \in Records
    BY DEF Records, States
  <1>3. ~up /\ up' /\ up' \in BOOLEAN /\ UNCHANGED <<held, late, stale, removed, escaped>>
    BY DEF Restart, Boot
  <1>4. listed' = (disk \notin NoRecord)
    BY DEF Restart, Boot
  <1>5. CASE listed' /\ IsActive(disk.state)
    <2>1. job' = [state |-> "interrupted", pid |-> NoPid] /\ alive' = alive \ {disk.pid} /\ Writes(1, job')
      BY <1>4, <1>5 DEF Restart, Boot, IsActive
    <2> QED BY <1>1, <1>2, <1>3, <1>4, <1>5, <2>1
  <1>6. CASE listed' /\ ~IsActive(disk.state)
    <2>1. job' = disk /\ alive' = alive /\ Writes(0, job')
      BY <1>4, <1>6 DEF Restart, Boot, IsActive
    <2> QED BY <1>1, <1>3, <1>4, <1>6, <2>1
  <1>7. CASE ~listed'
    <2>1. job' = job /\ alive' = alive /\ Writes(0, job')
      BY <1>4, <1>7 DEF Restart, Boot, IsActive
    <2> QED BY <1>1, <1>3, <1>4, <1>7, <2>1 DEF TypeOK
  <1> QED BY <1>5, <1>6, <1>7

LEMMA TypeStep == ASSUME TypeOK, Pending, [Next]_vars PROVE TypeOK'
  <1>1. CASE FileStep
    BY <1>1, FileFacts DEF FileStep, TypeOK
  <1>2. CASE Crash
    BY <1>2, EmptySeq DEF Crash, TypeOK, NoRecord
  <1>3. CASE Restart
    <2>1. ops' \in Seq(Ops) /\ disk' = disk /\ current' \in BOOLEAN
      BY <1>3, RestartFacts, WrittenTypes
    <2>2. listed' \in BOOLEAN
      BY <1>3, RestartFacts
    <2>3. alive' \subseteq alive
      BY <1>3, RestartFacts
    <2> QED BY <1>3, <2>1, <2>2, <2>3, RestartFacts DEF TypeOK
  <1>4. CASE UNCHANGED vars
    BY <1>4 DEF vars, TypeOK
  <1> QED BY <1>1, <1>2, <1>3, <1>4, TypeJobStep DEF Next

-----------------------------------------------------------------------------
(* What is in flight.                                                      *)

LEMMA PendingWrites ==
  ASSUME TypeOK, Pending, NEW n \in 0 .. 2, NEW r \in Records,
         Writes(n, r) \/ WritesIfListed(n, r), up'
  PROVE  Pending'
  <1>1. PICK m \in 0 .. 2 : Writes(m, r)
    BY DEF WritesIfListed
  <1>2. \A k \in DOMAIN ops' : ops'[k].stage # "issued" =>
            \E i \in DOMAIN ops : ops[i].kind = ops'[k].kind /\ ops[i].stage = ops'[k].stage
    BY <1>1, WritesFacts DEF TypeOK
  <1> QED BY <1>2 DEF Pending

LEMMA PendingStep == ASSUME TypeOK, Pending, TypeOK', [Next]_vars PROVE Pending'
  <1>a. job' \in Records /\ job \in Records /\ ops \in Seq(Ops)
    BY DEF TypeOK
  <1>1. CASE Create \/ Start \/ Phase \/ ResumeCommit \/ ApproveCommit
    BY <1>1, <1>a, PendingWrites DEF Create, Start, Phase, ResumeCommit, ApproveCommit
  <1>2. ASSUME NEW s \in {"done", "failed"}, Finish(s) PROVE Pending'
    BY <1>2, <1>a, PendingWrites DEF Finish
  <1>3. ASSUME NEW p \in Pids, AgentStarts(p) PROVE Pending'
    BY <1>3, <1>a, PendingWrites DEF AgentStarts
  <1>4. ASSUME NEW p \in Pids, AgentExits(p) PROVE Pending'
    BY <1>4 DEF AgentExits, Pending
  <1>5. ASSUME NEW handler \in {"resume", "approve"}, Ask(handler) \/ Refused(handler) PROVE Pending'
    BY <1>5 DEF Ask, Refused, Pending
  <1>6. CASE Delete
    <2>1. /\ ops' = Append(Aged(ops), Issued("rm", job)) /\ ~current' /\ up'
          /\ Aged(ops) \in Seq(Ops) /\ Len(Aged(ops)) = Len(ops)
      BY <1>6, <1>a, AgedFacts DEF Delete
    <2>2. \A k \in DOMAIN ops' : \/ ops'[k] = Issued("rm", job)
                                 \/ k \in 1 .. Len(ops) /\ ops'[k] = Aged(ops)[k]
      BY <2>1
    <2>3. \A k \in DOMAIN ops' : ops'[k].stage # "issued" => ops'[k].kind = "write"
      BY <1>a, <2>2, AgedFacts, RemovalIssued DEF Pending
    <2> QED BY <2>1, <2>3 DEF Pending
  <1>7. CASE FileStep
    BY <1>7, FileFacts DEF FileStep, Pending, Continues
  <1>8. CASE Crash
    BY <1>8 DEF Crash, Pending
  <1>9. CASE Restart
    BY <1>9, <1>a, RestartFacts, PendingWrites
  <1>10. CASE UNCHANGED vars
    BY <1>10 DEF vars, Pending
  <1> QED BY <1>1, <1>2, <1>3, <1>4, <1>5, <1>6, <1>7, <1>8, <1>9, <1>10 DEF Next

-----------------------------------------------------------------------------
(* The newest operation.                                                   *)

\* Any write of what the record has become shows it.
LEMMA NewestWritten ==
  ASSUME TypeOK, job' \in Records, NEW n \in 1 .. 2, Writes(n, job'), listed'
  PROVE  NewestShows'
  <1>1. PICK r \in Records : r = job' /\ Writes(n, r)
    OBVIOUS
  <1>2. \A k \in DOMAIN ops' : ops'[k].newest => ops'[k].kind = "write" /\ ops'[k].snap = r
    BY <1>1, WritesFacts DEF TypeOK
  <1> QED BY <1>1, <1>2 DEF NewestShows, Shows, Matches

\* As long as nothing is written, the record may only lose its pid.
SameRecord == job'.state = job.state /\ (job'.pid = job.pid \/ job'.pid = NoPid)

LEMMA NewestKept ==
  ASSUME NewestShows, ops' = ops, listed' = listed, stale' = stale, ~listed \/ SameRecord
  PROVE  NewestShows'
  BY DEF NewestShows, Shows, Matches, SameRecord

LEMMA NothingWritten ==
  ASSUME TypeOK, NEW n \in 0 .. 2, NEW r \in Records, WritesIfListed(n, r), ~listed \/ n = 0
  PROVE  ops' = ops /\ current' = current /\ disk' = disk
  <1>1. Writes(0, r)
    BY DEF WritesIfListed
  <1> QED BY <1>1, WritesFacts DEF TypeOK

LEMMA NewestStep ==
  ASSUME TypeOK, Pending, NewestShows, TypeOK', [Next]_vars PROVE NewestShows'
  <1>a. job' \in Records /\ job \in Records /\ ops \in Seq(Ops)
    BY DEF TypeOK
  <1>1. CASE Create \/ Phase
    BY <1>1, <1>a, NewestWritten DEF Create, Phase, TypeOK
  <1>2. CASE listed /\ (Start \/ ResumeCommit \/ ApproveCommit)
    <2>1. listed' /\ \E n \in 1 .. 2 : Writes(n, job')
      <3>1. CASE Start
        BY <1>2, <3>1 DEF Start, WritesIfListed
      <3>2. CASE ResumeCommit
        BY <1>2, <3>2 DEF ResumeCommit
      <3>3. CASE ApproveCommit
        <4>1. job' = job /\ Writes(1, job) /\ listed'
          BY <1>2, <3>3 DEF ApproveCommit
        <4> QED BY <4>1
      <3> QED BY <1>2, <3>1, <3>2, <3>3
    <2> QED BY <1>a, <2>1, NewestWritten
  <1>3. CASE ~listed /\ (ResumeCommit \/ ApproveCommit)
    BY <1>3 DEF ResumeCommit, ApproveCommit, NewestShows
  <1>4. CASE ~listed /\ Start
    BY <1>4, <1>a, NothingWritten, NewestKept DEF Start
  <1>5. ASSUME NEW s \in {"done", "failed"}, Finish(s) PROVE NewestShows'
    <2>1. CASE listed
      BY <1>5, <1>a, <2>1, NewestWritten DEF Finish, WritesIfListed
    <2>2. CASE ~listed
      BY <1>5, <1>a, <2>2, NothingWritten, NewestKept DEF Finish
    <2> QED BY <2>1, <2>2
  <1>6. ASSUME NEW p \in Pids, AgentStarts(p) PROVE NewestShows'
    <2>1. CASE listed
      BY <1>6, <1>a, <2>1, NewestWritten DEF AgentStarts, WritesIfListed
    <2>2. CASE ~listed
      BY <1>6, <1>a, <2>2, NothingWritten, NewestKept DEF AgentStarts
    <2> QED BY <2>1, <2>2
  <1>7. ASSUME NEW p \in Pids, AgentExits(p) PROVE NewestShows'
    BY <1>7, <1>a, RecordFacts, NewestKept DEF AgentExits, SameRecord
  <1>8. ASSUME NEW handler \in {"resume", "approve"}, Ask(handler) \/ Refused(handler) PROVE NewestShows'
    BY <1>8, NewestKept DEF Ask, Refused, SameRecord
  <1>9. CASE Delete
    <2>1. /\ ops' = Append(Aged(ops), Issued("rm", job)) /\ ~listed'
          /\ Aged(ops) \in Seq(Ops) /\ Len(Aged(ops)) = Len(ops)
      BY <1>9, <1>a, AgedFacts DEF Delete
    <2>2. \A k \in DOMAIN ops' : \/ ops'[k] = Issued("rm", job)
                                 \/ k \in 1 .. Len(ops) /\ ops'[k] = Aged(ops)[k]
      BY <2>1
    <2>3. \A k \in DOMAIN ops' : ops'[k].newest => ops'[k].kind = "rm"
      BY <1>a, <2>2, AgedFacts, RemovalIssued
    <2> QED BY <2>1, <2>3 DEF NewestShows, Shows
  <1>10. CASE FileStep
    <2>1. listed' = listed /\ job' = job /\ stale' = stale
      BY <1>10 DEF FileStep
    <2>2. \A k \in DOMAIN ops' : \E m \in DOMAIN ops : Continues(ops'[k], ops[m])
      BY <1>10, FileFacts
    <2> QED BY <2>1, <2>2 DEF NewestShows, Shows, Matches, Continues
  <1>11. CASE Crash
    BY <1>11 DEF Crash, NewestShows
  <1>12. CASE Restart
    <2>1. CASE listed' /\ IsActive(disk.state)
      BY <1>12, <1>a, <2>1, RestartFacts, NewestWritten
    <2>2. CASE ~(listed' /\ IsActive(disk.state))
      <3>1. Writes(0, job')
        BY <1>12, <2>2, RestartFacts
      <3>2. ops' = <<>>
        BY <1>12, <1>a, <3>1, WritesFacts, RestartFacts DEF Pending, TypeOK
      <3> QED BY <3>2 DEF NewestShows
    <2> QED BY <2>1, <2>2
  <1>13. CASE UNCHANGED vars
    BY <1>13, NewestKept DEF vars, SameRecord
  <1>14. Start \/ ResumeCommit \/ ApproveCommit => NewestShows'
    BY <1>2, <1>3, <1>4
  <1> QED BY <1>1, <1>5, <1>6, <1>7, <1>8, <1>9, <1>10, <1>11, <1>12, <1>13, <1>14 DEF Next

-----------------------------------------------------------------------------
(* The file.                                                               *)

LEMMA WritesUnsync ==
  ASSUME TypeOK, NEW n \in 1 .. 2, NEW r \in Records,
         Writes(n, r) \/ (listed /\ WritesIfListed(n, r))
  PROVE  ~current'
  <1>1. Writes(n, r)
    BY DEF WritesIfListed
  <1> QED BY <1>1, WritesFacts DEF TypeOK

LEMMA FileKept ==
  ASSUME FileShows, disk' = disk, listed' = listed, stale' = stale, current' = current,
         ~listed \/ SameRecord
  PROVE  FileShows'
  BY DEF FileShows, Matches, SameRecord

LEMMA FileShowsStep ==
  ASSUME TypeOK, Pending, NewestShows, FileShows, TypeOK', [Next]_vars PROVE FileShows'
  <1>a. job' \in Records /\ job \in Records
    BY DEF TypeOK
  <1>1. CASE Create \/ Phase
    BY <1>1, <1>a, WritesUnsync DEF Create, Phase, FileShows
  <1>2. CASE ResumeCommit \/ ApproveCommit
    BY <1>2, <1>a, WritesUnsync DEF ResumeCommit, ApproveCommit, FileShows
  <1>3. CASE Start
    <2>1. CASE listed
      BY <1>3, <1>a, <2>1, WritesUnsync DEF Start, FileShows
    <2>2. CASE ~listed
      BY <1>3, <1>a, <2>2, NothingWritten, FileKept DEF Start
    <2> QED BY <2>1, <2>2
  <1>4. ASSUME NEW s \in {"done", "failed"}, Finish(s) PROVE FileShows'
    <2>1. CASE listed
      BY <1>4, <1>a, <2>1, WritesUnsync DEF Finish, FileShows
    <2>2. CASE ~listed
      BY <1>4, <1>a, <2>2, NothingWritten, FileKept DEF Finish
    <2> QED BY <2>1, <2>2
  <1>5. ASSUME NEW p \in Pids, AgentStarts(p) PROVE FileShows'
    <2>1. CASE listed
      BY <1>5, <1>a, <2>1, WritesUnsync DEF AgentStarts, FileShows
    <2>2. CASE ~listed
      BY <1>5, <1>a, <2>2, NothingWritten, FileKept DEF AgentStarts
    <2> QED BY <2>1, <2>2
  <1>6. ASSUME NEW p \in Pids, AgentExits(p) PROVE FileShows'
    BY <1>6, <1>a, RecordFacts, FileKept DEF AgentExits, SameRecord
  <1>7. ASSUME NEW handler \in {"resume", "approve"}, Ask(handler) \/ Refused(handler) PROVE FileShows'
    BY <1>7, FileKept DEF Ask, Refused, SameRecord
  <1>8. CASE Delete
    BY <1>8 DEF Delete, FileShows
  <1>9. CASE FileStep
    <2> SUFFICES ASSUME current', ~stale' PROVE FileShows'
      BY DEF FileShows
    <2>1. listed' = listed /\ job' = job /\ ~stale
      BY <1>9 DEF FileStep
    <2>2. (current /\ disk' = disk) \/ LeftByNewest
      BY <1>9, FileFacts
    <2>3. CASE current /\ disk' = disk
      BY <2>1, <2>3 DEF FileShows, Matches
    <2>4. CASE LeftByNewest
      <3>1. PICK m \in DOMAIN ops : /\ ops[m].newest
                                    /\ IF ops[m].kind = "write" THEN disk' \in {ops[m].snap, Garbled}
                                       ELSE disk' = Absent
        BY <2>4 DEF LeftByNewest
      <3>2. Shows(ops[m])
        BY <2>1, <3>1 DEF NewestShows
      <3>3. ops[m].snap \in Records
        <4>1. ops[m] \in Ops
          BY DEF TypeOK
        <4> QED BY <4>1 DEF Ops
      <3> QED BY <2>1, <3>1, <3>2, <3>3 DEF Shows, FileShows, Matches
    <2> QED BY <2>2, <2>3, <2>4
  <1>10. CASE Crash
    <2>1. /\ UNCHANGED <<listed, job, stale>>
          /\ current' => current /\ disk' = disk
      BY <1>10 DEF Crash
    <2> QED BY <2>1 DEF FileShows, Matches
  <1>11. CASE Restart
    <2>1. CASE listed' /\ IsActive(disk.state)
      BY <1>11, <1>a, <2>1, RestartFacts, WritesUnsync DEF FileShows
    <2>2. CASE ~(listed' /\ IsActive(disk.state))
      <3>1. Writes(0, job')
        BY <1>11, <2>2, RestartFacts
      <3>2. disk' = disk /\ current' = current
        BY <1>11, <1>a, <3>1, WritesFacts DEF TypeOK
      <3>3. listed' => job' = disk
        BY <1>11, <2>2, RestartFacts
      <3>4. CASE listed'
        <4>1. disk \in Records
          BY <1>11, <3>4, RestartFacts
        <4>2. disk.state = job'.state /\ disk.pid = job'.pid
          BY <3>3, <3>4
        <4> QED BY <3>2, <3>4, <4>1, <4>2 DEF FileShows, Matches
      <3>5. CASE ~listed'
        <4>1. disk \in NoRecord /\ stale' = stale
          BY <1>11, <3>5, RestartFacts
        <4> QED BY <3>2, <3>5, <4>1, FileAssumption DEF FileShows
      <3> QED BY <3>4, <3>5
    <2> QED BY <2>1, <2>2
  <1>12. CASE UNCHANGED vars
    BY <1>12, FileKept DEF vars, SameRecord
  <1> QED BY <1>1, <1>2, <1>3, <1>4, <1>5, <1>6, <1>7, <1>8, <1>9, <1>10, <1>11, <1>12 DEF Next

\* Where there never was a review, nothing but Create can bring one about.
LEMMA NothingYetStep ==
  ASSUME TypeOK, Pending, NothingYet, TypeOK', [Next]_vars PROVE NothingYet'
  <1> DEFINE Quiet == ~listed /\ disk' = disk /\ current' = current /\ removed' = removed
  <1>a. job' \in Records /\ job \in Records
    BY DEF TypeOK
  <1>b. ASSUME NEW n \in 1 .. 2, WritesIfListed(n, job'), removed' = removed
        PROVE  Quiet \/ ~current'
    <2>1. CASE listed
      BY <1>a, <1>b, <2>1, WritesUnsync
    <2>2. CASE ~listed
      BY <1>a, <1>b, <2>2, NothingWritten
    <2> QED BY <2>1, <2>2
  <1>c. Start \/ (\E s \in {"done", "failed"} : Finish(s)) \/ (\E p \in Pids : AgentStarts(p))
          => held # "no" /\ (Quiet \/ ~current')
    <2>1. ASSUME Start PROVE held # "no" /\ (Quiet \/ ~current')
      BY <1>b, <2>1 DEF Start
    <2>2. ASSUME NEW s \in {"done", "failed"}, Finish(s) PROVE held # "no" /\ (Quiet \/ ~current')
      BY <1>b, <2>2 DEF Finish
    <2>3. ASSUME NEW p \in Pids, AgentStarts(p) PROVE held # "no" /\ (Quiet \/ ~current')
      BY <1>b, <2>3 DEF AgentStarts
    <2> QED BY <2>1, <2>2, <2>3
  <1>d. ASSUME Restart, Writes(0, job') PROVE current' = current
    BY <1>a, <1>d, WritesFacts DEF TypeOK
  <1> HIDE DEF Quiet
  <1> SUFFICES ASSUME current', disk' = Absent, ~removed'
               PROVE  ~listed' /\ held' = "no" /\ late' = {} /\ alive' = {}
    BY DEF NothingYet
  <1>1. ~(Create \/ Phase \/ ResumeCommit \/ ApproveCommit)
    BY <1>a, WritesUnsync DEF Create, Phase, ResumeCommit, ApproveCommit
  <1>2. ~Delete
    BY DEF Delete
  <1>3. ASSUME FileStep PROVE ~listed' /\ held' = "no" /\ late' = {} /\ alive' = {}
    <2>1. ~LeftByNewest
      <3> SUFFICES ASSUME LeftByNewest PROVE FALSE
        OBVIOUS
      <3>1. PICK m \in DOMAIN ops : ops[m].kind = "write" /\ disk' \in {ops[m].snap, Garbled}
        BY DEF LeftByNewest
      <3>2. ops[m].snap \in Records
        <4>1. ops[m] \in Ops
          BY DEF TypeOK
        <4> QED BY <4>1 DEF Ops
      <3> QED BY <3>1, <3>2, FileAssumption DEF NoRecord
    <2>2. current /\ disk = Absent /\ ~removed
      BY <1>3, <2>1, FileFacts
    <2> QED BY <1>3, <2>2 DEF FileStep, NothingYet
  <1>4. ~(Start \/ (\E s \in {"done", "failed"} : Finish(s)) \/ (\E p \in Pids : AgentStarts(p)))
    BY <1>c DEF NothingYet, Quiet
  <1>5. ASSUME NEW p \in Pids, AgentExits(p)
        PROVE  ~listed' /\ held' = "no" /\ late' = {} /\ alive' = {}
    BY <1>5 DEF AgentExits, NothingYet
  <1>6. ASSUME NEW handler \in {"resume", "approve"}, Ask(handler) \/ Refused(handler)
        PROVE  ~listed' /\ held' = "no" /\ late' = {} /\ alive' = {}
    BY <1>6 DEF Ask, Refused, NothingYet
  <1>7. ASSUME Crash PROVE ~listed' /\ held' = "no" /\ late' = {} /\ alive' = {}
    <2>1. current /\ disk = Absent /\ ~removed
      BY <1>7, FileAssumption DEF Crash
    <2> QED BY <1>7, <2>1 DEF Crash, NothingYet
  <1>8. ASSUME Restart PROVE ~listed' /\ held' = "no" /\ late' = {} /\ alive' = {}
    <2>1. disk' = disk
      BY <1>8, <1>a, RestartFacts, WrittenTypes
    <2>2. ~listed' /\ Writes(0, job') /\ alive' = alive
      BY <1>8, <2>1, RestartFacts DEF NoRecord
    <2>3. current' = current
      BY <1>8, <1>d, <2>2
    <2> QED BY <1>8, <2>1, <2>2, <2>3, RestartFacts DEF NothingYet
  <1>9. CASE UNCHANGED vars
    BY <1>9 DEF vars, NothingYet
  <1> QED BY <1>1, <1>2, <1>3, <1>4, <1>5, <1>6, <1>7, <1>8, <1>9 DEF Next

-----------------------------------------------------------------------------
(* Agents.                                                                 *)

LEMMA AgentsKept ==
  ASSUME AgentsKnown, up', job'.pid = job.pid, alive' = alive, escaped' = escaped
  PROVE  AgentsKnown'
  BY DEF AgentsKnown

LEMMA AgentsKnownStep ==
  ASSUME TypeOK, FileShows, NothingYet, AgentsKnown, [Next]_vars PROVE AgentsKnown'
  <1>a. job \in Records
    BY DEF TypeOK
  <1>1. CASE Create
    BY <1>1 DEF Create, NothingYet, AgentsKnown
  <1>2. CASE Start \/ Phase \/ ResumeCommit \/ ApproveCommit \/ Delete \/ FileStep
    <2>1. up' /\ job'.pid = job.pid /\ alive' = alive /\ escaped' = escaped
      <3>1. CASE Start
        BY <1>a, <3>1, RecordFacts DEF Start, States
      <3>2. CASE ResumeCommit
        BY <1>a, <3>2, RecordFacts DEF ResumeCommit, States
      <3>3. CASE Phase \/ ApproveCommit \/ Delete \/ FileStep
        BY <3>3 DEF Phase, ApproveCommit, Delete, FileStep
      <3> QED BY <1>2, <3>1, <3>2, <3>3
    <2> QED BY <2>1, AgentsKept
  <1>3. ASSUME NEW s \in {"done", "failed"}, Finish(s) PROVE AgentsKnown'
    <2>1. up' /\ job'.pid = job.pid /\ alive' = alive /\ escaped' = escaped
      BY <1>3, <1>a, RecordFacts DEF Finish, States
    <2> QED BY <2>1, AgentsKept
  <1>4. ASSUME NEW p \in Pids, AgentStarts(p) PROVE AgentsKnown'
    <2>1. up' /\ job.pid = NoPid /\ job'.pid = p /\ alive' = alive \cup {p} /\ escaped' = escaped
      BY <1>4, <1>a, RecordFacts DEF AgentStarts
    <2>2. NoPid \notin alive
      BY NoPidAssumption DEF TypeOK
    <2> QED BY <2>1, <2>2 DEF AgentsKnown
  <1>5. ASSUME NEW p \in Pids, AgentExits(p) PROVE AgentsKnown'
    <2>1. /\ alive' = alive \ {p} /\ up' = up /\ UNCHANGED <<disk, current, stale, escaped>>
          /\ job'.pid = job.pid \/ job.pid = p
      BY <1>5 DEF AgentExits
    <2> QED BY <2>1 DEF AgentsKnown
  <1>6. ASSUME NEW handler \in {"resume", "approve"}, Ask(handler) \/ Refused(handler) PROVE AgentsKnown'
    BY <1>6, AgentsKept DEF Ask, Refused
  <1>7. CASE Crash
    BY <1>7 DEF Crash, AgentsKnown
  <1>8. CASE Restart
    <2>1. up' /\ ~up /\ escaped' = escaped /\ alive' \subseteq alive
      BY <1>8, RestartFacts
    <2>2. CASE ~current \/ stale \/ disk = Garbled
      BY <2>1, <2>2 DEF AgentsKnown
    <2>3. CASE current /\ ~stale /\ disk # Garbled /\ listed
      <3>1. listed' /\ \A p \in alive : p = disk.pid \/ p \in escaped
        BY <1>8, <2>3, RestartFacts, NoPidAssumption, FileAssumption
           DEF FileShows, Matches, AgentsKnown, TypeOK, NoRecord
      <3>2. alive' = alive \ {disk.pid} \/ job' = disk
        BY <1>8, <3>1, RestartFacts
      <3> QED BY <2>1, <3>1, <3>2 DEF AgentsKnown
    <2>4. CASE current /\ ~stale /\ disk # Garbled /\ ~listed
      <3>1. ~listed'
        BY <1>8, <2>4, RestartFacts DEF FileShows, NoRecord
      <3>2. job' = job
        BY <1>8, <3>1, RestartFacts
      <3> QED BY <2>1, <3>2 DEF AgentsKnown
    <2> QED BY <2>2, <2>3, <2>4
  <1>9. CASE UNCHANGED vars
    BY <1>9 DEF vars, AgentsKnown
  <1> QED BY <1>1, <1>2, <1>3, <1>4, <1>5, <1>6, <1>7, <1>8, <1>9 DEF Next

LEMMA ActiveStep ==
  ASSUME TypeOK, ActiveIsRunHere, [Next]_vars PROVE ActiveIsRunHere'
  <1> USE DEF ActiveIsRunHere
  <1>a. job \in Records
    BY DEF TypeOK
  <1>1. CASE Create \/ Start \/ Phase \/ ResumeCommit \/ ApproveCommit \/ Delete
    BY <1>1 DEF Create, Start, Phase, ResumeCommit, ApproveCommit, Delete
  <1>2. ASSUME NEW s \in {"done", "failed"}, Finish(s) PROVE ActiveIsRunHere'
    <2>1. listed' => job'.state = s
      BY <1>2, <1>a, RecordFacts DEF Finish, States
    <2> QED BY <2>1 DEF IsActive
  <1>3. ASSUME NEW p \in Pids, AgentStarts(p) PROVE ActiveIsRunHere'
    BY <1>3 DEF AgentStarts
  <1>4. ASSUME NEW p \in Pids, AgentExits(p) PROVE ActiveIsRunHere'
    <2>1. job'.state = job.state
      BY <1>4, <1>a, RecordFacts DEF AgentExits
    <2> QED BY <1>4, <2>1 DEF AgentExits
  <1>5. ASSUME NEW handler \in {"resume", "approve"}, Ask(handler) \/ Refused(handler) PROVE ActiveIsRunHere'
    BY <1>5 DEF Ask, Refused
  <1>6. CASE FileStep
    BY <1>6 DEF FileStep
  <1>7. CASE Crash
    BY <1>7 DEF Crash
  <1>8. CASE Restart
    <2>1. listed' => ~IsActive(job'.state)
      BY <1>8, RestartFacts DEF IsActive
    <2> QED BY <2>1
  <1>9. CASE UNCHANGED vars
    BY <1>9 DEF vars
  <1> QED BY <1>1, <1>2, <1>3, <1>4, <1>5, <1>6, <1>7, <1>8, <1>9 DEF Next

-----------------------------------------------------------------------------
LEMMA Invariant == Spec => []IInv
  <1>1. Init => IInv
    <2> SUFFICES ASSUME Init PROVE IInv
      OBVIOUS
    <2>1. ops = <<>> /\ ~listed /\ disk = Absent /\ held = "no" /\ late = {} /\ alive = {} /\ up
      BY DEF Init
    <2> QED BY <2>1, TypeInit DEF IInv, Pending, NewestShows, FileShows, NothingYet, AgentsKnown,
          ActiveIsRunHere
  <1>2. IInv /\ [Next]_vars => IInv'
    <2> SUFFICES ASSUME IInv, [Next]_vars PROVE IInv'
      OBVIOUS
    <2> USE DEF IInv
    <2>1. TypeOK'
      BY TypeStep
    <2> QED BY <2>1, PendingStep, NewestStep, FileShowsStep, NothingYetStep, AgentsKnownStep, ActiveStep
  <1> QED BY <1>1, <1>2, PTL DEF Spec

\* Whatever order the thread pool serves them in, whatever overlaps and whatever
\* fails: a file left to an operation of the last turn is what a restart needs, the
\* state the server shows and the pid of the agent that runs, or no file; or two
\* writes have garbled it (persistJob, pushEvent, the queue's listener, DELETE).
THEOREM FileCatchesUp == Spec => []DiskCatchesUp
  <1>1. IInv => DiskCatchesUp
    BY DEF IInv, FileShows, Matches, DiskCatchesUp
  <1> QED BY <1>1, Invariant, PTL

\* However often it crashes, a server that has started again has no row waiting
\* for a runner of an earlier one, and no agent left but its own and those of a
\* crash that left a file behind the record, or garbled (hydrateJobs).
THEOREM RestartIsClean == Spec => []RestartTakesOver
  <1>1. IInv => RestartTakesOver
    BY DEF IInv, AgentsKnown, RestartTakesOver, OrphansAreReaped
  <1> QED BY <1>1, Invariant, PTL

\* Wherever the crash comes, a review whose file was left to an operation of the
\* last turn comes back as it had ended, or interrupted if it was under way; what
\* can cost it is writes that overlapped and garbled the file (hydrateJobs).
THEOREM NothingIsLost == Spec => RestartKeepsReview
  <1> DEFINE Keeps == ~up /\ up' /\ current /\ ~stale /\ listed
                        => \/ disk = Garbled /\ ~listed'
                           \/ /\ listed'
                              /\ job'.state = IF IsActive(job.state) THEN "interrupted" ELSE job.state
  <1>1. IInv /\ [Next]_vars => [Keeps]_vars
    <2> SUFFICES ASSUME IInv, Next, ~up, up', current, ~stale, listed PROVE Keeps
      OBVIOUS
    <2>1. Restart
      BY DEF Next, Create, Start, Phase, Finish, AgentStarts, AgentExits, Ask, Refused, ResumeCommit,
         ApproveCommit, Delete, FileStep, Crash
    <2>2. CASE disk = Garbled
      BY <2>1, <2>2, RestartFacts DEF IInv, NoRecord
    <2>3. CASE disk # Garbled
      <3>1. disk \in Records /\ disk \notin NoRecord /\ disk.state = job.state
        BY <2>3, FileAssumption DEF IInv, FileShows, Matches
      <3> QED BY <2>1, <3>1, RestartFacts DEF IInv
    <2> QED BY <2>2, <2>3
  <1> QED BY <1>1, Invariant, PTL DEF Spec, RestartKeepsReview
=============================================================================

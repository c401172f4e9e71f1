------------------------- MODULE MentionWatch_proofs -------------------------
(***************************************************************************)
(* Theorems about lib/mention-watch.js, for any mentions, pull requests,   *)
(* overlap, age limit and length of a run.                                 *)
(***************************************************************************)
EXTENDS MentionWatch, WellFoundedInduction, TLAPS

-----------------------------------------------------------------------------
(* Arithmetic.                                                             *)

\* Max of two integers, and Min of naturals, are what their names say.
LEMMA MaxOfTwo ==
  ASSUME NEW a \in Int, NEW b \in Int
  PROVE  Max({a, b}) = IF a >= b THEN a ELSE b
<1>1. \E x \in {a, b} : \A y \in {a, b} : x >= y
  OBVIOUS
<1> QED
  BY <1>1 DEF Max

LEMMA MinOfNaturals ==
  ASSUME NEW S \in SUBSET Nat, S # {}
  PROVE  Min(S) \in S /\ \A y \in S : Min(S) <= y
<1> DEFINE R == {p \in Nat \X Nat : p[1] < p[2]}
<1>1. IsWellFoundedOn(R, Nat)
  BY NatLessThanWellFounded DEF OpToRel
<1>2. PICK x \in S : \A y \in S : ~ (<<y, x>> \in R)
  <2> HIDE DEF R
  <2> QED
    BY <1>1, WFMin
<1>3. ASSUME NEW y \in S PROVE x <= y
  <2>1. x \in Nat /\ y \in Nat /\ <<y, x>> \notin R
    BY <1>2
  <2>2. ~(y < x)
    BY <2>1
  <2> QED
    BY <2>1, <2>2
<1> QED
  BY <1>3 DEF Min

-----------------------------------------------------------------------------
(* Types.                                                                  *)

LEMMA EmptyTypes == NoPoll.handled = {} /\ NoPoll.still = {} /\ NoPoll.todo = {} /\ ~NoPoll.on
  BY DEF NoPoll

\* What is saved stays a state, whether or not the file could be written.
LEMMA SavedIsState ==
  ASSUME NEW s \in States, file \in States, Save(s)
  PROVE  file' \in States
  BY DEF Save

\* A pass looks back to an integer.
LEMMA LooksFromType ==
  ASSUME TypeOK
  PROVE  LooksFrom(now) \in Int
<1> DEFINE S == {IF state.since = NoClock THEN now ELSE state.since}
                  \cup {at[m] : m \in state.pending}
<1>1. now \in Nat /\ S \in SUBSET Nat /\ S # {}
  BY TimeAssumption DEF TypeOK, Times, States, NoClock
<1>2. Min(S) \in Nat
  <2> HIDE DEF S
  <2> QED
    BY <1>1, MinOfNaturals
<1>3. now - Day \in Int /\ Min(S) - Overlap \in Int
  <2> HIDE DEF S
  <2> QED
    BY <1>1, <1>2, TimeAssumption
<1>4. Max({now - Day, Min(S) - Overlap}) \in Int
  <2> HIDE DEF S
  <2> QED
    BY <1>3, MaxOfTwo
<1> QED
  BY <1>4 DEF LooksFrom

LEMMA TypeInit == Init => TypeOK
<1> SUFFICES ASSUME Init PROVE TypeOK
  OBVIOUS
<1> USE DEF NoClock
<1>1. 1 \in Times /\ now \in Times /\ turnedOn \in Times \cup {NoClock}
  BY TimeAssumption DEF Init, Times
<1>2. at \in [Mentions -> Times \cup {NoClock}] /\ pr \in [Mentions -> Prs]
  BY DEF Init
<1>3. Empty \in States /\ state \in States /\ file \in States
  BY DEF Init, Empty, States
<1>4. poll \in [on : BOOLEAN, startedAt : Times \cup {NoClock}, from : Int,
                todo : SUBSET Prs, handled : SUBSET Mentions, still : SUBSET Mentions]
  BY DEF Init, NoPoll
<1>5. ask \in [pr : Prs \cup {None}, fresh : SUBSET Mentions,
               trigger : Mentions \cup {None}]
  BY DEF Init, NoAsk
<1>6. via \in [Mentions -> Mentions] /\ answered \in [Mentions -> 0..2]
  BY DEF Init
<1>7. enabled \in BOOLEAN /\ reachedBack \in BOOLEAN
  BY DEF Init
<1> QED
  BY <1>1, <1>2, <1>3, <1>4, <1>5, <1>6, <1>7 DEF Init, TypeOK

\* The parts of the state the watcher does not touch while the world moves.
watcher == <<enabled, state, file, poll, ask, history>>

LEMMA WorldTypes ==
  ASSUME TypeOK, watcher' = watcher,
         now' \in Times,
         at' \in [Mentions -> Times \cup {NoClock}], pr' = pr,
         seen' \in SUBSET Mentions, busy' \in SUBSET Prs
  PROVE  TypeOK'
<1>1. enabled' = enabled /\ state' = state /\ file' = file /\ poll' = poll /\ ask' = ask
  BY DEF watcher
<1>2. turnedOn' = turnedOn /\ dealt' = dealt /\ via' = via /\ answered' = answered
      /\ forgotten' = forgotten /\ reachedBack' = reachedBack
  BY DEF watcher, history
<1> QED
  BY <1>1, <1>2 DEF TypeOK

World ==
    \/ Tick
    \/ \E m \in Mentions : Write(m) \/ Appear(m)
    \/ \E p \in Prs : ReviewStartsOrEnds(p)

LEMMA WorldKeepsTypes == ASSUME TypeOK, World PROVE TypeOK' /\ watcher' = watcher
<1>1. CASE Tick
  <2>1. now' \in Times
    BY <1>1, TimeAssumption DEF Tick, TypeOK, Times
  <2>2. watcher' = watcher /\ at' = at /\ pr' = pr /\ seen' = seen /\ busy' = busy
    BY <1>1 DEF Tick, watcher, comments
  <2> QED
    BY <2>1, <2>2, WorldTypes DEF TypeOK
<1>2. ASSUME NEW m \in Mentions, Write(m) PROVE TypeOK' /\ watcher' = watcher
  <2>1. watcher' = watcher /\ now' = now /\ pr' = pr /\ seen' = seen /\ busy' = busy
    BY <1>2 DEF Write, watcher
  <2>2. at' \in [Mentions -> Times \cup {NoClock}]
    BY <1>2 DEF Write, TypeOK
  <2> QED
    BY <2>1, <2>2, WorldTypes DEF TypeOK
<1>3. ASSUME NEW m \in Mentions, Appear(m) PROVE TypeOK' /\ watcher' = watcher
  <2>1. watcher' = watcher /\ now' = now /\ pr' = pr /\ at' = at /\ busy' = busy
    BY <1>3 DEF Appear, watcher
  <2>2. seen' \in SUBSET Mentions
    BY <1>3 DEF Appear, TypeOK
  <2> QED
    BY <2>1, <2>2, WorldTypes DEF TypeOK
<1>4. ASSUME NEW p \in Prs, ReviewStartsOrEnds(p) PROVE TypeOK' /\ watcher' = watcher
  <2>1. watcher' = watcher /\ now' = now /\ pr' = pr /\ at' = at /\ seen' = seen
    BY <1>4 DEF ReviewStartsOrEnds, watcher, comments
  <2>2. busy' \in SUBSET Prs
    BY <1>4 DEF ReviewStartsOrEnds, TypeOK
  <2> QED
    BY <2>1, <2>2, WorldTypes DEF TypeOK
<1> QED
  BY <1>1, <1>2, <1>3, <1>4 DEF World

Polls == [on : BOOLEAN, startedAt : Times \cup {NoClock}, from : Int,
          todo : SUBSET Prs, handled : SUBSET Mentions, still : SUBSET Mentions]

Asks == [pr : Prs \cup {None}, fresh : SUBSET Mentions, trigger : Mentions \cup {None}]

LEMMA IdleTypes == NoPoll \in Polls /\ NoAsk \in Asks
  BY DEF NoPoll, NoAsk, Polls, Asks, NoClock

Watcher ==
    \/ \E p \in Prs : ReadPr(p)
    \/ TurnOn \/ TurnOff
    \/ PollStart \/ Queued \/ Refused \/ PollDone \/ PollThrows \/ Restart

\* What a step of the watcher may change, each of its type.
LEMMA WatcherTypes ==
  ASSUME TypeOK, now' = now, comments' = comments, busy' \in SUBSET Prs,
         enabled' \in BOOLEAN, state' \in States, file' \in States,
         poll' \in Polls, ask' \in Asks,
         turnedOn' \in {turnedOn, now}, dealt' \in SUBSET Mentions,
         via' \in [Mentions -> Mentions], answered' \in [Mentions -> 0..2],
         forgotten' \in SUBSET Mentions, reachedBack' \in BOOLEAN
  PROVE  TypeOK'
<1>1. at' = at /\ pr' = pr /\ seen' = seen
  BY DEF comments
<1> QED
  BY <1>1 DEF TypeOK, Polls, Asks

\* A pass asks for a review of a pull request, because of a fresh mention.
AskFits == ask # NoAsk => ask.pr \in Prs /\ ask.trigger \in ask.fresh

LEMMA WatcherKeepsTypes == ASSUME TypeOK, AskFits, Watcher PROVE TypeOK'
<1> USE DEF history, comments
<1>0. /\ now \in Times /\ busy \in SUBSET Prs /\ enabled \in BOOLEAN
      /\ state \in States /\ file \in States /\ poll \in Polls /\ ask \in Asks
      /\ dealt \in SUBSET Mentions /\ via \in [Mentions -> Mentions]
      /\ answered \in [Mentions -> 0..2] /\ forgotten \in SUBSET Mentions
      /\ reachedBack \in BOOLEAN
  BY DEF TypeOK, Polls, Asks
<1>1. ASSUME NEW p \in Prs, ReadPr(p) PROVE TypeOK'
  <2>1. Fresh(p) \in SUBSET Mentions
    BY DEF Fresh, TypeOK
  <2>2. poll' \in Polls /\ dealt' \in SUBSET Mentions
    <3>1. CASE Fresh(p) = {} \/ p \in busy
      <4>1. /\ poll' = [poll EXCEPT !.todo = @ \ {p}, !.handled = @ \cup Fresh(p)]
            /\ dealt' = dealt \cup Fresh(p)
        BY <1>1, <3>1 DEF ReadPr
      <4> QED
        BY <1>0, <2>1, <4>1 DEF Polls
    <3>2. CASE ~(Fresh(p) = {} \/ p \in busy)
      BY <1>1, <1>0, <2>1, <3>2 DEF ReadPr, Polls
    <3> QED
      BY <3>1, <3>2
  <2>3. ask' \in Asks
    BY <1>1, <1>0, <2>1 DEF ReadPr, Asks
  <2> QED
    BY <1>0, <1>1, <2>2, <2>3, WatcherTypes DEF ReadPr
<1>2. CASE TurnOn
  <2>1. state' \in States
    BY <1>2, <1>0 DEF TurnOn, States
  <2>2. file' \in States
    BY <1>2, <1>0, <2>1, SavedIsState DEF TurnOn
  <2> QED
    BY <1>0, <1>2, <2>1, <2>2, WatcherTypes DEF TurnOn
<1>3. CASE TurnOff
  BY <1>0, <1>3, WatcherTypes DEF TurnOff
<1>4. CASE PollStart
  <2>1. LooksFrom(now) \in Int
    BY LooksFromType
  <2>2. {pr[m] : m \in {n \in seen : at[n] >= LooksFrom(now)}} \in SUBSET Prs
    BY DEF TypeOK
  <2>3. state.handled \in SUBSET Mentions
    BY <1>0 DEF States
  <2>4. poll' \in Polls
    BY <1>0, <1>4, <2>1, <2>2, <2>3 DEF PollStart, Polls
  <2> QED
    BY <1>0, <1>4, <2>4, WatcherTypes DEF PollStart
<1>5. CASE Queued
  <2>0. ask.fresh \in SUBSET Mentions
    BY <1>0 DEF Asks
  <2>1. poll' \in Polls /\ dealt' \in SUBSET Mentions
    BY <1>0, <1>5, <2>0 DEF Queued, Polls
  <2>2. answered' \in [Mentions -> 0..2]
    <3>1. ask.trigger \in Mentions
      BY <1>5, <2>0 DEF Queued, AskFits
    <3>2. (IF answered[ask.trigger] = 2 THEN 2 ELSE answered[ask.trigger] + 1) \in 0..2
      BY <1>0, <3>1
    <3> QED
      BY <1>0, <1>5, <3>1, <3>2 DEF Queued
  <2>3. reachedBack' \in BOOLEAN
    BY <1>5 DEF Queued
  <2>4. ask' \in Asks /\ busy' \in SUBSET Prs
    BY <1>0, <1>5, IdleTypes DEF Queued, AskFits
  <2> QED
    BY <1>0, <1>5, <2>1, <2>2, <2>3, <2>4, WatcherTypes DEF Queued
<1>6. CASE Refused
  <2>0. ask.fresh \in SUBSET Mentions /\ ask.trigger \in Mentions \cup {None}
    BY <1>0 DEF Asks
  <2>1. ask.trigger \in Mentions
    BY <1>6, <2>0 DEF Refused, AskFits
  <2>2. poll' \in Polls /\ dealt' \in SUBSET Mentions /\ via' \in [Mentions -> Mentions]
    <3>1. CASE poll.startedAt - at[ask.trigger] < Day
      BY <1>0, <1>6, <2>0, <2>1, <3>1 DEF Refused, Polls
    <3>2. CASE ~(poll.startedAt - at[ask.trigger] < Day)
      BY <1>0, <1>6, <2>0, <3>2 DEF Refused, Polls
    <3> QED
      BY <3>1, <3>2
  <2> QED
    BY <1>0, <1>6, <2>2, IdleTypes, WatcherTypes DEF Refused
<1>7. CASE PollDone
  <2>1. state' \in States
    BY <1>7, <1>0 DEF PollDone, States, Polls
  <2>2. file' \in States
    BY <1>7, <1>0, <2>1, SavedIsState DEF PollDone
  <2> QED
    BY <1>0, <1>7, <2>1, <2>2, IdleTypes, WatcherTypes DEF PollDone
<1>8. CASE PollThrows
  <2>1. forgotten' \in SUBSET Mentions
    BY <1>0, <1>8 DEF PollThrows, Polls
  <2> QED
    BY <1>0, <1>8, <2>1, IdleTypes, WatcherTypes DEF PollThrows
<1>9. CASE Restart
  <2>1. state' \in States
    BY <1>9, <1>0 DEF Restart, States
  <2>2. file' \in States
    BY <1>9, <1>0, <2>1, SavedIsState DEF Restart
  <2>3. forgotten' \in SUBSET Mentions
    BY <1>0, <1>9 DEF Restart, Polls, States
  <2> QED
    BY <1>0, <1>9, <2>1, <2>2, <2>3, IdleTypes, WatcherTypes DEF Restart
<1> QED
  BY <1>1, <1>2, <1>3, <1>4, <1>5, <1>6, <1>7, <1>8, <1>9 DEF Watcher

LEMMA AskStaysFit == ASSUME AskFits, Watcher PROVE AskFits'
<1>1. ASSUME NEW p \in Prs, ReadPr(p) PROVE AskFits'
  <2>1. CASE Fresh(p) = {} \/ p \in busy
    BY <1>1, <2>1 DEF ReadPr, AskFits
  <2>2. CASE ~(Fresh(p) = {} \/ p \in busy)
    <3>1. PICK m \in Fresh(p) : ask' = [pr |-> p, fresh |-> Fresh(p), trigger |-> m]
      BY <1>1, <2>2 DEF ReadPr
    <3> QED
      BY <3>1 DEF AskFits
  <2> QED
    BY <2>1, <2>2
<1>2. CASE TurnOn \/ TurnOff \/ PollStart \/ PollDone \/ PollThrows
  BY <1>2 DEF AskFits, TurnOn, TurnOff, PollStart, PollDone, PollThrows
<1>3. CASE Queued \/ Refused \/ Restart
  BY <1>3 DEF AskFits, Queued, Refused, Restart
<1> QED
  BY <1>1, <1>2, <1>3 DEF Watcher

LEMMA NextSplits == Next => World \/ Watcher
  BY DEF Next, World, Watcher

-----------------------------------------------------------------------------
(* A mention causes one review.                                            *)

Kept(m) == m \in state.handled \cup poll.handled

\* A pass starts from the saved list and only adds to it.
PassAddsToList ==
    /\ poll.on => state.handled \subseteq poll.handled
    /\ ~poll.on => poll = NoPoll

\* What a pass asks for is not on its list.
AsksForNews ==
    ask # NoAsk => poll.on /\ ask.trigger \notin poll.handled

\* What a review was queued for is on a list, or was forgotten.
AnswersAreKept == \A m \in Mentions \ forgotten : answered[m] > 0 => Kept(m)

OnceIInv == TypeOK /\ AskFits /\ PassAddsToList /\ AsksForNews /\ AnswersAreKept /\ AnsweredOnce

LEMMA OnceInit == Init => OnceIInv
<1> SUFFICES ASSUME Init PROVE OnceIInv
  OBVIOUS
<1>1. AskFits /\ AsksForNews
  BY DEF Init, AskFits, AsksForNews
<1>2. PassAddsToList
  BY DEF Init, PassAddsToList, NoPoll
<1>3. AnswersAreKept /\ AnsweredOnce
  BY DEF Init, AnswersAreKept, AnsweredOnce
<1> QED
  BY <1>1, <1>2, <1>3, TypeInit DEF OnceIInv

LEMMA OnceStutter ==
  ASSUME OnceIInv, TypeOK', watcher' = watcher
  PROVE  OnceIInv'
<1>1. /\ state' = state /\ poll' = poll /\ ask' = ask
      /\ answered' = answered /\ forgotten' = forgotten
  BY DEF watcher, history
<1> QED
  BY <1>1 DEF OnceIInv, AskFits, PassAddsToList, AsksForNews, AnswersAreKept, Kept,
              AnsweredOnce

LEMMA OnceStep ==
  ASSUME OnceIInv, Watcher, TypeOK', AskFits'
  PROVE  OnceIInv'
<1> USE DEF history
<1>i. /\ TypeOK /\ AskFits /\ PassAddsToList /\ AsksForNews /\ AnswersAreKept
      /\ AnsweredOnce
  BY DEF OnceIInv
<1>f. NoPoll.handled = {} /\ ~NoPoll.on
  BY EmptyTypes
<1>1. ASSUME NEW p \in Prs, ReadPr(p) PROVE OnceIInv'
  <2>0. poll.on /\ ask = NoAsk /\ state' = state /\ answered' = answered
        /\ forgotten' = forgotten
    BY <1>1 DEF ReadPr
  <2>1. poll'.on /\ poll.handled \subseteq poll'.handled
    <3>1. CASE Fresh(p) = {} \/ p \in busy
      <4>1. poll' = [poll EXCEPT !.todo = @ \ {p}, !.handled = @ \cup Fresh(p)]
        BY <1>1, <3>1 DEF ReadPr
      <4> QED
        BY <1>i, <2>0, <4>1 DEF TypeOK
    <3>2. CASE ~(Fresh(p) = {} \/ p \in busy)
      BY <1>1, <1>i, <3>2 DEF ReadPr, TypeOK
    <3> QED
      BY <3>1, <3>2
  <2>2. AsksForNews'
    <3>1. CASE Fresh(p) = {} \/ p \in busy
      BY <1>1, <2>0, <3>1 DEF ReadPr, AsksForNews
    <3>2. CASE ~(Fresh(p) = {} \/ p \in busy)
      <4>1. PICK m \in Fresh(p) : ask' = [pr |-> p, fresh |-> Fresh(p), trigger |-> m]
        BY <1>1, <3>2 DEF ReadPr
      <4>2. poll'.handled = poll.handled
        BY <1>1, <1>i, <3>2 DEF ReadPr, TypeOK
      <4> QED
        BY <2>1, <4>1, <4>2 DEF Fresh, AsksForNews
    <3> QED
      BY <3>1, <3>2
  <2>3. PassAddsToList'
    BY <1>i, <2>0, <2>1 DEF PassAddsToList
  <2>4. AnswersAreKept' /\ AnsweredOnce'
    BY <1>i, <2>0, <2>1 DEF AnswersAreKept, Kept, AnsweredOnce
  <2> QED
    BY <2>2, <2>3, <2>4 DEF OnceIInv
<1>2. CASE TurnOn
  <2>1. /\ state'.handled = state.handled /\ poll' = poll /\ ask' = ask
        /\ answered' = answered /\ forgotten' = forgotten
    BY <1>2 DEF TurnOn
  <2> QED
    BY <1>i, <2>1 DEF OnceIInv, PassAddsToList, AsksForNews, AnswersAreKept, Kept,
                      AnsweredOnce
<1>3. CASE TurnOff
  <2>1. state' = state /\ poll' = poll /\ ask' = ask /\ answered' = answered
        /\ forgotten' = forgotten
    BY <1>3 DEF TurnOff
  <2> QED
    BY <1>i, <2>1 DEF OnceIInv, PassAddsToList, AsksForNews, AnswersAreKept, Kept,
                      AnsweredOnce
<1>4. CASE PollStart
  <2>1. /\ state' = state /\ ~poll.on /\ poll'.on /\ poll'.handled = state.handled
        /\ ask' = ask /\ answered' = answered /\ forgotten' = forgotten
    BY <1>4 DEF PollStart
  <2>2. poll.handled = {} /\ ask = NoAsk
    BY <1>i, <1>f, <2>1 DEF PassAddsToList, AsksForNews
  <2> QED
    BY <1>i, <2>1, <2>2 DEF OnceIInv, PassAddsToList, AsksForNews, AnswersAreKept, Kept,
                            AnsweredOnce
<1>5. CASE Queued
  <2>1. /\ ask # NoAsk /\ ask' = NoAsk /\ state' = state /\ forgotten' = forgotten
        /\ answered' = [answered EXCEPT ![ask.trigger] = IF @ = 2 THEN 2 ELSE @ + 1]
    BY <1>5 DEF Queued
  <2>2. ask.trigger \in ask.fresh /\ ask.trigger \in Mentions /\ poll.on
        /\ ask.trigger \notin poll.handled
    BY <1>i, <2>1 DEF AskFits, AsksForNews, TypeOK
  <2>3. poll'.on /\ poll'.handled = poll.handled \cup ask.fresh
    BY <1>5, <1>i, <2>2 DEF Queued, TypeOK
  <2>4. ask.trigger \notin forgotten => answered[ask.trigger] = 0
    BY <1>i, <2>2 DEF AnswersAreKept, Kept, PassAddsToList, TypeOK
  <2>5. ASSUME NEW m \in Mentions \ forgotten
        PROVE  answered'[m] <= 1 /\ (answered'[m] > 0 => Kept(m)')
    <3>1. CASE m = ask.trigger
      BY <1>i, <2>1, <2>2, <2>3, <2>4, <3>1 DEF Kept, TypeOK
    <3>2. CASE m # ask.trigger
      BY <1>i, <2>1, <2>2, <2>3, <3>2 DEF Kept, TypeOK, AnswersAreKept, AnsweredOnce
    <3> QED
      BY <3>1, <3>2
  <2>6. PassAddsToList' /\ AsksForNews'
    BY <1>i, <2>1, <2>2, <2>3 DEF PassAddsToList, AsksForNews
  <2> QED
    BY <2>1, <2>5, <2>6 DEF OnceIInv, AnswersAreKept, AnsweredOnce
<1>6. CASE Refused
  <2>1. /\ ask # NoAsk /\ ask' = NoAsk /\ state' = state /\ forgotten' = forgotten
        /\ answered' = answered
    BY <1>6 DEF Refused
  <2>2. poll.on /\ poll'.on /\ poll.handled \subseteq poll'.handled
    <3>1. CASE poll.startedAt - at[ask.trigger] < Day
      BY <1>6, <1>i, <2>1, <3>1 DEF Refused, TypeOK, AsksForNews
    <3>2. CASE ~(poll.startedAt - at[ask.trigger] < Day)
      BY <1>6, <1>i, <2>1, <3>2 DEF Refused, TypeOK, AsksForNews
    <3> QED
      BY <3>1, <3>2
  <2> QED
    BY <1>i, <2>1, <2>2 DEF OnceIInv, PassAddsToList, AsksForNews, AnswersAreKept, Kept,
                            AnsweredOnce
<1>7. CASE PollDone
  <2>1. /\ poll.on /\ poll' = NoPoll /\ ask' = ask /\ ask = NoAsk
        /\ state'.handled = poll.handled
        /\ answered' = answered /\ forgotten' = forgotten
    BY <1>7 DEF PollDone
  <2> QED
    BY <1>i, <1>f, <2>1 DEF OnceIInv, PassAddsToList, AsksForNews, AnswersAreKept, Kept,
                            AnsweredOnce
<1>8. CASE PollThrows
  <2>1. /\ poll.on /\ poll' = NoPoll /\ ask' = ask /\ ask = NoAsk /\ state' = state
        /\ forgotten' = forgotten \cup (poll.handled \ state.handled)
        /\ answered' = answered
    BY <1>8 DEF PollThrows
  <2> QED
    BY <1>i, <1>f, <2>1 DEF OnceIInv, PassAddsToList, AsksForNews, AnswersAreKept, Kept,
                            AnsweredOnce
<1>9. CASE Restart
  <2>1. /\ poll' = NoPoll /\ ask' = NoAsk /\ answered' = answered
        /\ forgotten' = forgotten \cup ((poll.handled \cup state.handled) \ file.handled)
        /\ state'.handled = file.handled
    BY <1>9 DEF Restart
  <2> QED
    BY <1>i, <1>f, <2>1 DEF OnceIInv, PassAddsToList, AsksForNews, AnswersAreKept, Kept,
                            AnsweredOnce
<1> QED
  BY <1>1, <1>2, <1>3, <1>4, <1>5, <1>6, <1>7, <1>8, <1>9 DEF Watcher

LEMMA OnceNext == OnceIInv /\ [Next]_vars => OnceIInv'
<1> SUFFICES ASSUME OnceIInv, [Next]_vars PROVE OnceIInv'
  OBVIOUS
<1>1. TypeOK /\ AskFits
  BY DEF OnceIInv
<1>2. CASE World
  BY <1>1, <1>2, WorldKeepsTypes, OnceStutter
<1>3. CASE Watcher
  BY <1>1, <1>3, WatcherKeepsTypes, AskStaysFit, OnceStep
<1>4. CASE UNCHANGED vars
  <2>1. watcher' = watcher /\ TypeOK'
    BY <1>1, <1>4 DEF vars, watcher, history, comments, TypeOK
  <2> QED
    BY <2>1, OnceStutter
<1> QED
  BY <1>2, <1>3, <1>4, NextSplits

\* A mention causes one review at most, whatever is refused, fails, crashes,
\* comes late, cannot be saved or is switched off and on, unless the pass that
\* dealt with it ended before what it did was kept (the handled list of
\* pollOnce).
THEOREM MentionsAreAnsweredOnce == Spec => []AnsweredOnce
<1>1. OnceIInv => AnsweredOnce
  BY DEF OnceIInv
<1> QED
  BY <1>1, OnceInit, OnceNext, PTL DEF Spec

-----------------------------------------------------------------------------
(* No mention is left behind.                                              *)

\* What a poll looks at: nothing a day old, and what InReach says, which is
\* the clock or a pending mention, and Overlap before it.
InReach(n, since, pend) ==
    \/ at[n] >= since - Overlap
    \/ \E k \in pend : at[n] >= at[k] - Overlap

LEMMA LooksFromReaches ==
  ASSUME TypeOK, state.since # NoClock, NEW n \in Mentions
  PROVE  at[n] >= LooksFrom(now) <=>
            at[n] >= now - Day /\ InReach(n, state.since, state.pending)
<1> DEFINE S == {state.since} \cup {at[m] : m \in state.pending}
<1>1. S \in SUBSET Nat /\ S # {} /\ at[n] \in Nat /\ now \in Nat
  BY TimeAssumption DEF TypeOK, Times, States, NoClock
<1>2. LooksFrom(now) = Max({now - Day, Min(S) - Overlap})
  BY DEF LooksFrom
<1>3. InReach(n, state.since, state.pending) <=> \E s \in S : at[n] >= s - Overlap
  BY DEF InReach
<1> DEFINE least == Min(S)
<1>4. least \in S /\ \A s \in S : least <= s
  <2> HIDE DEF S
  <2> QED
    BY <1>1, MinOfNaturals
<1> HIDE DEF S, least
<1>5. least \in Nat /\ Overlap \in Nat /\ now - Day \in Int
  BY <1>1, <1>4, TimeAssumption
<1>6. ASSUME NEW s \in S, at[n] >= s - Overlap
      PROVE  at[n] >= least - Overlap
  <2>1. s \in Nat /\ least <= s
    BY <1>1, <1>4
  <2> QED
    BY <1>1, <1>5, <1>6, <2>1
<1>7. InReach(n, state.since, state.pending) <=> at[n] >= least - Overlap
  BY <1>3, <1>4, <1>6
<1>8. LooksFrom(now) = Max({now - Day, least - Overlap})
  BY <1>2 DEF least
<1>9. LooksFrom(now) = IF now - Day >= least - Overlap THEN now - Day ELSE least - Overlap
  BY <1>5, <1>8, MaxOfTwo
<1> QED
  BY <1>1, <1>5, <1>7, <1>9

\* The file holds the watcher's state; the clock of a watch that was ever
\* turned on runs; nothing is dated in the future.
Clock ==
    /\ file = state
    /\ enabled => turnedOn # NoClock
    /\ turnedOn # NoClock => state.since # NoClock
    /\ turnedOn <= now /\ state.since <= now
    /\ \A m \in Mentions : at[m] <= now

\* Only a recent comment is missing from GitHub's search, and only what it
\* has shown is retried.
Lag ==
    /\ \A m \in Mentions : Written(m) /\ m \notin seen => now <= at[m] + Overlap
    /\ \A m \in seen : Written(m)
    /\ state.pending \subseteq seen /\ poll.still \subseteq seen

\* What a pass has in hand.
Passes ==
    /\ state.handled \subseteq dealt /\ poll.handled \subseteq dealt
    /\ poll.on => poll.startedAt # NoClock /\ poll.startedAt <= now /\ turnedOn # NoClock
    /\ ask # NoAsk =>
          /\ poll.on /\ ask.fresh \subseteq seen
          /\ \A n \in ask.fresh : at[n] >= poll.from /\ at[n] <= at[ask.trigger]

\* A mention is retried in the place of earlier ones.
ViaIsLater ==
    \A m \in Mentions :
        /\ ~Written(m) => via[m] = m
        /\ Written(m) => Written(via[m]) /\ at[via[m]] >= at[m]

Due(m) == Written(m) /\ at[m] >= turnedOn

Over(n) == n \in dealt \/ at[n] < now - Day

\* What is due and not over, the next poll reaches from the saved state ...
StateCovers ==
    turnedOn # NoClock =>
        \A m \in Mentions :
            Due(m) => Over(via[m]) \/ InReach(via[m], state.since, state.pending)

\* ... and, from what a pass will save, the one after it, unless this pass has
\* yet to read or to settle it.
PollCovers ==
    poll.on =>
        \A m \in Mentions :
            Due(m) =>
                \/ Over(via[m])
                \/ InReach(via[m], poll.startedAt, poll.still)
                \/ via[m] \in seen /\ pr[via[m]] \in poll.todo /\ at[via[m]] >= poll.from
                \/ via[m] \in ask.fresh

\* A pass that fails leaves a state that reaches what it read.
PollIsCovered ==
    poll.on => \A n \in Mentions :
        Due(n) /\ at[n] >= poll.from => InReach(n, state.since, state.pending)

LeftIInv == TypeOK /\ AskFits /\ Clock /\ Lag /\ Passes /\ ViaIsLater
              /\ StateCovers /\ PollCovers /\ PollIsCovered

\* The invariant says what the property says.
LEMMA LeftIInvSuffices == LeftIInv => NothingLeftBehind
<1> SUFFICES ASSUME LeftIInv, enabled, NEW m \in Mentions, Written(m), at[m] >= turnedOn
             PROVE  \/ at[via[m]] < now - Day
                    \/ via[m] \in dealt
                    \/ at[via[m]] >= LooksFrom(now)
  BY DEF NothingLeftBehind, LeftIInv
<1>1. TypeOK /\ turnedOn # NoClock /\ state.since # NoClock /\ via[m] \in Mentions
  BY DEF LeftIInv, Clock, TypeOK
<1>2. Over(via[m]) \/ InReach(via[m], state.since, state.pending)
  BY <1>1 DEF LeftIInv, StateCovers, Due
<1>3. at[via[m]] \in Int /\ now - Day \in Int
  BY <1>1, TimeAssumption DEF TypeOK, Times, NoClock
<1> QED
  BY <1>1, <1>2, <1>3, LooksFromReaches DEF Over

LEMMA LeftInit == Init => LeftIInv
<1> SUFFICES ASSUME Init PROVE LeftIInv
  OBVIOUS
<1> USE DEF Init, NoClock
<1>1. AskFits
  BY DEF AskFits
<1>2. Clock
  BY DEF Clock, Empty
<1>3. Lag /\ Passes
  BY DEF Lag, Passes, Written, Empty, NoPoll
<1>4. ViaIsLater /\ StateCovers /\ PollCovers /\ PollIsCovered
  BY DEF ViaIsLater, StateCovers, PollCovers, PollIsCovered, Written, NoPoll
<1> QED
  BY <1>1, <1>2, <1>3, <1>4, TypeInit DEF LeftIInv

LEMMA Numbers ==
  ASSUME TypeOK
  PROVE  /\ now \in Nat /\ turnedOn \in Nat /\ at \in [Mentions -> Nat]
         /\ state.since \in Nat /\ poll.startedAt \in Nat /\ poll.from \in Int
         /\ Overlap \in Nat /\ Day \in Nat
         /\ state.pending \in SUBSET Mentions /\ poll.still \in SUBSET Mentions
         /\ via \in [Mentions -> Mentions] /\ seen \in SUBSET Mentions
         /\ ask.fresh \in SUBSET Mentions
  BY TimeAssumption DEF TypeOK, Times, NoClock, States

\* Time passes, comments are written, are shown by GitHub.
LEMMA WorldLeavesNothing ==
  ASSUME LeftIInv, TypeOK', watcher' = watcher, pr' = pr, seen \subseteq seen', now <= now',
         \A m \in Mentions : at'[m] = at[m] \/ (at[m] = NoClock /\ at'[m] = now'),
         Lag'
  PROVE  LeftIInv'
<1>i. /\ TypeOK /\ AskFits /\ Clock /\ Lag /\ Passes /\ ViaIsLater
      /\ StateCovers /\ PollCovers /\ PollIsCovered
  BY DEF LeftIInv
<1>u. /\ enabled' = enabled /\ state' = state /\ file' = file /\ poll' = poll /\ ask' = ask
      /\ turnedOn' = turnedOn /\ dealt' = dealt /\ via' = via
  BY DEF watcher, history
<1>n. /\ now \in Nat /\ now' \in Nat /\ turnedOn \in Nat /\ at \in [Mentions -> Nat]
      /\ at' \in [Mentions -> Nat]
      /\ state.since \in Nat /\ poll.startedAt \in Nat /\ poll.from \in Int
      /\ Overlap \in Nat /\ Day \in Nat
      /\ state.pending \in SUBSET Mentions /\ poll.still \in SUBSET Mentions
      /\ via \in [Mentions -> Mentions] /\ seen \in SUBSET Mentions
      /\ ask.fresh \in SUBSET Mentions
  <2>1. at' \in [Mentions -> Nat] /\ now' \in Nat
    BY DEF TypeOK, Times, NoClock
  <2> QED
    BY <1>i, <2>1, Numbers
<1>w. /\ \A m \in Mentions : Written(m) => at'[m] = at[m]
      /\ \A m \in seen : at'[m] = at[m]
  BY <1>i, <1>n DEF Written, Lag
<1>1. AskFits'
  BY <1>i, <1>u DEF AskFits
<1>2. Clock'
  BY <1>i, <1>u, <1>n DEF Clock
<1>3. Passes'
  <2>1. ASSUME ask # NoAsk, NEW n \in ask.fresh
        PROVE  at'[n] >= poll.from /\ at'[n] <= at'[ask.trigger]
    <3>1. n \in seen /\ ask.trigger \in seen /\ at[n] >= poll.from
          /\ at[n] <= at[ask.trigger]
      BY <1>i, <2>1 DEF Passes, AskFits
    <3> QED
      BY <1>w, <3>1
  <2>2. ask # NoAsk => ask.fresh \subseteq seen'
    BY <1>i DEF Passes
  <2>3. poll.startedAt <= now => poll.startedAt <= now'
    BY <1>n
  <2> QED
    BY <1>i, <1>u, <2>1, <2>2, <2>3 DEF Passes
<1>4. ViaIsLater'
  <2> SUFFICES ASSUME NEW m \in Mentions
               PROVE  /\ at'[m] = NoClock => via[m] = m
                      /\ at'[m] # NoClock => at'[via[m]] # NoClock /\ at'[via[m]] >= at'[m]
    BY <1>u DEF ViaIsLater, Written
  <2>1. CASE Written(m)
    BY <1>i, <1>n, <1>w, <2>1 DEF ViaIsLater, Written
  <2>2. CASE ~Written(m)
    BY <1>i, <1>n, <2>2 DEF ViaIsLater, Written
  <2> QED
    BY <2>1, <2>2
<1>v. ASSUME NEW m \in Mentions, Due(m)'
      PROVE  \/ Due(m) /\ at'[via[m]] = at[via[m]]
             \/ via[m] = m /\ at'[m] = now'
  <2>1. CASE Written(m)
    BY <1>i, <1>n, <1>u, <1>v, <1>w, <2>1 DEF ViaIsLater, Written, Due
  <2>2. CASE ~Written(m)
    BY <1>i, <1>n, <1>v, <2>2 DEF ViaIsLater, Written, Due
  <2> QED
    BY <2>1, <2>2
<1>o. ASSUME NEW n \in Mentions, Over(n), at'[n] = at[n] PROVE Over(n)'
  BY <1>n, <1>o, <1>u DEF Over
<1>5. StateCovers'
  <2> SUFFICES ASSUME turnedOn # NoClock, NEW m \in Mentions, Due(m)'
               PROVE  Over(via[m])' \/ InReach(via[m], state.since, state.pending)'
    BY <1>u DEF StateCovers, Over, InReach
  <2>1. CASE via[m] = m /\ at'[m] = now'
    BY <1>i, <1>n, <1>u, <2>1 DEF InReach, Clock
  <2>2. CASE Due(m) /\ at'[via[m]] = at[via[m]]
    <3>1. Over(via[m]) \/ InReach(via[m], state.since, state.pending)
      BY <1>i, <2>2 DEF StateCovers
    <3>2. CASE InReach(via[m], state.since, state.pending)
      BY <1>i, <1>u, <1>w, <2>2, <3>2 DEF InReach, Lag
    <3> QED
      BY <1>n, <1>o, <1>u, <2>2, <3>1, <3>2
  <2> QED
    BY <1>v, <2>1, <2>2
<1>6. PollCovers'
  <2> SUFFICES ASSUME poll.on, NEW m \in Mentions, Due(m)'
               PROVE  \/ Over(via[m])'
                      \/ InReach(via[m], poll.startedAt, poll.still)'
                      \/ /\ via[m] \in seen' /\ pr[via[m]] \in poll.todo
                         /\ at'[via[m]] >= poll.from
                      \/ via[m] \in ask.fresh
    BY <1>u DEF PollCovers, Over, InReach
  <2>1. CASE via[m] = m /\ at'[m] = now'
    BY <1>i, <1>n, <1>u, <2>1 DEF InReach, Passes
  <2>2. CASE Due(m) /\ at'[via[m]] = at[via[m]]
    <3>1. \/ Over(via[m])
          \/ InReach(via[m], poll.startedAt, poll.still)
          \/ via[m] \in seen /\ pr[via[m]] \in poll.todo /\ at[via[m]] >= poll.from
          \/ via[m] \in ask.fresh
      BY <1>i, <2>2 DEF PollCovers
    <3>2. CASE InReach(via[m], poll.startedAt, poll.still)
      BY <1>i, <1>u, <1>w, <2>2, <3>2 DEF InReach, Lag
    <3> QED
      BY <1>n, <1>o, <1>u, <2>2, <3>1, <3>2
  <2> QED
    BY <1>v, <2>1, <2>2
<1>7. PollIsCovered'
  <2> SUFFICES ASSUME poll.on, NEW n \in Mentions, Due(n)', at'[n] >= poll.from
               PROVE  InReach(n, state.since, state.pending)'
    BY <1>u DEF PollIsCovered, InReach
  <2>1. CASE Written(n)
    <3>1. Due(n) /\ at[n] >= poll.from /\ at'[n] = at[n]
      BY <1>u, <1>w, <2>1 DEF Due
    <3>2. InReach(n, state.since, state.pending)
      BY <1>i, <3>1 DEF PollIsCovered
    <3> QED
      BY <1>i, <1>u, <1>w, <3>1, <3>2 DEF InReach, Lag
  <2>2. CASE ~Written(n)
    BY <1>i, <1>n, <1>u, <2>2 DEF InReach, Clock, Written, Due
  <2> QED
    BY <2>1, <2>2
<1> QED
  BY <1>1, <1>2, <1>3, <1>4, <1>5, <1>6, <1>7 DEF LeftIInv

LEMMA LeftWorld == ASSUME LeftIInv, World PROVE LeftIInv'
<1>i. TypeOK /\ Lag /\ Clock
  BY DEF LeftIInv
<1>t. TypeOK' /\ watcher' = watcher
  BY <1>i, WorldKeepsTypes
<1>u. state' = state /\ poll' = poll
  BY <1>t DEF watcher
<1>n. /\ now \in Nat /\ at \in [Mentions -> Nat] /\ Overlap \in Nat
      /\ seen \in SUBSET Mentions
  BY <1>i, Numbers
<1>1. CASE Tick
  <2>1. now' = now + 1 /\ at' = at /\ pr' = pr /\ seen' = seen
        /\ \A m \in Mentions : Written(m) /\ m \notin seen => now < at[m] + Overlap
    BY <1>1 DEF Tick, comments
  <2>2. Lag'
    BY <1>i, <1>n, <1>u, <2>1 DEF Lag, Written
  <2> QED
    BY <1>n, <1>t, <2>1, <2>2, WorldLeavesNothing
<1>2. ASSUME NEW m \in Mentions, Write(m) PROVE LeftIInv'
  <2>1. now' = now /\ pr' = pr /\ seen' = seen /\ at' = [at EXCEPT ![m] = now]
        /\ at[m] = NoClock
    BY <1>2 DEF Write, Written
  <2>2. Lag'
    BY <1>i, <1>n, <1>u, <2>1 DEF Lag, Written, NoClock, TypeOK, Times
  <2> QED
    BY <1>n, <1>t, <2>1, <2>2, WorldLeavesNothing
<1>3. ASSUME NEW m \in Mentions, Appear(m) PROVE LeftIInv'
  <2>1. now' = now /\ pr' = pr /\ at' = at /\ seen' = seen \cup {m} /\ Written(m)
    BY <1>3 DEF Appear
  <2>2. Lag'
    BY <1>i, <1>n, <1>u, <2>1 DEF Lag, Written
  <2> QED
    BY <1>n, <1>t, <2>1, <2>2, WorldLeavesNothing
<1>4. ASSUME NEW p \in Prs, ReviewStartsOrEnds(p) PROVE LeftIInv'
  <2>1. now' = now /\ pr' = pr /\ at' = at /\ seen' = seen
    BY <1>4 DEF ReviewStartsOrEnds, comments
  <2>2. Lag'
    BY <1>i, <1>u, <2>1 DEF Lag, Written
  <2> QED
    BY <1>n, <1>t, <2>1, <2>2, WorldLeavesNothing
<1> QED
  BY <1>1, <1>2, <1>3, <1>4 DEF World

-----------------------------------------------------------------------------
(* The watcher's own steps; the file can be written.                       *)

\* What a step of the watcher leaves alone.
LEMMA SameWorld ==
  ASSUME Watcher
  PROVE  now' = now /\ at' = at /\ pr' = pr /\ seen' = seen
<1> USE DEF comments
<1>1. ASSUME NEW p \in Prs, ReadPr(p) PROVE now' = now /\ at' = at /\ pr' = pr /\ seen' = seen
  BY <1>1 DEF ReadPr
<1>2. CASE TurnOn \/ TurnOff \/ PollStart
  BY <1>2 DEF TurnOn, TurnOff, PollStart
<1>3. CASE Queued \/ Refused
  BY <1>3 DEF Queued, Refused
<1>4. CASE PollDone \/ PollThrows \/ Restart
  BY <1>4 DEF PollDone, PollThrows, Restart
<1> QED
  BY <1>1, <1>2, <1>3, <1>4 DEF Watcher

LEMMA SavedIsKept ==
  ASSUME "save" \notin Faults, NEW s, Save(s)
  PROVE  file' = s
  BY DEF Save

\* The watch is turned on, off, or a pass ends without being kept: nothing
\* the saved state has to reach is added.
LEMMA LeftWithoutPass ==
  ASSUME LeftIInv, TypeOK', AskFits',
         now' = now, at' = at, pr' = pr, seen' = seen,
         enabled' = TRUE => enabled = TRUE,
         state' = state, file' = file, turnedOn' = turnedOn, dealt' = dealt, via' = via,
         \/ poll' = poll /\ ask' = ask
         \/ poll' = NoPoll /\ ask' = NoAsk
  PROVE  LeftIInv'
<1>i. /\ TypeOK /\ AskFits /\ Clock /\ Lag /\ Passes /\ ViaIsLater
      /\ StateCovers /\ PollCovers /\ PollIsCovered
  BY DEF LeftIInv
<1>1. Clock'
  BY <1>i DEF Clock, TypeOK
<1>2. ViaIsLater' /\ StateCovers'
  BY <1>i DEF ViaIsLater, Written, StateCovers, Due, Over, InReach
<1>3. CASE poll' = poll /\ ask' = ask
  <2>1. Lag' /\ Passes'
    BY <1>i, <1>3 DEF Lag, Written, Passes
  <2>2. PollCovers' /\ PollIsCovered'
    BY <1>i, <1>3 DEF PollCovers, PollIsCovered, Written, Due, Over, InReach
  <2> QED
    BY <1>1, <1>2, <2>1, <2>2 DEF LeftIInv
<1>4. CASE poll' = NoPoll /\ ask' = NoAsk
  <2>1. ~poll'.on /\ poll'.handled = {} /\ poll'.still = {}
    BY <1>4, EmptyTypes
  <2>2. Lag' /\ Passes'
    BY <1>i, <1>4, <2>1 DEF Lag, Written, Passes
  <2>3. PollCovers' /\ PollIsCovered'
    BY <2>1 DEF PollCovers, PollIsCovered
  <2> QED
    BY <1>1, <1>2, <2>2, <2>3 DEF LeftIInv
<1> QED
  BY <1>3, <1>4

LEMMA LeftTurnOn ==
  ASSUME LeftIInv, TypeOK', AskFits', "save" \notin Faults, TurnOn
  PROVE  LeftIInv'
<1>i. /\ TypeOK /\ AskFits /\ Clock /\ Lag /\ Passes /\ ViaIsLater
      /\ StateCovers /\ PollCovers /\ PollIsCovered
  BY DEF LeftIInv
<1>n. /\ now \in Nat /\ now # NoClock /\ turnedOn \in Nat /\ at \in [Mentions -> Nat]
      /\ poll.startedAt \in Nat /\ Overlap \in Nat /\ Day \in Nat
      /\ via \in [Mentions -> Mentions]
  BY <1>i, Numbers DEF TypeOK, Times, NoClock
<1>s. now' = now /\ at' = at /\ pr' = pr /\ seen' = seen
  BY SameWorld DEF Watcher
<1>u. /\ enabled' = TRUE /\ turnedOn' = now /\ poll' = poll /\ ask' = ask
      /\ dealt' = dealt /\ via' = via
      /\ state' = [since |-> now, handled |-> state.handled, pending |-> {}]
  BY DEF TurnOn
<1>f. file' = state'
  BY SavedIsKept DEF TurnOn
<1>h. state'.since = now /\ state'.handled = state.handled /\ state'.pending = {}
  BY <1>u
<1>1. Clock'
  BY <1>i, <1>n, <1>s, <1>u, <1>f, <1>h DEF Clock
<1>2. Lag' /\ Passes'
  BY <1>i, <1>n, <1>s, <1>u, <1>h DEF Lag, Passes, Written
<1>3. ViaIsLater'
  BY <1>i, <1>s, <1>u DEF ViaIsLater, Written
<1>4. ASSUME NEW m \in Mentions, Due(m)'
      PROVE  at[via[m]] >= now
  BY <1>i, <1>n, <1>s, <1>u, <1>4 DEF Due, ViaIsLater, Written
<1>5. StateCovers'
  BY <1>n, <1>s, <1>u, <1>h, <1>4 DEF StateCovers, InReach
<1>6. ASSUME poll.on, NEW m \in Mentions, Due(m)'
      PROVE  InReach(via[m], poll.startedAt, poll.still)'
  <2>1. at[via[m]] \in Nat /\ at[via[m]] >= now /\ poll.startedAt <= now
    BY <1>i, <1>n, <1>4, <1>6 DEF Passes
  <2> QED
    BY <1>n, <1>s, <1>u, <2>1 DEF InReach
<1>7. PollCovers'
  BY <1>u, <1>6 DEF PollCovers, InReach
<1>8. PollIsCovered'
  BY <1>n, <1>s, <1>u, <1>h DEF PollIsCovered, InReach, Due
<1> QED
  BY <1>1, <1>2, <1>3, <1>5, <1>7, <1>8 DEF LeftIInv

LEMMA LeftPollStart ==
  ASSUME LeftIInv, TypeOK', AskFits', PollStart
  PROVE  LeftIInv'
<1>i. /\ TypeOK /\ AskFits /\ Clock /\ Lag /\ Passes /\ ViaIsLater
      /\ StateCovers /\ PollCovers /\ PollIsCovered
  BY DEF LeftIInv
<1>n. /\ now \in Nat /\ now # NoClock /\ turnedOn \in Nat /\ at \in [Mentions -> Nat]
      /\ Overlap \in Nat /\ Day \in Nat /\ via \in [Mentions -> Mentions]
  BY <1>i, Numbers DEF TypeOK, Times, NoClock
<1>s. now' = now /\ at' = at /\ pr' = pr /\ seen' = seen
  BY SameWorld DEF Watcher
<1>u. /\ enabled /\ enabled' = enabled /\ turnedOn' = turnedOn /\ state' = state
      /\ file' = file /\ ask' = ask /\ dealt' = dealt /\ via' = via /\ ~poll.on
  BY DEF PollStart, history
<1>p. /\ poll'.on /\ poll'.startedAt = now /\ poll'.from = LooksFrom(now)
      /\ poll'.todo = {pr[m] : m \in {n \in seen : at[n] >= LooksFrom(now)}}
      /\ poll'.handled = state.handled /\ poll'.still = {}
  BY DEF PollStart
<1>a. ask = NoAsk /\ turnedOn # NoClock /\ state.since # NoClock
  BY <1>i, <1>u DEF Passes, Clock
<1>1. Clock'
  BY <1>i, <1>s, <1>u DEF Clock
<1>2. Lag' /\ Passes'
  BY <1>i, <1>n, <1>s, <1>u, <1>p, <1>a DEF Lag, Passes, Written
<1>3. ViaIsLater' /\ StateCovers'
  BY <1>i, <1>s, <1>u DEF ViaIsLater, Written, StateCovers, Due, Over, InReach
<1>4. ASSUME NEW m \in Mentions, Due(m), ~Over(via[m])
      PROVE  \/ at[via[m]] >= now - Overlap
             \/ /\ via[m] \in seen /\ pr[via[m]] \in poll'.todo
                /\ at[via[m]] >= LooksFrom(now)
  <2>1. via[m] \in Mentions /\ Written(via[m]) /\ at[via[m]] \in Nat
    BY <1>i, <1>n, <1>4 DEF ViaIsLater, Due
  <2>2. InReach(via[m], state.since, state.pending) /\ at[via[m]] >= now - Day
    BY <1>i, <1>a, <1>n, <1>4, <2>1 DEF StateCovers, Over
  <2>3. at[via[m]] >= LooksFrom(now)
    BY <1>i, <1>a, <2>1, <2>2, LooksFromReaches
  <2>4. CASE via[m] \in seen
    BY <1>p, <2>3, <2>4
  <2>5. CASE via[m] \notin seen
    BY <1>i, <1>n, <2>1, <2>5 DEF Lag
  <2> QED
    BY <2>4, <2>5
<1>5. PollCovers'
  <2> SUFFICES ASSUME NEW m \in Mentions, Due(m), ~Over(via[m])
               PROVE  \/ InReach(via[m], now, {})
                      \/ /\ via[m] \in seen /\ pr[via[m]] \in poll'.todo
                         /\ at[via[m]] >= LooksFrom(now)
    BY <1>s, <1>u, <1>p DEF PollCovers, Due, Written, Over, InReach
  <2> QED
    BY <1>4 DEF InReach
<1>6. PollIsCovered'
  <2> SUFFICES ASSUME NEW n \in Mentions, at[n] >= LooksFrom(now)
               PROVE  InReach(n, state.since, state.pending)
    BY <1>s, <1>u, <1>p DEF PollIsCovered, Due, Written, InReach
  <2> QED
    BY <1>i, <1>a, LooksFromReaches
<1> QED
  BY <1>1, <1>2, <1>3, <1>5, <1>6 DEF LeftIInv

\* A step inside a pass: it reads a pull request, or hears what became of the
\* review it asked for.  What was in its hands is dealt with, is asked for, is
\* retried, or is still to read.
LEMMA LeftInPass ==
  ASSUME LeftIInv, TypeOK', AskFits', ViaIsLater', StateCovers',
         now' = now, at' = at, pr' = pr, seen' = seen,
         enabled' = enabled, state' = state, file' = file, turnedOn' = turnedOn,
         dealt \subseteq dealt', poll.on,
         poll'.on = TRUE, poll'.startedAt = poll.startedAt, poll'.from = poll.from,
         poll'.handled \subseteq dealt', poll.still \subseteq poll'.still,
         poll'.still \subseteq seen,
         ask' # NoAsk =>
            /\ ask'.fresh \subseteq seen
            /\ \A n \in ask'.fresh : at[n] >= poll.from /\ at[n] <= at[ask'.trigger],
         \A m \in Mentions :
            \/ via'[m] = via[m]
            \/ via'[m] \in poll'.still,
         \A n \in Mentions :
            (n \in seen /\ pr[n] \in poll.todo /\ at[n] >= poll.from) \/ n \in ask.fresh =>
                \/ n \in dealt' \/ n \in ask'.fresh
                \/ n \in seen /\ pr[n] \in poll'.todo /\ at[n] >= poll.from
                \/ \A m \in Mentions : via'[m] # n
                \/ n \in poll'.still
  PROVE  LeftIInv'
<1>i. /\ TypeOK /\ AskFits /\ Clock /\ Lag /\ Passes /\ ViaIsLater
      /\ StateCovers /\ PollCovers /\ PollIsCovered
  BY DEF LeftIInv
<1>n. /\ now \in Nat /\ turnedOn \in Nat /\ at \in [Mentions -> Nat]
      /\ Overlap \in Nat /\ Day \in Nat /\ via \in [Mentions -> Mentions]
      /\ via' \in [Mentions -> Mentions]
  BY <1>i, Numbers DEF TypeOK
<1>1. Clock'
  BY <1>i DEF Clock
<1>2. Lag' /\ Passes'
  BY <1>i DEF Lag, Passes, Written
<1>3. ASSUME NEW n \in Mentions, n \in poll'.still
      PROVE  InReach(n, poll'.startedAt, poll'.still)
  <2>1. at[n] \in Nat
    BY <1>n
  <2>2. at[n] >= at[n] - Overlap
    BY <1>n, <2>1
  <2> QED
    BY <1>3, <2>2 DEF InReach
<1>4. ASSUME NEW n \in Mentions, InReach(n, poll.startedAt, poll.still)
      PROVE  InReach(n, poll'.startedAt, poll'.still)
  BY <1>4 DEF InReach
<1>5. ASSUME NEW m \in Mentions, Due(m)
      PROVE  \/ via'[m] \in dealt' \/ at[via'[m]] < now - Day
             \/ InReach(via'[m], poll'.startedAt, poll'.still)
             \/ via'[m] \in seen /\ pr[via'[m]] \in poll'.todo /\ at[via'[m]] >= poll.from
             \/ via'[m] \in ask'.fresh
  <2>0. via'[m] \in Mentions /\ via[m] \in Mentions
    BY <1>n
  <2>1. CASE via'[m] \in poll'.still
    BY <1>3, <2>0, <2>1
  <2>2. CASE via'[m] = via[m]
    <3>1. \/ Over(via[m])
          \/ InReach(via[m], poll.startedAt, poll.still)
          \/ via[m] \in seen /\ pr[via[m]] \in poll.todo /\ at[via[m]] >= poll.from
          \/ via[m] \in ask.fresh
      BY <1>i, <1>5 DEF PollCovers
    <3>2. CASE Over(via[m])
      BY <2>2, <3>2 DEF Over
    <3>3. CASE InReach(via[m], poll.startedAt, poll.still)
      BY <1>4, <2>0, <2>2, <3>3
    <3>4. CASE \/ via[m] \in seen /\ pr[via[m]] \in poll.todo /\ at[via[m]] >= poll.from
               \/ via[m] \in ask.fresh
      BY <1>3, <2>0, <2>2, <3>4
    <3> QED
      BY <3>1, <3>2, <3>3, <3>4
  <2> QED
    BY <2>1, <2>2
<1>6. PollCovers'
  BY <1>5 DEF PollCovers, Over, InReach, Due, Written
<1>7. PollIsCovered'
  BY <1>i DEF PollIsCovered, Due, Written, InReach
<1> QED
  BY <1>1, <1>2, <1>6, <1>7 DEF LeftIInv

LEMMA LeftReadPr ==
  ASSUME LeftIInv, TypeOK', AskFits', NEW p \in Prs, ReadPr(p)
  PROVE  LeftIInv'
<1>i. /\ TypeOK /\ AskFits /\ Clock /\ Lag /\ Passes /\ ViaIsLater
      /\ StateCovers /\ PollCovers /\ PollIsCovered
  BY DEF LeftIInv
<1>n. /\ now \in Nat /\ turnedOn \in Nat /\ at \in [Mentions -> Nat]
      /\ Overlap \in Nat /\ Day \in Nat /\ via \in [Mentions -> Mentions]
      /\ seen \in SUBSET Mentions
  BY <1>i, Numbers
<1>s. now' = now /\ at' = at /\ pr' = pr /\ seen' = seen
  BY SameWorld DEF Watcher
<1>u. /\ enabled' = enabled /\ turnedOn' = turnedOn /\ state' = state
      /\ file' = file /\ via' = via /\ poll.on /\ ask = NoAsk
  BY DEF ReadPr
<1>a. ask.fresh = {} /\ Fresh(p) \subseteq seen
  BY <1>u DEF NoAsk, Fresh
<1>1. ViaIsLater'
  BY <1>i, <1>s, <1>u DEF ViaIsLater, Written
<1>2. CASE Fresh(p) = {} \/ p \in busy
  <2>1. poll' = [poll EXCEPT !.todo = @ \ {p}, !.handled = @ \cup Fresh(p)]
        /\ dealt' = dealt \cup Fresh(p) /\ ask' = ask
    BY <1>2 DEF ReadPr
  <2>2. /\ poll'.on = TRUE /\ poll'.startedAt = poll.startedAt /\ poll'.from = poll.from
        /\ poll'.still = poll.still /\ poll'.todo = poll.todo \ {p}
        /\ poll'.handled = poll.handled \cup Fresh(p)
    BY <1>i, <1>u, <2>1 DEF TypeOK
  <2>3. StateCovers'
    BY <1>i, <1>s, <1>u, <2>1 DEF StateCovers, Due, Written, Over, InReach
  <2>4. ASSUME NEW n \in seen, pr[n] \in poll.todo, at[n] >= poll.from
        PROVE  n \in dealt' \/ pr[n] \in poll'.todo
    <3>1. CASE pr[n] = p
      BY <1>i, <2>1, <2>4, <3>1 DEF Fresh, Passes
    <3>2. CASE pr[n] # p
      BY <2>2, <2>4, <3>2
    <3> QED
      BY <3>1, <3>2
  <2>5. poll'.handled \subseteq dealt' /\ poll'.still \subseteq seen
    BY <1>i, <2>1, <2>2 DEF Passes, Lag
  <2> QED
    BY <1>1, <1>a, <1>s, <1>u, <2>1, <2>2, <2>3, <2>4, <2>5, LeftInPass
<1>3. CASE ~(Fresh(p) = {} \/ p \in busy)
  <2>1. poll' = [poll EXCEPT !.todo = @ \ {p}] /\ dealt' = dealt
    BY <1>3 DEF ReadPr
  <2>2. /\ poll'.on = TRUE /\ poll'.startedAt = poll.startedAt /\ poll'.from = poll.from
        /\ poll'.still = poll.still /\ poll'.todo = poll.todo \ {p}
        /\ poll'.handled = poll.handled
    BY <1>i, <1>u, <2>1 DEF TypeOK
  <2>3. StateCovers'
    BY <1>i, <1>s, <1>u, <2>1 DEF StateCovers, Due, Written, Over, InReach
  <2>4. PICK m \in Fresh(p) : /\ \A n \in Fresh(p) : at[n] <= at[m]
                              /\ ask' = [pr |-> p, fresh |-> Fresh(p), trigger |-> m]
    BY <1>3 DEF ReadPr
  <2>5. ask'.fresh = Fresh(p) /\ ask'.trigger = m
    BY <2>4
  <2>6. ASSUME NEW n \in seen, pr[n] \in poll.todo, at[n] >= poll.from
        PROVE  n \in dealt' \/ n \in ask'.fresh \/ pr[n] \in poll'.todo
    <3>1. CASE pr[n] = p
      BY <1>i, <2>1, <2>5, <2>6, <3>1 DEF Fresh, Passes
    <3>2. CASE pr[n] # p
      BY <2>2, <2>6, <3>2
    <3> QED
      BY <3>1, <3>2
  <2>7. poll'.handled \subseteq dealt' /\ poll'.still \subseteq seen
    BY <1>i, <2>1, <2>2 DEF Passes, Lag
  <2>8. \A n \in ask'.fresh : at[n] >= poll.from /\ at[n] <= at[ask'.trigger]
    BY <2>4, <2>5 DEF Fresh
  <2> QED
    BY <1>1, <1>a, <1>s, <1>u, <2>1, <2>2, <2>3, <2>5, <2>6, <2>7, <2>8, LeftInPass
<1> QED
  BY <1>2, <1>3

LEMMA LeftQueued ==
  ASSUME LeftIInv, TypeOK', AskFits', Queued
  PROVE  LeftIInv'
<1>i. /\ TypeOK /\ AskFits /\ Clock /\ Lag /\ Passes /\ ViaIsLater
      /\ StateCovers /\ PollCovers /\ PollIsCovered
  BY DEF LeftIInv
<1>s. now' = now /\ at' = at /\ pr' = pr /\ seen' = seen
  BY SameWorld DEF Watcher
<1>u. /\ enabled' = enabled /\ turnedOn' = turnedOn /\ state' = state
      /\ file' = file /\ via' = via /\ ask # NoAsk /\ ask' = NoAsk
      /\ poll' = [poll EXCEPT !.handled = @ \cup ask.fresh]
      /\ dealt' = dealt \cup ask.fresh
  BY DEF Queued
<1>p. poll.on
  BY <1>i, <1>u DEF Passes
<1>1. ViaIsLater' /\ StateCovers'
  BY <1>i, <1>s, <1>u DEF ViaIsLater, StateCovers, Due, Written, Over, InReach
<1>2. /\ poll'.on = TRUE /\ poll'.startedAt = poll.startedAt /\ poll'.from = poll.from
      /\ poll'.still = poll.still /\ poll'.todo = poll.todo
      /\ poll'.handled = poll.handled \cup ask.fresh
  BY <1>i, <1>u, <1>p DEF TypeOK
<1>3. poll'.handled \subseteq dealt' /\ poll'.still \subseteq seen
  BY <1>i, <1>u, <1>2 DEF Passes, Lag
<1> QED
  BY <1>1, <1>2, <1>3, <1>p, <1>s, <1>u, LeftInPass

LEMMA LeftRefused ==
  ASSUME LeftIInv, TypeOK', AskFits', Refused
  PROVE  LeftIInv'
<1>i. /\ TypeOK /\ AskFits /\ Clock /\ Lag /\ Passes /\ ViaIsLater
      /\ StateCovers /\ PollCovers /\ PollIsCovered
  BY DEF LeftIInv
<1>n. /\ now \in Nat /\ turnedOn \in Nat /\ at \in [Mentions -> Nat]
      /\ state.since \in Nat /\ poll.startedAt \in Nat /\ poll.from \in Int
      /\ Overlap \in Nat /\ Day \in Nat /\ via \in [Mentions -> Mentions]
      /\ seen \in SUBSET Mentions /\ state.pending \in SUBSET Mentions
  BY <1>i, Numbers
<1>s. now' = now /\ at' = at /\ pr' = pr /\ seen' = seen
  BY SameWorld DEF Watcher
<1>u. /\ enabled' = enabled /\ turnedOn' = turnedOn /\ state' = state
      /\ file' = file /\ ask # NoAsk /\ ask' = NoAsk
  BY DEF Refused
<1>p. /\ poll.on /\ ask.fresh \subseteq seen /\ ask.trigger \in ask.fresh
      /\ \A n \in ask.fresh : at[n] >= poll.from /\ at[n] <= at[ask.trigger]
  BY <1>i, <1>u DEF Passes, AskFits
<1>2. CASE poll.startedAt - at[ask.trigger] < Day
  <2>1. /\ poll' = [poll EXCEPT !.still = @ \cup {ask.trigger}]
        /\ via' = [m \in Mentions |-> IF via[m] \in ask.fresh THEN ask.trigger ELSE via[m]]
        /\ dealt' = dealt
    BY <1>2 DEF Refused
  <2>2. /\ poll'.on = TRUE /\ poll'.startedAt = poll.startedAt /\ poll'.from = poll.from
        /\ poll'.still = poll.still \cup {ask.trigger} /\ poll'.todo = poll.todo
        /\ poll'.handled = poll.handled
    BY <1>i, <1>p, <2>1 DEF TypeOK
  <2>3. ask.trigger \in Mentions /\ Written(ask.trigger)
    BY <1>i, <1>n, <1>p DEF Lag
  <2>4. ViaIsLater'
    <3> SUFFICES ASSUME NEW m \in Mentions
                 PROVE  /\ ~Written(m) => via'[m] = m
                        /\ Written(m) => Written(via'[m]) /\ at[via'[m]] >= at[m]
      BY <1>s DEF ViaIsLater, Written
    <3>1. CASE via[m] \in ask.fresh
      <4>1. via'[m] = ask.trigger /\ Written(via[m]) /\ at[via[m]] <= at[ask.trigger]
        BY <1>i, <1>n, <1>p, <2>1, <3>1 DEF Lag
      <4>2. Written(m) /\ at[via[m]] >= at[m]
        BY <1>i, <4>1 DEF ViaIsLater
      <4> QED
        BY <1>n, <2>3, <4>1, <4>2
    <3>2. CASE via[m] \notin ask.fresh
      BY <1>i, <2>1, <3>2 DEF ViaIsLater
    <3> QED
      BY <3>1, <3>2
  <2>5. StateCovers'
    <3> SUFFICES ASSUME turnedOn # NoClock, NEW m \in Mentions, Due(m)
                 PROVE  Over(via'[m]) \/ InReach(via'[m], state.since, state.pending)
      BY <1>s, <1>u, <2>1 DEF StateCovers, Due, Written, Over, InReach
    <3>1. CASE via[m] \in ask.fresh
      <4>1. via'[m] = ask.trigger /\ at[via[m]] <= at[ask.trigger] /\ at[via[m]] >= at[m]
            /\ via[m] \in Mentions
        BY <1>i, <1>n, <1>p, <2>1, <3>1 DEF ViaIsLater, Due
      <4>2. Due(ask.trigger) /\ at[ask.trigger] >= poll.from
        BY <1>n, <1>p, <2>3, <4>1 DEF Due
      <4> QED
        BY <1>i, <1>p, <2>3, <4>1, <4>2 DEF PollIsCovered
    <3>2. CASE via[m] \notin ask.fresh
      BY <1>i, <2>1, <3>2 DEF StateCovers
    <3> QED
      BY <3>1, <3>2
  <2>6. poll'.handled \subseteq dealt' /\ poll'.still \subseteq seen
    BY <1>i, <1>p, <2>1, <2>2 DEF Passes, Lag
  <2>7. \A m \in Mentions : via'[m] = via[m] \/ via'[m] \in poll'.still
    BY <2>1, <2>2
  <2>8. ASSUME NEW n \in ask.fresh
        PROVE  n \in poll'.still \/ \A m \in Mentions : via'[m] # n
    BY <2>1, <2>2
  <2> QED
    BY <1>p, <1>s, <1>u, <2>1, <2>2, <2>4, <2>5, <2>6, <2>7, <2>8, LeftInPass
<1>3. CASE ~(poll.startedAt - at[ask.trigger] < Day)
  <2>1. /\ poll' = [poll EXCEPT !.handled = @ \cup ask.fresh]
        /\ dealt' = dealt \cup ask.fresh /\ via' = via
    BY <1>3 DEF Refused
  <2>2. /\ poll'.on = TRUE /\ poll'.startedAt = poll.startedAt /\ poll'.from = poll.from
        /\ poll'.still = poll.still /\ poll'.todo = poll.todo
        /\ poll'.handled = poll.handled \cup ask.fresh
    BY <1>i, <1>p, <2>1 DEF TypeOK
  <2>3. ViaIsLater' /\ StateCovers'
    BY <1>i, <1>s, <1>u, <2>1 DEF ViaIsLater, StateCovers, Due, Written, Over, InReach
  <2>4. poll'.handled \subseteq dealt' /\ poll'.still \subseteq seen
    BY <1>i, <2>1, <2>2 DEF Passes, Lag
  <2> QED
    BY <1>p, <1>s, <1>u, <2>1, <2>2, <2>3, <2>4, LeftInPass
<1> QED
  BY <1>2, <1>3

LEMMA LeftPollDone ==
  ASSUME LeftIInv, TypeOK', AskFits', "save" \notin Faults, PollDone
  PROVE  LeftIInv'
<1>i. /\ TypeOK /\ AskFits /\ Clock /\ Lag /\ Passes /\ ViaIsLater
      /\ StateCovers /\ PollCovers /\ PollIsCovered
  BY DEF LeftIInv
<1>s. now' = now /\ at' = at /\ pr' = pr /\ seen' = seen
  BY SameWorld DEF Watcher
<1>u. /\ poll.on /\ ask = NoAsk /\ poll.todo = {} /\ poll' = NoPoll
      /\ enabled' = enabled /\ turnedOn' = turnedOn /\ ask' = ask
      /\ dealt' = dealt /\ via' = via
      /\ state' = [since |-> poll.startedAt, handled |-> poll.handled, pending |-> poll.still]
  BY DEF PollDone, history
<1>f. file' = state'
  BY SavedIsKept DEF PollDone
<1>h. /\ state'.since = poll.startedAt /\ state'.handled = poll.handled
      /\ state'.pending = poll.still
  BY <1>u
<1>e. ~poll'.on /\ poll'.handled = {} /\ poll'.still = {} /\ ask.fresh = {}
  BY <1>u, EmptyTypes DEF NoAsk
<1>1. Clock'
  BY <1>i, <1>s, <1>u, <1>f, <1>h DEF Clock, Passes
<1>2. Lag' /\ Passes'
  BY <1>i, <1>s, <1>u, <1>h, <1>e DEF Lag, Passes, Written
<1>3. ViaIsLater'
  BY <1>i, <1>s, <1>u DEF ViaIsLater, Written
<1>4. StateCovers'
  <2> SUFFICES ASSUME NEW m \in Mentions, Due(m)
               PROVE  Over(via[m]) \/ InReach(via[m], poll.startedAt, poll.still)
    BY <1>s, <1>u, <1>h DEF StateCovers, Due, Written, Over, InReach
  <2> QED
    BY <1>i, <1>u, <1>e DEF PollCovers
<1>5. PollCovers' /\ PollIsCovered'
  BY <1>e DEF PollCovers, PollIsCovered
<1> QED
  BY <1>1, <1>2, <1>3, <1>4, <1>5 DEF LeftIInv

LEMMA LeftWatcher ==
  ASSUME LeftIInv, TypeOK', AskFits', "save" \notin Faults, Watcher
  PROVE  LeftIInv'
<1>s. now' = now /\ at' = at /\ pr' = pr /\ seen' = seen
  BY SameWorld
<1>c. Clock
  BY DEF LeftIInv
<1>1. CASE TurnOff
  <2>1. /\ enabled' = FALSE /\ state' = state /\ file' = file /\ poll' = poll
        /\ ask' = ask /\ turnedOn' = turnedOn /\ dealt' = dealt /\ via' = via
    BY <1>1 DEF TurnOff, history
  <2> QED
    BY <1>s, <2>1, LeftWithoutPass
<1>2. CASE PollThrows
  <2>1. /\ enabled' = enabled /\ state' = state /\ file' = file /\ poll' = NoPoll
        /\ ask' = NoAsk /\ turnedOn' = turnedOn /\ dealt' = dealt /\ via' = via
    BY <1>2 DEF PollThrows
  <2> QED
    BY <1>s, <2>1, LeftWithoutPass
<1>3. CASE Restart
  <2>1. ~(enabled /\ file.since = NoClock)
    BY <1>c DEF Clock
  <2>2. /\ enabled' = enabled /\ state' = state /\ file' = file /\ poll' = NoPoll
        /\ ask' = NoAsk /\ turnedOn' = turnedOn /\ dealt' = dealt /\ via' = via
    BY <1>3, <1>c, <2>1 DEF Restart, Clock
  <2> QED
    BY <1>s, <2>2, LeftWithoutPass
<1> QED
  BY <1>1, <1>2, <1>3, LeftTurnOn, LeftPollStart, LeftReadPr, LeftQueued, LeftRefused,
     LeftPollDone DEF Watcher

LEMMA LeftNext == ASSUME "save" \notin Faults, LeftIInv, [Next]_vars PROVE LeftIInv'
<1>1. TypeOK /\ AskFits
  BY DEF LeftIInv
<1>2. CASE World
  BY <1>2, LeftWorld
<1>3. CASE Watcher
  BY <1>1, <1>3, WatcherKeepsTypes, AskStaysFit, LeftWatcher
<1>4. CASE UNCHANGED vars
  <2>1. watcher' = watcher /\ now' = now /\ at' = at /\ pr' = pr /\ seen' = seen
    BY <1>4 DEF vars, watcher, comments
  <2>2. TypeOK'
    BY <1>1, <1>4 DEF vars, history, comments, TypeOK
  <2>3. Lag'
    BY <2>1 DEF LeftIInv, Lag, Written, watcher
  <2>4. now <= now'
    BY <1>1, <2>1, Numbers
  <2>5. seen \subseteq seen' /\ \A m \in Mentions : at'[m] = at[m]
    BY <2>1
  <2>6. watcher' = watcher /\ pr' = pr
    BY <2>1
  <2> QED
    BY <2>2, <2>3, <2>4, <2>5, <2>6, WorldLeavesNothing
<1> QED
  BY <1>2, <1>3, <1>4, NextSplits

\* No mention written since the watch was turned on falls between two polls,
\* whatever is refused, fails, crashes or comes late: the next one of a watch
\* that is on looks far enough back (pollOnce's choice of `from`), as long as
\* the file can be written.
THEOREM NoMentionIsLeftBehind ==
  ASSUME "save" \notin Faults
  PROVE  Spec => []NothingLeftBehind
<1>1. LeftIInv /\ [Next]_vars => LeftIInv'
  BY LeftNext
<1> QED
  BY <1>1, LeftInit, LeftIInvSuffices, PTL DEF Spec

=============================================================================

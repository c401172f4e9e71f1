------------------------------- MODULE LiveView -------------------------------
(***************************************************************************)
(* One review as a page in a browser shows it: public/app.js fed by        *)
(* server.js. The page hears of the review from snapshots of the list,     *)
(* pushed over a WebSocket and fetched, from the event stream, which first *)
(* replays all that happened and then goes on live, from the record        *)
(* fetched for its log, and from the answers to its own requests. Nothing  *)
(* orders these against each other; each connection may break and is made  *)
(* again, and the server may restart.                                      *)
(*                                                                         *)
(* An event carries the run it is of. Titles, logs, figures, the outcome   *)
(* and the pull request's own state are left out.                          *)
(***************************************************************************)
EXTENDS Integers, SequencesExt

CONSTANTS
    Nothing,
    MaxRuns,        \* bound: runs of the review
    MaxBehind,      \* bound: snapshots on their way, for the changes of other reviews
    Scenes          \* bound: what may happen together, beside runs that end done

ASSUME LiveViewAssumption == 
    /\ MaxRuns \in Nat \ {0} /\ MaxBehind \in Nat
    /\ Scenes \subseteq SUBSET {"break", "restart", "others", "log", "click", "delete", "skip", "fail", "phase"}
    /\ Nothing \notin {"queued", "running", "done", "failed", "interrupted", "asked", "submit", "verify", "delete"}

VARIABLES
    srv,        \* the review on the server
    crowd,      \* it is not among the newest the snapshot takes
    ws,         \* the WebSocket, and the snapshots on their way
    es,         \* the page's event stream, and the events on their way
    row,        \* what the page knows of the review
    asked,      \* its requests under way: the list, the record, its own change
    heard,      \* history: runs it chimed for; whether it has let go of an active review
    scene       \* what may still happen

viewVars == <<srv, crowd, ws, es, row, asked, heard, scene>>

States == {"queued", "running", "done", "failed", "interrupted"}
Active(state) == state \in {"queued", "running"}
Terminal(state) == state \in {"done", "failed", "interrupted"}

Event(kind) == [kind |-> kind, run |-> srv.run]

NoRow == [present |-> FALSE, state |-> "queued", finished |-> FALSE, replaying |-> FALSE,
          notified |-> FALSE, loaded |-> FALSE]
NoStream == [st |-> "none", q |-> <<>>, over |-> 0, again |-> FALSE]
NoSocket == [st |-> "closed", q |-> <<>>]
NothingAsked == [list |-> FALSE, got |-> <<>>, record |-> Nothing, own |-> Nothing]

Snapshots == [item : States \cup {Nothing}, complete : BOOLEAN]

ViewTypeOK ==
    /\ srv.state \in States /\ srv.run \in 0..MaxRuns /\ srv.listed \in BOOLEAN /\ crowd \in BOOLEAN
    /\ ws.st \in {"closed", "open"} /\ \A i \in DOMAIN ws.q : ws.q[i] \in Snapshots
    /\ es.st \in {"none", "connecting", "open", "ending", "refused"} /\ es.over \in 0..MaxRuns
    /\ row.state \in States
    /\ ToSet(asked.got) \subseteq Snapshots /\ asked.record \in States \cup {Nothing, "asked"}
    /\ asked.own \in {Nothing, "submit", "verify", "delete"}

ViewInit ==
    /\ srv = [listed |-> FALSE, state |-> "queued", run |-> 0, events |-> <<>>]
    /\ crowd = FALSE /\ ws = NoSocket /\ es = NoStream /\ row = NoRow
    /\ asked = [NothingAsked EXCEPT !.list = TRUE]
    /\ heard = [chimed |-> {}, misled |-> FALSE] /\ scene \in Scenes

\* Faults and the less usual ends of a run happen once in a scene that has them.
Once(thing) == thing \in scene /\ scene' = scene \ {thing}

-----------------------------------------------------------------------------
(* The server.                                                             *)

\* Seeded error: a list cut at the newest fifty is said to be complete.
JobsSnapshot_Complete(s, crowded) ==
    [item |-> IF s.listed /\ ~crowded THEN s.state ELSE Nothing, complete |-> TRUE]

JobsSnapshot(s, crowded) ==
    [item |-> IF s.listed /\ ~crowded THEN s.state ELSE Nothing, complete |-> ~crowded]

BroadcastJobs(s, crowded) ==
    ws' = IF ws.st = "open" THEN [ws EXCEPT !.q = Append(@, JobsSnapshot(s, crowded))] ELSE ws

\* pushEvent: kept with the review, and sent to who is subscribed.
PushEvents(evs) == es' = IF es.st = "open" THEN [es EXCEPT !.q = @ \o evs] ELSE es

\* The queue's state listener broadcasts, then its events are pushed.
Becomes(state, evs) ==
    LET s == [srv EXCEPT !.state = state, !.events = @ \o evs]
    IN  srv' = s /\ BroadcastJobs(s, crowd) /\ PushEvents(evs)

\* A request of this page is answered later; others' are none of its business.
Asks(own, by) ==
    IF by = "page" THEN "click" \in scene /\ asked.own = Nothing /\ asked' = [asked EXCEPT !.own = own] ELSE UNCHANGED asked

Submit(by) ==
    /\ srv.run = 0
    /\ LET s == [srv EXCEPT !.run = 1, !.listed = TRUE, !.events = <<[kind |-> "queued", run |-> 1]>>]
       IN  srv' = s /\ BroadcastJobs(s, crowd)
    /\ Asks("submit", by) /\ UNCHANGED <<crowd, es, row, heard, scene>>

Start ==
    /\ srv.listed /\ srv.state = "queued" /\ Becomes("running", <<Event("running")>>)
    /\ UNCHANGED <<crowd, row, asked, heard, scene>>

\* A phase of a run.
Phase ==
    /\ Once("phase") /\ srv.state = "running" /\ srv.events # <<>> /\ Last(srv.events).kind = "running"
    /\ srv' = [srv EXCEPT !.events = Append(@, Event("phase"))] /\ PushEvents(<<Event("phase")>>)
    /\ UNCHANGED <<crowd, ws, row, asked, heard>>

\* Bound: answers and snapshots are on their way for less time than a run takes.
Lagging ==
    \/ \E i \in DOMAIN asked.got : ~Active(asked.got[i].item)
    \/ asked.record \in States
    \/ \E i \in DOMAIN ws.q : ws.q[i] = [item |-> Nothing, complete |-> TRUE]

End ==
    /\ srv.state = "running" /\ ~Lagging
    /\ \/ Becomes("done", <<Event("done")>>) /\ UNCHANGED scene
       \/ Once("fail") /\ Becomes("failed", <<Event("failed")>>)
    /\ UNCHANGED <<crowd, row, asked, heard>>

\* A skip is told of before the run ends, and then ended as done.
Skip ==
    /\ Once("skip") /\ srv.state = "running" /\ ~Lagging /\ Becomes("done", <<Event("skipped"), Event("done")>>)
    /\ UNCHANGED <<crowd, row, asked, heard>>

Resume(by) ==
    /\ srv.listed /\ Terminal(srv.state) /\ srv.run < MaxRuns
    /\ by = "page" => row.present
    /\ LET next == srv.run + 1
           queued == [kind |-> "queued", run |-> next]
           s == [srv EXCEPT !.run = next, !.state = "queued",
                            !.events = @ \o <<[kind |-> "verify_restart", run |-> next], queued>>]
       IN  srv' = s /\ BroadcastJobs(s, crowd) /\ PushEvents(<<queued>>)
    /\ Asks("verify", by) /\ UNCHANGED <<crowd, row, heard, scene>>

\* Who is subscribed is told, and the stream ended.
Delete(by) ==
    /\ "delete" \in scene /\ srv.listed /\ Terminal(srv.state) /\ (by = "page" => row.present /\ ~Active(row.state))
    /\ LET s == [srv EXCEPT !.listed = FALSE] IN srv' = s /\ BroadcastJobs(s, crowd)
    /\ es' = IF es.st # "open" THEN es
             ELSE [es EXCEPT !.st = "ending", !.q = Append(@, [kind |-> "stream_end", state |-> "removed"])]
    /\ Asks("delete", by) /\ UNCHANGED <<crowd, row, heard, scene>>

\* Reviews of other pull requests change; enough new ones crowd this one out.
OthersChange ==
    /\ "others" \in scene /\ Len(ws.q) < MaxBehind
    /\ crowd' \in {crowd, TRUE} /\ BroadcastJobs(srv, crowd')
    /\ UNCHANGED <<srv, es, row, asked, heard, scene>>

Broken == IF es.st \in {"open", "ending"} THEN [es EXCEPT !.st = "connecting", !.q = <<>>, !.again = TRUE] ELSE es

\* hydrateJobs interrupts what was active; every connection is gone.
ServerRestarts ==
    /\ Once("restart")
    /\ srv' = IF srv.listed /\ Active(srv.state)
              THEN [srv EXCEPT !.state = "interrupted", !.events = Append(@, Event("interrupted"))] ELSE srv
    /\ ws' = NoSocket /\ es' = Broken /\ asked' = NothingAsked
    /\ UNCHANGED <<crowd, row, heard>>

ServerStep ==
    \/ \E by \in {"page", "other"} : Submit(by) \/ Resume(by) \/ Delete(by)
    \/ Start \/ Phase \/ End \/ Skip \/ OthersChange \/ ServerRestarts

-----------------------------------------------------------------------------
(* The page.                                                               *)

\* Seeded error: the replay is not marked as one.
OpenStream_Live(r) ==
    /\ row' = [r EXCEPT !.replaying = FALSE]
    /\ es' = [NoStream EXCEPT !.st = "connecting"]
    /\ heard' = [heard EXCEPT !.misled = FALSE]

OpenStream(r) ==
    /\ row' = [r EXCEPT !.replaying = TRUE]
    /\ es' = [NoStream EXCEPT !.st = "connecting"]
    /\ heard' = [heard EXCEPT !.misled = FALSE]

UpsertReview(r, state) == [(IF r.present THEN r ELSE NoRow) EXCEPT !.present = TRUE, !.state = state]

DropReview == row' = NoRow /\ es' = NoStream /\ heard' = [heard EXCEPT !.misled = srv.listed]

\* Seeded error: a review that became active is not streamed.
ApplySnapshot_NoStream(snapshot) ==
    IF snapshot.item # Nothing
    THEN row' = UpsertReview(row, snapshot.item) /\ UNCHANGED <<es, heard>>
    ELSE IF snapshot.complete /\ row.present /\ ~Active(row.state)
         THEN DropReview ELSE UNCHANGED <<row, es, heard>>

\* A row is added or brought up to date, and streamed if active; a row a complete
\* list has no more is dropped, unless it is active.
ApplySnapshot(snapshot) ==
    IF snapshot.item # Nothing
    THEN LET r == UpsertReview(row, snapshot.item)
         IN  IF Active(r.state) /\ es.st = "none" THEN OpenStream(r)
             ELSE row' = r /\ UNCHANGED <<es, heard>>
    ELSE IF snapshot.complete /\ row.present /\ ~Active(row.state)
         THEN DropReview ELSE UNCHANGED <<row, es, heard>>

ConnectLive ==
    /\ ws.st = "closed" /\ ws' = [st |-> "open", q |-> <<JobsSnapshot(srv, crowd)>>]
    /\ UNCHANGED <<srv, crowd, es, row, asked, heard, scene>>

WsMessage ==
    /\ ws.q # <<>> /\ ws' = [ws EXCEPT !.q = Tail(@)] /\ ApplySnapshot(Head(ws.q))
    /\ UNCHANGED <<srv, crowd, asked, scene>>

WsBreaks ==
    /\ ws.st = "open" /\ Once("break")
    /\ ws' = NoSocket /\ UNCHANGED <<srv, crowd, es, row, asked, heard>>

ListServed ==
    /\ asked.list /\ asked' = [asked EXCEPT !.list = FALSE, !.got = <<JobsSnapshot(srv, crowd)>>]
    /\ UNCHANGED <<srv, crowd, ws, es, row, heard, scene>>

RefreshList ==
    /\ asked.got # <<>> /\ asked' = [asked EXCEPT !.got = <<>>] /\ ApplySnapshot(asked.got[1])
    /\ UNCHANGED <<srv, crowd, ws, scene>>

\* The log of a review without a stream is fetched once, when it is selected.
SelectReview ==
    /\ "log" \in scene /\ row.present /\ ~row.loaded /\ es.st = "none"
    /\ row' = [row EXCEPT !.loaded = TRUE] /\ asked' = [asked EXCEPT !.record = "asked"]
    /\ UNCHANGED <<srv, crowd, ws, es, heard, scene>>

RecordServed ==
    /\ asked.record = "asked"
    /\ asked' = [asked EXCEPT !.record = IF srv.listed THEN srv.state ELSE Nothing]
    /\ UNCHANGED <<srv, crowd, ws, es, row, heard, scene>>

LoadFinishedLog ==
    /\ asked.record \in States /\ asked' = [asked EXCEPT !.record = Nothing]
    /\ row' = IF row.present THEN [row EXCEPT !.state = asked.record, !.finished = TRUE] ELSE row
    /\ UNCHANGED <<srv, crowd, ws, es, heard, scene>>

\* submitUrls, verifyReview, deleteReview: what the page does with the answer.
Answered ==
    /\ asked.own # Nothing
    /\ \/ /\ asked.own = "submit" /\ OpenStream(UpsertReview(row, "queued"))
          /\ asked' = [asked EXCEPT !.own = Nothing, !.list = TRUE]
       \/ /\ asked.own = "verify" /\ asked' = [asked EXCEPT !.own = Nothing]
          /\ IF row.present THEN OpenStream([row EXCEPT !.finished = FALSE, !.state = "running"])
             ELSE UNCHANGED <<row, es, heard>>
       \/ asked.own = "delete" /\ asked' = [asked EXCEPT !.own = Nothing] /\ DropReview
    /\ UNCHANGED <<srv, crowd, ws, scene>>

-----------------------------------------------------------------------------
(* The event stream.                                                       *)

\* Seeded error: the end of the replay is not told.
Replay_NoBoundary(s) ==
    IF s.state \in {"done", "failed"}
    THEN [st |-> "ending", q |-> Append(s.events, [kind |-> "stream_end", state |-> s.state])]
    ELSE [st |-> "open", q |-> s.events]

\* All that happened is sent again; the stream of a review that has ended then
\* ends, another goes on.
Replay(s) ==
    IF s.state \in {"done", "failed"}
    THEN [st |-> "ending", q |-> Append(s.events, [kind |-> "stream_end", state |-> s.state])]
    ELSE [st |-> "open", q |-> Append(s.events, [kind |-> "caught_up"])]

\* Runs that are over.
Over(s) == IF Active(s.state) /\ s.run > 0 THEN s.run - 1 ELSE s.run

\* A stream answered with 404 is not tried again.
EsConnects ==
    /\ es.st = "connecting"
    /\ es' = IF srv.listed
             THEN [es EXCEPT !.st = Replay(srv).st, !.q = Replay(srv).q, !.over = Over(srv)]
             ELSE [es EXCEPT !.st = "refused"]
    /\ UNCHANGED <<srv, crowd, ws, row, asked, heard, scene>>

\* EventSource connects again by itself, also when the server ended the stream.
EsReconnects ==
    /\ es.st = "ending" /\ es.q = <<>> /\ es' = Broken
    /\ UNCHANGED <<srv, crowd, ws, row, asked, heard, scene>>

EsBreaks ==
    /\ es.st \in {"open", "ending"} /\ Once("break")
    /\ es' = Broken /\ UNCHANGED <<srv, crowd, ws, row, asked, heard>>

\* finish: outside a replay the stream is closed, and the first time it chimes.
FinishRow(state, run) ==
    LET first == ~row.finished /\ ~row.notified /\ ~row.replaying
    IN  /\ row' = [row EXCEPT !.finished = TRUE, !.state = state, !.notified = @ \/ first]
        /\ es' = IF row.replaying THEN [es EXCEPT !.q = Tail(@)] ELSE NoStream
        /\ heard' = [chimed |-> heard.chimed \cup IF first THEN {run} ELSE {},
                     misled |-> heard.misled \/ (~row.replaying /\ run # srv.run)]

\* Seeded error: a replayed end goes for the run's at hand.
CaughtUp_KeepsFinish(r) == [r EXCEPT !.replaying = FALSE]

CaughtUp(r) == [r EXCEPT !.replaying = FALSE, !.finished = FALSE, !.notified = FALSE]

HandleEvent(ev) ==
    LET goes(r) == row' = r /\ es' = [es EXCEPT !.q = Tail(@)] /\ UNCHANGED heard
    IN  CASE ev.kind = "queued" -> goes([row EXCEPT !.state = "queued"])
          [] ev.kind \in {"running", "phase"} -> goes([row EXCEPT !.state = "running"])
          [] ev.kind = "interrupted" -> goes([row EXCEPT !.state = "interrupted"])
          [] ev.kind = "verify_restart" -> goes(row)
          [] ev.kind = "caught_up" -> goes(CaughtUp(row))
          [] ev.kind \in {"done", "skipped"} -> FinishRow("done", ev.run)
          [] ev.kind = "failed" -> FinishRow("failed", ev.run)
          [] ev.kind = "stream_end" -> IF ~row.finished /\ Terminal(ev.state) THEN FinishRow(ev.state, 0) ELSE goes(row)

EsMessage ==
    /\ es.q # <<>> /\ HandleEvent(Head(es.q))
    /\ UNCHANGED <<srv, crowd, ws, asked, scene>>

PageStep ==
    \/ ConnectLive \/ WsMessage \/ ListServed \/ RefreshList \/ RecordServed \/ LoadFinishedLog \/ Answered
    \/ EsConnects \/ EsReconnects \/ EsMessage

ViewNext == ServerStep \/ PageStep \/ SelectReview \/ WsBreaks \/ EsBreaks

\* Runs start and end, requests are answered, connections are made again and
\* deliver. Nobody has to click, and nothing has to break.
Fairness ==
    /\ WF_viewVars(Start) /\ WF_viewVars(End) /\ WF_viewVars(ConnectLive) /\ WF_viewVars(WsMessage)
    /\ WF_viewVars(ListServed) /\ WF_viewVars(RefreshList) /\ WF_viewVars(RecordServed) /\ WF_viewVars(LoadFinishedLog)
    /\ WF_viewVars(Answered) /\ WF_viewVars(EsConnects) /\ WF_viewVars(EsReconnects) /\ WF_viewVars(EsMessage)

ViewSpec == ViewInit /\ [][ViewNext]_viewVars
FairViewSpec == ViewSpec /\ Fairness

-----------------------------------------------------------------------------
(* Properties.                                                             *)

Shown ==
    /\ srv.listed /\ ~crowd => row.present /\ row.state = srv.state
    /\ srv.run > 0 /\ ~srv.listed => ~row.present \/ ~Active(row.state)

\* What the page is left with: a review removed while it had no connection and
\* took it for active, and the end of an earlier run, of which a reconnected or a
\* late stream told last.
LeftBehind ==
    \/ ~srv.listed /\ es.st = "refused"
    \/ heard.misled /\ Terminal(row.state)

\* A stream opened for a run that was over by the time it connected: finish does
\* not close it while it is replayed, stream_end comes after finish, and the
\* browser connects it again for the same replay, without end.
ReplayLoop ==
    /\ srv.listed /\ srv.state \in {"done", "failed"}
    /\ row.replaying /\ es.st \in {"connecting", "ending"}

\* In the end the page shows the review as the server has it, and nothing removed
\* as running, in whatever order snapshots, events, records and answers came and
\* whichever connection broke (applySnapshot, handleEvent, the replay of the event
\* stream). Excepted is what it is left with, and a row whose stream is replayed
\* without end: that one shows the earlier states in turn, but comes back to the
\* server's each time.
RowSettles ==
    /\ <>[](Shown \/ LeftBehind \/ ReplayLoop)
    /\ []<>(Shown \/ LeftBehind)

\* "Job is terminal - close its live SSE", or it "reconnect-loops" (app.js:1193):
\* no stream of an ended review is replayed for ever. (Violated.)
StreamsComeToRest == <>[]~ReplayLoop

\* A page chimes for the end of a run its stream tells of exactly if the run was
\* not over when the stream was opened, and once: but for streams the browser
\* reconnected by itself, whose replay app.js does not know for one, and pages
\* that had just taken over a record of the review (openStream, caught_up, finish).
ChimeIsNews ==
    [][/\ heard'.chimed # heard.chimed /\ ~es.again =>
             Head(es.q).run > es.over /\ Head(es.q).run \notin heard.chimed
       /\ EsMessage /\ Head(es.q).kind \in {"done", "failed"} /\ Head(es.q).run > es.over /\ ~row.loaded =>
             Head(es.q).run \in heard'.chimed]_viewVars

\* The same of any stream (violated: server.js:1096-1098 has it of a reconnect).
ChimeIsNewsAfterReconnect ==
    [][\A k \in heard'.chimed \ heard.chimed : k > es.over]_viewVars

Settled == ws.st = "open" /\ ws.q = <<>> /\ es.q = <<>> /\ asked = NothingAsked /\ es.st \notin {"connecting", "ending"}

\* Once all that is on its way has come, a page that shows the review of an active
\* run streams it, unless it has let go of it: at the end of an earlier run, replayed
\* by a reconnected stream or told late, or for a list from before the submission
\* (applySnapshot opens the stream, finish closes it).
ActiveIsStreamed ==
    /\ ViewTypeOK
    /\ Settled /\ srv.listed /\ Active(srv.state) /\ ~crowd /\ ~heard.misled => es.st = "open" /\ row.present

\* A row goes only if the server has no such review: not because the list was cut
\* at the newest, nor because it was made before the review was submitted
\* (jobsSnapshot, applySnapshot, deleteReview).
RowGoesWithReview == [][row.present /\ ~row'.present => ~srv.listed]_viewVars

=============================================================================

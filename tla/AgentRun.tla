------------------------------- MODULE AgentRun -------------------------------
(***************************************************************************)
(* The process of one agent, read by runClaude (lib/claude-runner.js) or   *)
(* runCodex (lib/providers/codex.js) and followed by runProviderProcess    *)
(* (lib/review-job.js).  The child writes lines of JSON; the pipe hands    *)
(* them over in chunks cut anywhere.  A line is two halves and a newline,  *)
(* named by its number.                                                    *)
(***************************************************************************)
EXTENDS Integers, Sequences, FiniteSetsExt

CONSTANTS MaxLines            \* bound: lines the child writes

VARIABLES provider,           \* "claude" or "codex"
          said, open,         \* the kinds of lines written; how much of the last is there
          pipe,               \* what was written and not yet read
          child,              \* "alive", "ok" or "bad" (how it ended), "closed", "none"
          buffer,             \* stdoutBuf
          final, model,       \* of codex: the last message; the model is known
          events,             \* what the emitter emitted: [kind, line]
          lastResult, lastText, outcome, \* runProviderProcess: as the lines they came from
          agentPid,           \* the record has a process id
          settled, reason     \* the promise, and what a rejection says

vars == <<provider, said, open, pipe, child, buffer, final, model, events,
          lastResult, lastText, outcome, agentPid, settled, reason>>

followed == <<final, model, events, lastResult, lastText, outcome>>

\* A start of the session, a message, a message that runs a posting command, the
\* result, a failure, what is recognised and not shown, what is not recognised.
LineKinds == {"init", "say", "post", "result", "failed", "silent", "unknown"}

Newline == [line |-> 0, half |-> 0]

Half(n, h) == [line |-> n, half |-> h]

TypeOK ==
    /\ provider \in {"claude", "codex"} /\ open \in {"none", "half", "whole"}
    /\ \A i \in 1 .. Len(said) : said[i] \in LineKinds
    /\ child \in {"alive", "ok", "bad", "closed", "none"}
    /\ {lastResult, lastText, outcome, final, reason} \subseteq 0 .. MaxLines
    /\ settled \in {"no", "resolved", "rejected", "not started"}

\* The started event has been emitted and the pid recorded.
Init ==
    /\ provider \in {"claude", "codex"} /\ said = <<>> /\ open = "none" /\ pipe = <<>>
    /\ child \in {"alive", "none"} /\ agentPid = (child = "alive")
    /\ buffer = <<>> /\ final = 0 /\ model \in BOOLEAN
    /\ events = <<>> /\ lastResult = 0 /\ lastText = 0 /\ outcome = 0
    /\ settled = "no" /\ reason = 0

-----------------------------------------------------------------------------
(* The child.                                                              *)

Writes(tokens) ==
    /\ pipe' = pipe \o tokens
    /\ UNCHANGED <<provider, child, buffer, followed, agentPid, settled, reason>>

BeginLine(kind) ==
    /\ child = "alive" /\ open = "none" /\ Len(said) < MaxLines
    /\ said' = Append(said, kind) /\ open' = "half"
    /\ Writes(<<Half(Len(said) + 1, 1)>>)

GoOn ==
    /\ child = "alive" /\ open # "none" /\ UNCHANGED said
    /\ \/ open = "half" /\ open' = "whole" /\ Writes(<<Half(Len(said), 2)>>)
       \/ open = "whole" /\ open' = "none" /\ Writes(<<Newline>>)

\* It ends by itself or by a signal, in the middle of a line as well.
Ends(how) ==
    /\ child = "alive" /\ child' = how
    /\ UNCHANGED <<provider, said, open, pipe, buffer, followed, agentPid, settled, reason>>

-----------------------------------------------------------------------------
(* handleLine: the events of one line, and what is remembered of them.     *)

At(kind, n) == [kind |-> kind, line |-> n]

\* A result names the line its text is from: codex repeats its last message.
Normalized(kind, n, lastMessage) ==
    CASE kind = "init" -> <<At("system", n)>>
      [] kind = "say" -> <<At("assistant_text", n)>>
      [] kind = "post" /\ provider = "claude" -> <<At("assistant_text", n), At("tool_use", n)>>
      [] kind = "post" /\ provider = "codex" -> <<At("tool_use", n)>>
      [] kind = "result" -> <<At("result", IF provider = "codex" THEN lastMessage ELSE n)>>
      [] kind = "failed" -> <<At("result", n)>>
      [] kind = "silent" -> <<>>
      [] OTHER -> <<At("other", n)>>

IsMessage(kind) == kind = "say" \/ (kind = "post" /\ provider = "claude")

\* The line of the last event of a kind.
LastOf(list, kind, else) ==
    LET of == {i \in 1 .. Len(list) : list[i].kind = kind}
    IN  IF of = {} THEN else ELSE list[Max(of)].line

\* Where a sequence of events leaves the listener of runProviderProcess: the last
\* result, the last text and the last posting command win.
Listened(s, new) ==
    [s EXCEPT !.events = @ \o new, !.result = LastOf(new, "result", @),
              !.text = LastOf(new, "assistant_text", @), !.outcome = LastOf(new, "tool_use", @)]

Complete(line) == Len(line) = 2 /\ line[1] = Half(line[1].line, 1) /\ line[2] = Half(line[1].line, 2)

\* An empty line is skipped; what is not JSON is shown as it is.
HandleLine(s, line) ==
    IF line = <<>> THEN s
    ELSE IF ~Complete(line) THEN Listened(s, <<At("raw_unparseable", line[1].line)>>)
    ELSE LET n == line[1].line
             kind == said[n]
             heard == Listened(s, Normalized(kind, n, s.final))
         IN  IF provider = "codex" /\ IsMessage(kind) THEN [heard EXCEPT !.final = n] ELSE heard

Takes(s, token) ==
    IF token = Newline THEN [HandleLine(s, s.buffer) EXCEPT !.buffer = <<>>]
    ELSE [s EXCEPT !.buffer = Append(@, token)]

\* The data listener: everything up to the last newline, line by line; the rest
\* waits for the next chunk.
Fed(s, tokens) ==
    LET fed[n \in 0 .. Len(tokens)] == IF n = 0 THEN s ELSE Takes(fed[n - 1], tokens[n])
    IN  fed[Len(tokens)]

Heard == [buffer |-> buffer, events |-> events, result |-> lastResult, text |-> lastText,
          outcome |-> outcome, final |-> final, model |-> model]

Becomes(s) ==
    /\ buffer' = s.buffer /\ events' = s.events /\ lastResult' = s.result /\ lastText' = s.text
    /\ outcome' = s.outcome /\ final' = s.final /\ model' = s.model

\* Seeded error: what a chunk leaves over is dropped.
Data_PerChunk(n) ==
    /\ n \in 1 .. Len(pipe)
    /\ Becomes([Fed(Heard, SubSeq(pipe, 1, n)) EXCEPT !.buffer = <<>>])
    /\ pipe' = SubSeq(pipe, n + 1, Len(pipe))
    /\ UNCHANGED <<provider, said, open, child, agentPid, settled, reason>>

Data(n) ==
    /\ n \in 1 .. Len(pipe)
    /\ Becomes(Fed(Heard, SubSeq(pipe, 1, n)))
    /\ pipe' = SubSeq(pipe, n + 1, Len(pipe))
    /\ UNCHANGED <<provider, said, open, child, agentPid, settled, reason>>

-----------------------------------------------------------------------------
(* The end.                                                                *)

\* The exit listener: the last result tells why it failed, else the last text.
Exit(how, s) ==
    /\ agentPid' = FALSE /\ child' = "closed"
    /\ settled' = IF how = "ok" THEN "resolved" ELSE "rejected"
    /\ reason' = IF how = "ok" THEN 0 ELSE IF s.result # 0 THEN s.result ELSE s.text

\* Seeded error: a last line without its newline is not handled.
Rest_Dropped == [Heard EXCEPT !.buffer = <<>>]

Rest == [HandleLine(Heard, buffer) EXCEPT !.buffer = <<>>]

\* Codex reports no model of its own: the file of its session is asked, within a
\* deadline, before exit is emitted.
MustLook == provider = "codex" /\ ~model

\* close comes after the pipe's end.
Close(found) ==
    /\ child \in {"ok", "bad"} /\ pipe = <<>>
    /\ LET s == IF MustLook /\ found THEN Listened([Rest EXCEPT !.model = TRUE], <<At("system", 0)>>)
                ELSE Rest
       IN  Becomes(s) /\ Exit(child, s)
    /\ UNCHANGED <<provider, said, open, pipe>>

\* error: the program could not be started.
SpawnError ==
    /\ child = "none" /\ settled = "no" /\ settled' = "not started"
    /\ UNCHANGED <<provider, said, open, pipe, child, buffer, followed, agentPid, reason>>

Next ==
    \/ \E kind \in LineKinds : BeginLine(kind)
    \/ GoOn \/ (\E how \in {"ok", "bad"} : Ends(how))
    \/ (\E n \in 1 .. 3 * MaxLines : Data(n)) \/ (\E found \in BOOLEAN : Close(found)) \/ SpawnError

Spec == Init /\ [][Next]_vars

-----------------------------------------------------------------------------
\* What one reading of the whole output, line by line, comes to.
MessagesBefore(n) == {m \in 1 .. n - 1 : IsMessage(said[m])}

LastMessage(n) == IF MessagesBefore(n) = {} THEN 0 ELSE Max(MessagesBefore(n))

Meant(n) ==
    IF n = Len(said) /\ open = "half" THEN <<At("raw_unparseable", n)>>
    ELSE Normalized(said[n], n, LastMessage(n))

Output ==
    LET upto[n \in 0 .. Len(said)] == IF n = 0 THEN <<>> ELSE upto[n - 1] \o Meant(n)
    IN  upto[Len(said)]

LastLine(kind) == LastOf(Output, kind, 0)

(* When the run of an agent is over, all it wrote has been passed on, in   *)
(* order and once, however its output was cut into chunks and wherever it  *)
(* ended, and nothing follows but the model of a Codex session; the        *)
(* outcome is that of its last posting command; a failure says what the    *)
(* agent reported last; and an agent that lives has its pid recorded       *)
(* (claude-runner.js:688-780, codex.js:249-312, review-job.js:185-227).    *)
AgentIsHeard ==
    /\ TypeOK
    /\ child = "alive" => agentPid
    /\ settled \in {"resolved", "rejected"} =>
        /\ \E extra \in {<<>>, <<At("system", 0)>>} : events = Output \o extra
        /\ outcome = LastLine("tool_use")
    /\ settled = "rejected" =>
        reason = IF LastLine("result") # 0 THEN LastLine("result") ELSE LastLine("assistant_text")
=============================================================================

---------------------------- MODULE TracedTurn ----------------------------
(***************************************************************************)
(* One turn of a frontend, from StartTurn to the return of RunTurn: the       *)
(* engine's rounds as the tracing wrapper around its LLM client and the        *)
(* composed event callback see them (internal/chat/tracewrap.go).  What the    *)
(* engine does with its history is Engine's matter.                            *)
(***************************************************************************)
EXTENDS Tracer

CONSTANTS Streams,      \* is the reply streamed: no whole-message text event then
          MaxCalls      \* the agent's max_turns: LLM calls in one turn

ASSUME TurnAssumption == Streams \in BOOLEAN /\ MaxCalls \in Nat \ {0}

VARIABLES pc,           \* where the frontend's main goroutine is
          turn,         \* the number of the turn running, or of the last one
          calls,        \* LLM calls made in this turn
          reply,        \* the last call's response
          runErr,       \* what RunTurn returned
          cancelled     \* turns whose context a Ctrl-C has cancelled

turnVars == <<turn, calls, reply, runErr, cancelled>>

TurnPhases == {"opening", "opened", "round", "inflight", "answered", "text",
               "tool", "running", "toolDone", "ran"}
Replies == {"none", "text", "cut", "tool", "malformed", "failed"}
RunErrs == {"none", "llm", "trace", "terminated"}

TurnTypeOK ==
  /\ TracerTypeOK
  /\ turn \in 0..MaxTurns
  /\ calls \in 0..MaxCalls
  /\ reply \in Replies
  /\ runErr \in RunErrs
  /\ cancelled \subseteq Turns

Dead == turn \in cancelled

\* RunTurn returns, with the error a tracing call's result stands for.
Abort(err) ==
  /\ pc' = "ran" /\ runErr' = err /\ reply' = "none"
  /\ UNCHANGED <<turn, calls, cancelled>>

AbortOf(res) == Abort(IF res = "terminated" THEN "terminated" ELSE "trace")

\* The tracing call of a step, if there is a tracer: go on when it succeeds.
Continue(next) ==
  pc' = next /\ UNCHANGED turnVars

Then(res, next) ==
  \/ res = "ok" /\ Continue(next)
  \/ res # "ok" /\ AbortOf(res)

Untraced(next) == ~Traced /\ Continue(next) /\ UNCHANGED traceVars

\* The span of one LLM call is opened under the turn's context.
Call ==
  /\ pc = "round" /\ calls < MaxCalls
  /\ \/ /\ Traced
        /\ \E res \in Results :
             /\ CreateSpan(<<turn, "llm">>, Dead, res)
             /\ \/ /\ res = "ok"
                   /\ pc' = "inflight" /\ calls' = calls + 1
                   /\ UNCHANGED <<turn, reply, runErr, cancelled>>
                \/ res # "ok" /\ AbortOf(res)
     \/ /\ ~Traced
        /\ pc' = "inflight" /\ calls' = calls + 1
        /\ UNCHANGED <<turn, reply, runErr, cancelled>>
        /\ UNCHANGED traceVars

GiveUp ==
  /\ pc = "round" /\ calls = MaxCalls
  /\ Abort("llm")
  /\ UNCHANGED traceVars

\* The inner client answers, or fails: of itself or because Ctrl-C cancelled it.
Answer ==
  /\ pc = "inflight"
  /\ \E r \in Replies \ {"none"} : reply' = r
  /\ pc' = "answered"
  /\ UNCHANGED <<turn, calls, runErr, cancelled>>
  /\ UNCHANGED traceVars

\* mutant: the error goes back before the span is finished
CallFailedUnspanned ==
  /\ pc = "answered" /\ reply = "failed"
  /\ Abort("llm") /\ UNCHANGED traceVars
\* The call's error stands unless finishing its span reports the termination.
CallFailed ==
  /\ pc = "answered" /\ reply = "failed"
  /\ \/ /\ Traced
        /\ \E res \in Results :
             /\ FinishSpan(<<turn, "llm">>, "failed", res)
             /\ Abort(IF res = "terminated" THEN "terminated"
                      ELSE IF res = "error" THEN "trace" ELSE "llm")
     \/ ~Traced /\ Abort("llm") /\ UNCHANGED traceVars

CallSucceeded ==
  /\ pc = "answered" /\ reply # "failed"
  /\ \/ /\ Traced
        /\ \E res \in Results :
             FinishSpan(<<turn, "llm">>, "complete", res) /\ Then(res, "text")
     \/ Untraced("text")

\* The response's text is recorded when there is some and it was not streamed.
\* A response without tool calls ends the turn, as an error if it was cut short.
Spoken ==
  \/ reply \in {"tool", "malformed"} /\ Continue("tool")
  \/ reply = "cut" /\ Abort("llm")
  \/ reply = "text" /\ Abort("none")

Say ==
  /\ pc = "text"
  /\ \/ /\ Traced /\ ~Streams
        /\ \E res \in Results :
             /\ RecordSpan(FALSE, res)
             /\ \/ res = "ok" /\ Spoken
                \/ res # "ok" /\ AbortOf(res)
     \/ Spoken /\ UNCHANGED traceVars

\* A result without a call: the arguments did not decode.
Orphan ==
  /\ pc = "tool" /\ reply = "malformed"
  /\ \/ Traced /\ \E res \in Results : RecordSpan(FALSE, res) /\ Then(res, "round")
     \/ Untraced("round")

\* EventToolCall opens the tool's span before the tool runs ...
ToolCall ==
  /\ pc = "tool" /\ reply = "tool"
  /\ \/ /\ Traced
        /\ \E res \in Results :
             CreateSpan(<<turn, "tool">>, FALSE, res) /\ Then(res, "running")
     \/ Untraced("running")

\* ... and EventToolResult closes it whatever became of the tool.
ToolRuns ==
  /\ pc = "running"
  /\ Continue("toolDone") /\ UNCHANGED traceVars

\* mutant: what finishing the span says is dropped
ToolResultUnheeded ==
  /\ pc = "toolDone"
  /\ \/ Traced /\ \E res \in Results : FinishSpan(<<turn, "tool">>, "complete", res)
     \/ ~Traced /\ UNCHANGED traceVars
  /\ Continue("round")
ToolResult ==
  /\ pc = "toolDone"
  /\ \/ /\ Traced
        /\ \E res \in Results :
             FinishSpan(<<turn, "tool">>, "complete", res) /\ Then(res, "round")
     \/ Untraced("round")

TurnStep ==
  \/ Call \/ GiveUp \/ Answer \/ CallFailed \/ CallSucceeded \/ Say
  \/ Orphan \/ ToolCall \/ ToolRuns \/ ToolResult
=============================================================================

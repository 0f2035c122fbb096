------------------------------- MODULE Engine -------------------------------
(***************************************************************************)
(* The turn engine (internal/engine/engine.go): one conversation, and a     *)
(* turn that loops API calls and tool executions until the model answers.   *)
(* The engine runs in its caller's goroutine; what interrupts it is the     *)
(* failure of any call it makes: the API, a tool, or the caller's onEvent.  *)
(***************************************************************************)
EXTENDS Messages, FiniteSets

CONSTANTS Configs,          \* engine configurations (EngineConfig)
          Responses,        \* responses the provider may give
          Seeds,            \* conversations a frontend may resume from
          ForceTool,        \* the tool force mode names
          DefaultMaxTurns,  \* config.DefaultMaxTurns
          MaxHistory        \* bound: no turn starts on a longer history

Response == [text : BOOLEAN, calls : Seq(ToolCall), truncated : BOOLEAN]

TextOnly(h) == \A i \in 1..Len(h) : h[i].role # "tool" /\ h[i].calls = <<>>

ASSUME EngineAssumption ==
  /\ Configs \subseteq [choice : {"none", "required", "force"},
                        tools : SUBSET ToolNames, maxTurns : Nat]
  /\ Responses \subseteq Response
  /\ Seeds \subseteq Seq(Message) /\ \A s \in Seeds : TextOnly(s)
  /\ ForceTool \in ToolNames
  /\ DefaultMaxTurns \in Nat \ {0}
  /\ MaxHistory \in Nat

VARIABLES
  cfg,           \* EngineConfig, fixed at construction
  history,       \* Engine.history
  currentCalls,  \* Engine.currentCalls
  historyLen,    \* RunTurn's historyLen
  forcedCalled,  \* RunTurn's forcedCalled
  pc,            \* where RunTurn stands
  resp,          \* the response being handled
  done,          \* how many of its tool calls have a result in history
  text,          \* RunTurn's text builder: text fragments collected
  sent,          \* the tool choice of the request in flight or last sent
  outcome,       \* how the last turn ended
  final          \* text fragments in the string it returned

vars == <<cfg, history, currentCalls, historyLen, forcedCalled, pc, resp, done,
          text, sent, outcome, final>>

NoResponse == [text |-> FALSE, calls |-> <<>>, truncated |-> FALSE]

Outcomes == {"none", "ok", "unforceable", "tooMany", "api", "event",
             "forcedText", "truncated"}

Init ==
  /\ cfg \in Configs
  /\ history = <<>>
  /\ currentCalls = 0 /\ historyLen = 0 /\ forcedCalled = FALSE
  /\ pc = "idle"
  /\ resp = NoResponse /\ done = 0
  /\ text = 0 /\ sent = "none"
  /\ outcome = "none" /\ final = 0
-----------------------------------------------------------------------------
ForceMode == cfg.choice = "force"

ConstructionErr == ForceMode /\ ForceTool \notin cfg.tools

MaxTurns == IF cfg.maxTurns = 0 THEN DefaultMaxTurns ELSE cfg.maxTurns

(***************************************************************************)
(* repairUnansweredToolCalls: every call no tool message answers gets a      *)
(* synthetic result at the end, newest assistant message first.             *)
(***************************************************************************)
Answered(h) == {h[i].id : i \in {j \in 1..Len(h) : h[j].role = "tool"}}

Orphans(h, i) ==
  SelectSeq(h[i].calls, LAMBDA c : c.id # NoId /\ c.id \notin Answered(h))

SyntheticResults(h, i) ==
  [k \in 1..Len(Orphans(h, i)) |-> ToolResultMessage(Orphans(h, i)[k].id)]

AllAnswered(h) ==
  \A i \in 1..Len(h) : \A k \in 1..Len(h[i].calls) :
    h[i].calls[k].id = NoId \/ h[i].calls[k].id \in Answered(h)

Repair(h) ==
  LET newest[i \in 0..Len(h)] ==
        IF i = 0 THEN <<>> ELSE SyntheticResults(h, i) \o newest[i - 1]
  IN  IF AllAnswered(h) THEN h ELSE h \o newest[Len(h)]

RolledBackKeepsPrompt(h, n) == Repair(SubSeq(h, 1, n + 1))  \* mutant
\* What RunTurn's deferred function leaves of the history when the turn fails.
RolledBack(h, n) == Repair(SubSeq(h, 1, n))

Fail(why) ==
  /\ history' = RolledBack(history, historyLen)
  /\ pc' = "idle"
  /\ outcome' = why /\ final' = 0
  /\ UNCHANGED <<cfg, currentCalls, historyLen, forcedCalled, resp, done, text,
                 sent>>
-----------------------------------------------------------------------------
\* A frontend that holds prior context calls SeedHistory before the first turn.
SeedHistory(msgs) ==
  /\ pc = "idle" /\ outcome = "none"
  /\ history' = msgs
  /\ UNCHANGED <<cfg, currentCalls, historyLen, forcedCalled, pc, resp, done,
                 text, sent, outcome, final>>

\* RunTurn refuses at once when force mode names a tool the registry lacks.
RefuseTurn ==
  /\ pc = "idle" /\ ConstructionErr
  /\ outcome' = "unforceable" /\ final' = 0
  /\ UNCHANGED <<cfg, history, currentCalls, historyLen, forcedCalled, pc, resp,
                 done, text, sent>>

StartTurn ==
  /\ pc = "idle" /\ ~ConstructionErr
  /\ Len(history) <= MaxHistory
  /\ currentCalls' = 0
  /\ historyLen' = Len(history)
  /\ history' = Append(history, UserMessage)
  /\ forcedCalled' = FALSE /\ text' = 0 /\ sent' = "none"
  /\ outcome' = "none" /\ final' = 0
  /\ pc' = "call"
  /\ UNCHANGED <<cfg, resp, done>>

OutOfCallsLate(n) == n > MaxTurns                           \* mutant
OutOfCalls(n) == n >= MaxTurns

GiveUp == pc = "call" /\ OutOfCalls(currentCalls) /\ Fail("tooMany")

\* call: count the call, build the request from the history.
CountedDown(n) == n - 1                                     \* mutant
Counted(n) == n + 1

SendRequest ==
  /\ pc = "call" /\ ~OutOfCalls(currentCalls)
  /\ currentCalls' = Counted(currentCalls)
  /\ sent' = IF ForceMode /\ forcedCalled THEN "none" ELSE cfg.choice
  /\ pc' = "inflight"
  /\ UNCHANGED <<cfg, history, historyLen, forcedCalled, resp, done, text,
                 outcome, final>>

\* mutant: a failed call is sent again, and is not counted
CallRetries ==
  /\ pc = "inflight"
  /\ pc' = "call" /\ currentCalls' = currentCalls - 1
  /\ UNCHANGED <<cfg, history, historyLen, forcedCalled, resp, done, text, sent, outcome, final>>
\* The API fails, the context is cancelled, or the consumer of a delta fails.
CallFails == pc = "inflight" /\ \E why \in {"api", "event"} : Fail(why)

\* The response is complete and its usage is about to be reported.
CallCompletes(r) ==
  /\ pc = "inflight"
  /\ resp' = r /\ done' = 0
  /\ pc' = "reporting"
  /\ UNCHANGED <<cfg, history, currentCalls, historyLen, forcedCalled, text,
                 sent, outcome, final>>

\* onEvent rejects EventUsage, or a thinking or text event of the whole message.
ReportFails == pc = "reporting" /\ Fail("event")

CallsForced(r) == \E k \in 1..Len(r.calls) : r.calls[k].name = ForceTool

ForcedAfterAny(r) == forcedCalled \/ ForceMode                  \* mutant
ForcedAfter(r) == forcedCalled \/ (ForceMode /\ CallsForced(r))

Fragments(r) == IF r.text THEN 1 ELSE 0

\* The model was told to call the forced tool and replied with text.
Deviates(r) == ForceMode /\ ~ForcedAfter(r)

\* A response without tool calls ends the turn, as an answer or as a failure.
EndWithText ==
  /\ pc = "reporting" /\ resp.calls = <<>>
  /\ \/ Deviates(resp) /\ Fail("forcedText")
     \/ ~Deviates(resp) /\ resp.truncated /\ Fail("truncated")
     \/ /\ ~Deviates(resp) /\ ~resp.truncated
        /\ history' = Append(history, AssistantMessage(resp))
        /\ forcedCalled' = ForcedAfter(resp)
        /\ pc' = "idle"
        /\ outcome' = "ok" /\ final' = text + Fragments(resp)
        /\ UNCHANGED <<cfg, currentCalls, historyLen, resp, done, text, sent>>

CollectedLast(r) == Fragments(r)                            \* mutant
Collected(r) == text + Fragments(r)

BeginTools ==
  /\ pc = "reporting" /\ resp.calls # <<>>
  /\ forcedCalled' = ForcedAfter(resp)
  /\ text' = Collected(resp)
  /\ history' = Append(history, AssistantMessage(resp))
  /\ pc' = "tools"
  /\ UNCHANGED <<cfg, currentCalls, historyLen, resp, done, sent, outcome,
                 final>>
-----------------------------------------------------------------------------
(***************************************************************************)
(* runToolCalls: one call after the other.                                   *)
(***************************************************************************)
Current == resp.calls[done + 1]

WithoutResult(h, id) == h                                   \* mutant
WithResult(h, id) == Append(h, ToolResultMessage(id))

AppendResult ==
  /\ history' = WithResult(history, Current.id)
  /\ done' = done + 1
  /\ pc' = "result"

\* Arguments that do not decode are answered with the decoding error.
AnswerMalformed ==
  /\ pc = "tools" /\ done < Len(resp.calls) /\ ~Current.decodes
  /\ AppendResult
  /\ UNCHANGED <<cfg, currentCalls, historyLen, forcedCalled, resp, text, sent, outcome, final>>

\* EventToolCall is accepted and the registry runs the tool (or has none).
StartTool ==
  /\ pc = "tools" /\ done < Len(resp.calls) /\ Current.decodes
  /\ pc' = "running"
  /\ UNCHANGED <<cfg, history, currentCalls, historyLen, forcedCalled, resp,
                 done, text, sent, outcome, final>>

ToolCallEventFails ==
  pc = "tools" /\ done < Len(resp.calls) /\ Current.decodes /\ Fail("event")

\* Output, tool failure and registry error alike become the call's result.
FinishTool ==
  /\ pc = "running"
  /\ AppendResult
  /\ UNCHANGED <<cfg, currentCalls, historyLen, forcedCalled, resp, text, sent, outcome, final>>

ResultEventAccepted ==
  /\ pc = "result"
  /\ pc' = IF done < Len(resp.calls) THEN "tools" ELSE "call"
  /\ UNCHANGED <<cfg, history, currentCalls, historyLen, forcedCalled, resp,
                 done, text, sent, outcome, final>>

ResultEventFails == pc = "result" /\ Fail("event")

Step ==
  \/ GiveUp \/ SendRequest
  \/ CallFails \/ (\E r \in Responses : CallCompletes(r))
  \/ ReportFails \/ EndWithText \/ BeginTools
  \/ AnswerMalformed \/ StartTool \/ ToolCallEventFails \/ FinishTool
  \/ ResultEventAccepted \/ ResultEventFails

Next ==
  \/ \E s \in Seeds : SeedHistory(s)
  \/ RefuseTurn \/ StartTurn
  \/ Step

Spec == Init /\ [][Next]_vars

\* RunTurn runs in a goroutine that is scheduled until it returns, and every
\* call it waits for returns (tools by the registry's timeout, the API by its
\* client's or by cancellation).
FairSpec == Spec /\ WF_vars(Step)
-----------------------------------------------------------------------------
TypeOK ==
  /\ cfg \in Configs
  /\ history \in Seq(Message)
  /\ currentCalls \in Nat
  /\ historyLen \in Nat
  /\ forcedCalled \in BOOLEAN
  /\ pc \in {"idle", "call", "inflight", "reporting", "tools", "running", "result"}
  /\ resp \in Response
  /\ done \in Nat
  /\ text \in Nat
  /\ sent \in {"none", "required", "force"}
  /\ outcome \in Outcomes
  /\ final \in Nat

\* Every request the engine sends is one a provider accepts, whatever mixture of
\* malformed, unknown, failing and interrupted tool calls came before it, in this
\* turn and in earlier ones; and it asks something (engine.go call, lines 309-313).
RequestAcceptable ==
  pc = "inflight" =>
    /\ WellFormed(history)
    /\ history[Len(history)].role \in {"user", "tool"}

\* A turn that succeeds in force mode called the forced tool in that very turn: a
\* call made in an earlier turn, or the mere presence of tool calls, is no excuse.
ForcedToolCalled ==
  pc = "idle" /\ outcome = "ok" /\ ForceMode =>
    \E i \in (historyLen + 1)..Len(history) : CallsForced(history[i])

\* RunTurn returns all text of the turn: one fragment for every assistant message
\* with text that the turn left in the history, those beside tool calls included.
FinalTextComplete ==
  pc = "idle" /\ outcome = "ok" =>
    final = Cardinality({i \in (historyLen + 1)..Len(history) :
                           history[i].role = "assistant" /\ history[i].text})

\* The API budget of a turn is spent exactly when the turn gives up on it, and no
\* request goes out beyond it.
CallBudget ==
  /\ currentCalls <= MaxTurns
  /\ outcome = "tooMany" => currentCalls = MaxTurns

\* Every turn ends.
TurnEnds == (pc # "idle") ~> (pc = "idle")

\* In force mode a request without a tool choice is sent only once a response of this
\* very turn has called the forced tool (engine.go call, lines 318-324).
FreeOnlyAfterForcedCall ==
  pc = "inflight" /\ ForceMode /\ sent = "none" =>
    \E i \in (historyLen + 1)..Len(history) : CallsForced(history[i])

(***************************************************************************)
(* The conversation the frontends see: while a turn runs, what stood before. *)
(***************************************************************************)
Visible == IF pc = "idle" THEN history ELSE SubSeq(history, 1, historyLen)

Phase == IF pc = "idle" THEN "idle" ELSE "turn"

Promise == INSTANCE Conversation WITH convo <- Visible, phase <- Phase

\* A turn commits one complete exchange or leaves the conversation untouched.
TurnAtomic == Promise!Spec
=============================================================================

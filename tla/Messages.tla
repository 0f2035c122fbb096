------------------------------ MODULE Messages ------------------------------
(***************************************************************************)
(* Conversation messages as the engine keeps them (internal/llm Message):   *)
(* a user message, an assistant message with its tool calls, or the result  *)
(* of one tool call.  Texts are abstracted to "is there any", argument JSON *)
(* to "does it decode".                                                     *)
(***************************************************************************)
EXTENDS Naturals, Sequences

CONSTANTS CallIds,    \* identifiers a provider gives to tool calls
          NoId,       \* the empty identifier (a provider may omit the id)
          ToolNames   \* names a model may put in a tool call

ASSUME MessagesAssumption == NoId \in CallIds

ToolCall == [id : CallIds, name : ToolNames, decodes : BOOLEAN]

Message == [id    : CallIds,
            text  : BOOLEAN,
            calls : Seq(ToolCall),
            role  : {"user", "assistant", "tool"}]

UserMessage == [id |-> NoId, text |-> TRUE, calls |-> <<>>, role |-> "user"]

AssistantMessage(resp) ==
  [id |-> NoId, text |-> resp.text, calls |-> resp.calls, role |-> "assistant"]

ToolResultMessage(id) ==
  [id |-> id, text |-> TRUE, calls |-> <<>>, role |-> "tool"]

(***************************************************************************)
(* What a chat-completions provider accepts: the calls of an assistant      *)
(* message are answered, in order, by the messages right behind it, and a   *)
(* tool result stands nowhere else.                                         *)
(***************************************************************************)
AnsweredAt(h, i, n) ==
  /\ i + Len(h[i].calls) <= n
  /\ \A k \in 1..Len(h[i].calls) :
       h[i + k] = ToolResultMessage(h[i].calls[k].id)

OwnedAt(h, j) ==
  h[j].role = "tool" => \E i \in 1..(j - 1) : j <= i + Len(h[i].calls)

WellFormedTo(h, n) == \A i \in 1..n : AnsweredAt(h, i, n) /\ OwnedAt(h, i)

WellFormed(h) == WellFormedTo(h, Len(h))
=============================================================================

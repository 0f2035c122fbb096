---------------------------- MODULE EngineProofs ----------------------------
(***************************************************************************)
(* Proofs about Engine: typing, the protocol validity of every request, and *)
(* the atomicity of turns, for every configuration and response set; and,   *)
(* below, about Streams, which takes apart the one step a response is here: *)
(* what is returned is what the body holds.                                 *)
(***************************************************************************)
EXTENDS Engine, Streams, FiniteSetTheorems, DataLemmas

(***************************************************************************)
(* The inductive invariant.  Between turns the history is well formed.  In   *)
(* a turn, the prefix before it is still well formed, the turn's messages    *)
(* start with its prompt, and either every call so far is answered or the   *)
(* last assistant message is the response being handled and its first done  *)
(* calls are answered.                                                      *)
(***************************************************************************)
RoundStart == Len(history) - done

OpenRound ==
  /\ RoundStart > historyLen + 1
  /\ done <= Len(resp.calls)
  /\ history[RoundStart] = AssistantMessage(resp)
  /\ \A k \in 1..done :
       history[RoundStart + k] = ToolResultMessage(resp.calls[k].id)
  /\ WellFormedTo(history, RoundStart - 1)

IInv ==
  /\ TypeOK
  /\ pc = "idle" => WellFormed(history)
  /\ pc # "idle" =>
       /\ historyLen < Len(history)
       /\ history[historyLen + 1] = UserMessage
       /\ \A i \in (historyLen + 2)..Len(history) : history[i].role # "user"
       /\ WellFormedTo(history, historyLen)
  /\ pc \in {"call", "inflight", "reporting"} =>
       WellFormed(history) /\ history[Len(history)].role \in {"user", "tool"}
  /\ pc \in {"tools", "running", "result"} => OpenRound
  /\ pc \in {"tools", "running"} => done < Len(resp.calls)
  /\ pc = "result" => done > 0
  /\ pc = "reporting" => done = 0
-----------------------------------------------------------------------------
(***************************************************************************)
(* Lemmas about conversations.                                              *)
(***************************************************************************)
\* A message carries a sequence of tool calls.
LEMMA MessageCalls ==
  ASSUME NEW h \in Seq(Message), NEW i \in 1..Len(h)
  PROVE  /\ h[i] \in Message
         /\ h[i].calls \in Seq(ToolCall)
         /\ Len(h[i].calls) \in Nat
<1>1. h[i] \in Message
  OBVIOUS
<1>2. h[i].calls \in Seq(ToolCall)
  BY <1>1 DEF Message
<1>3. QED
  BY <1>1, <1>2

\* The fields of the messages the engine builds.
LEMMA ToolResultFields ==
  ASSUME NEW id
  PROVE  /\ ToolResultMessage(id).role = "tool"
         /\ ToolResultMessage(id).calls = <<>>
         /\ ToolResultMessage(id).id = id
BY DEF ToolResultMessage

\* Well-formedness of a prefix depends on that prefix alone.
LEMMA SamePrefix ==
  ASSUME NEW h \in Seq(Message), NEW g \in Seq(Message), NEW n \in Nat,
         n <= Len(h), n <= Len(g), \A i \in 1..n : h[i] = g[i],
         WellFormedTo(h, n)
  PROVE  WellFormedTo(g, n)
<1> SUFFICES ASSUME NEW i \in 1..n
             PROVE  AnsweredAt(g, i, n) /\ OwnedAt(g, i)
  BY DEF WellFormedTo
<1>1. AnsweredAt(h, i, n) /\ OwnedAt(h, i)
  BY DEF WellFormedTo
<1>2. h[i] = g[i] /\ h[i] \in Message /\ Len(h[i].calls) \in Nat
  BY MessageCalls
<1>3. AnsweredAt(g, i, n)
  <2>1. i + Len(g[i].calls) <= n
    BY <1>1, <1>2 DEF AnsweredAt
  <2>2. ASSUME NEW k \in 1..Len(g[i].calls)
        PROVE  g[i + k] = ToolResultMessage(g[i].calls[k].id)
    BY <1>1, <1>2, <2>1 DEF AnsweredAt
  <2>3. QED
    BY <2>1, <2>2 DEF AnsweredAt
<1>4. OwnedAt(g, i)
  BY <1>1, <1>2 DEF OwnedAt
<1>5. QED
  BY <1>3, <1>4

\* What Append does.
LEMMA AppendFacts ==
  ASSUME NEW S, NEW h \in Seq(S), NEW m \in S
  PROVE  /\ Append(h, m) \in Seq(S)
         /\ Len(h) \in Nat
         /\ Len(Append(h, m)) = Len(h) + 1
         /\ Append(h, m)[Len(h) + 1] = m
         /\ \A i \in 1..Len(h) : Append(h, m)[i] = h[i]
OBVIOUS

\* A message that is no tool result and calls no tool may follow.
LEMMA PlainMessageFollows ==
  ASSUME NEW h \in Seq(Message), NEW m \in Message, WellFormed(h),
         m.role # "tool", m.calls = <<>>
  PROVE  WellFormed(Append(h, m))
<1> DEFINE g == Append(h, m)
<1> SUFFICES ASSUME NEW i \in 1..Len(g)
             PROVE  AnsweredAt(g, i, Len(g)) /\ OwnedAt(g, i)
  BY DEF WellFormed, WellFormedTo
<1>1. g \in Seq(Message) /\ Len(g) = Len(h) + 1 /\ g[Len(h) + 1] = m
  OBVIOUS
<1>2. Len(h) \in Nat /\ \A j \in 1..Len(h) : g[j] = h[j]
  OBVIOUS
<1> HIDE DEF g
<1>3. WellFormedTo(g, Len(h))
  BY <1>1, <1>2, SamePrefix DEF WellFormed
<1>4. CASE i \in 1..Len(h)
  <2>1. AnsweredAt(g, i, Len(h)) /\ OwnedAt(g, i)
    BY <1>3, <1>4 DEF WellFormedTo
  <2>2. Len(g[i].calls) \in Nat
    BY <1>1, MessageCalls
  <2>3. QED
    BY <1>1, <2>1, <2>2 DEF AnsweredAt
<1>5. CASE i = Len(h) + 1
  <2>1. g[i] = m /\ Len(g[i].calls) = 0
    BY <1>1, <1>5
  <2>2. i + 0 <= Len(g)
    BY <1>1, <1>2, <1>5
  <2>3. \A k \in 1..0 : FALSE
    OBVIOUS
  <2>4. AnsweredAt(g, i, Len(g))
    BY <2>1, <2>2, <2>3 DEF AnsweredAt
  <2>5. QED
    BY <2>1, <2>4 DEF OwnedAt
<1>6. QED
  BY <1>1, <1>4, <1>5

\* A round whose calls all have their result closes the history again.
LEMMA RoundCloses ==
  ASSUME NEW h \in Seq(Message), NEW a \in Nat \ {0}, a <= Len(h),
         h[a].role # "tool", Len(h) = a + Len(h[a].calls),
         WellFormedTo(h, a - 1),
         \A k \in 1..Len(h[a].calls) :
           h[a + k] = ToolResultMessage(h[a].calls[k].id)
  PROVE  WellFormed(h)
<1> SUFFICES ASSUME NEW i \in 1..Len(h)
             PROVE  AnsweredAt(h, i, Len(h)) /\ OwnedAt(h, i)
  BY DEF WellFormed, WellFormedTo
<1>1. h[i] \in Message /\ Len(h[i].calls) \in Nat
  BY MessageCalls
<1>2. CASE i < a
  <2>1. AnsweredAt(h, i, a - 1) /\ OwnedAt(h, i)
    BY <1>2 DEF WellFormedTo
  <2>2. QED
    BY <1>1, <2>1 DEF AnsweredAt
<1>3. CASE i = a
  BY <1>3 DEF AnsweredAt, OwnedAt
<1>4. CASE i > a
  <2>1. PICK k \in 1..Len(h[a].calls) : i = a + k
    BY <1>4
  <2>2. h[i].role = "tool" /\ h[i].calls = <<>>
    BY <2>1, ToolResultFields
  <2>3. OwnedAt(h, i)
    BY <1>4 DEF OwnedAt
  <2>4. AnsweredAt(h, i, Len(h))
    BY <2>2 DEF AnsweredAt
  <2>5. QED
    BY <2>3, <2>4
<1>5. QED
  BY <1>2, <1>3, <1>4

\* The repair pass has nothing to do on a well-formed history.
LEMMA NothingToRepair ==
  ASSUME NEW h \in Seq(Message), WellFormed(h)
  PROVE  Repair(h) = h
<1>1. AllAnswered(h)
  <2> SUFFICES ASSUME NEW i \in 1..Len(h), NEW k \in 1..Len(h[i].calls)
               PROVE  h[i].calls[k].id \in Answered(h)
    BY DEF AllAnswered
  <2>1. Len(h[i].calls) \in Nat
    BY MessageCalls
  <2>2. i + k \in 1..Len(h) /\ h[i + k] = ToolResultMessage(h[i].calls[k].id)
    BY <2>1 DEF WellFormed, WellFormedTo, AnsweredAt
  <2>3. QED
    BY <2>2, ToolResultFields DEF Answered
<1>2. QED
  BY <1>1 DEF Repair

\* Rolling a failed turn back yields exactly the history the turn started from.
LEMMA RollbackIsExact ==
  ASSUME NEW h \in Seq(Message), NEW n \in 0..Len(h), WellFormedTo(h, n)
  PROVE  /\ RolledBack(h, n) = SubSeq(h, 1, n)
         /\ WellFormed(RolledBack(h, n))
         /\ RolledBack(h, n) \in Seq(Message)
<1> DEFINE g == SubSeq(h, 1, n)
<1>1. g \in Seq(Message) /\ Len(g) = n /\ \A i \in 1..n : h[i] = g[i]
  OBVIOUS
<1> HIDE DEF g
<1>2. WellFormed(g)
  BY <1>1, SamePrefix DEF WellFormed
<1>3. Repair(g) = g
  BY <1>1, <1>2, NothingToRepair
<1>4. QED
  BY <1>1, <1>2, <1>3 DEF RolledBack, g

\* A conversation without tool calls and results is well formed.
LEMMA TextOnlyWellFormed ==
  ASSUME NEW h \in Seq(Message), TextOnly(h)
  PROVE  WellFormed(h)
<1> SUFFICES ASSUME NEW i \in 1..Len(h)
             PROVE  AnsweredAt(h, i, Len(h)) /\ OwnedAt(h, i)
  BY DEF WellFormed, WellFormedTo
<1>1. h[i].role # "tool" /\ Len(h[i].calls) = 0
  BY DEF TextOnly
<1>2. QED
  BY <1>1 DEF AnsweredAt, OwnedAt

\* The messages the engine builds are messages.
LEMMA BuiltMessages ==
  /\ UserMessage \in Message
  /\ \A r \in Response : AssistantMessage(r) \in Message
  /\ \A id \in CallIds : ToolResultMessage(id) \in Message
<1>1. UserMessage \in Message
  BY MessagesAssumption DEF UserMessage, Message
<1>2. ASSUME NEW r \in Response
      PROVE  AssistantMessage(r) \in Message
  BY MessagesAssumption DEF AssistantMessage, Message, Response
<1>3. ASSUME NEW id \in CallIds
      PROVE  ToolResultMessage(id) \in Message
  BY DEF ToolResultMessage, Message
<1>4. QED
  BY <1>1, <1>2, <1>3
-----------------------------------------------------------------------------
LEMMA InitIInv == Init => IInv
<1> SUFFICES ASSUME Init
             PROVE  IInv
  OBVIOUS
<1>1. NoResponse \in Response
  BY DEF NoResponse, Response
<1>2. TypeOK
  <2>1. forcedCalled \in BOOLEAN
    BY DEF Init
  <2>2. history \in Seq(Message)
    BY DEF Init
  <2>3. outcome \in Outcomes
    BY DEF Init, Outcomes
  <2>4. QED
    BY <1>1, <2>1, <2>2, <2>3 DEF Init, TypeOK
<1>3. WellFormed(history)
  BY DEF Init, WellFormed, WellFormedTo
<1>4. QED
  BY <1>2, <1>3 DEF Init, IInv

\* Whatever fails, the turn leaves the conversation as it found it.
LEMMA FailIInv ==
  ASSUME IInv, pc # "idle", NEW failure \in Outcomes, Fail(failure)
  PROVE  IInv' /\ history' = SubSeq(history, 1, historyLen)
<1>1. /\ history \in Seq(Message) /\ historyLen \in 0..Len(history)
      /\ WellFormedTo(history, historyLen)
  BY DEF IInv, TypeOK
<1>2. /\ history' = SubSeq(history, 1, historyLen)
      /\ WellFormed(history') /\ history' \in Seq(Message)
  BY <1>1, RollbackIsExact DEF Fail
<1>3. TypeOK'
  BY <1>2 DEF Fail, IInv, TypeOK
<1>4. QED
  BY <1>2, <1>3 DEF Fail, IInv

\* Seeding and starting a turn.
LEMMA SeedIInv ==
  ASSUME IInv, NEW s \in Seeds, SeedHistory(s)
  PROVE  IInv'
<1>1. s \in Seq(Message) /\ TextOnly(s)
  BY EngineAssumption
<1>2. WellFormed(s)
  BY <1>1, TextOnlyWellFormed
<1>3. TypeOK'
  BY <1>1 DEF SeedHistory, IInv, TypeOK
<1>4. QED
  BY <1>2, <1>3 DEF SeedHistory, IInv

LEMMA StartIInv ==
  ASSUME IInv, StartTurn
  PROVE  IInv'
<1>1. /\ history \in Seq(Message) /\ WellFormed(history)
      /\ UserMessage \in Message
      /\ UserMessage.role = "user" /\ UserMessage.calls = <<>>
  BY BuiltMessages DEF StartTurn, IInv, TypeOK, UserMessage
<1>2. /\ history' = Append(history, UserMessage)
      /\ historyLen' = Len(history) /\ pc' = "call"
  BY DEF StartTurn
<1>3. /\ history' \in Seq(Message) /\ Len(history') = Len(history) + 1
      /\ history'[Len(history) + 1] = UserMessage
      /\ \A i \in 1..Len(history) : history'[i] = history[i]
      /\ Len(history) \in Nat
  BY <1>1, <1>2, AppendFacts
<1>4. WellFormed(history')
  BY <1>1, <1>2, PlainMessageFollows
<1>5. WellFormedTo(history', Len(history))
  BY <1>1, <1>3, SamePrefix DEF WellFormed
<1>6. TypeOK'
  BY <1>3 DEF StartTurn, IInv, TypeOK, Outcomes
<1>7. \A i \in (historyLen' + 2)..Len(history') : history'[i].role # "user"
  BY <1>2, <1>3
<1>8. QED
  BY <1>1, <1>2, <1>3, <1>4, <1>5, <1>6, <1>7 DEF IInv

\* Steps of the API call touch neither the history nor the position in it.
LEMMA CallIInv ==
  ASSUME IInv, SendRequest \/ \E r \in Responses : CallCompletes(r)
  PROVE  IInv'
<1>1. UNCHANGED <<history, historyLen>>
  BY DEF SendRequest, CallCompletes
<1>2. TypeOK'
  <2>1. CASE SendRequest
    <3>1. sent' \in {"none", "required", "force"}
      BY <2>1, EngineAssumption DEF SendRequest, IInv, TypeOK
    <3>2. currentCalls' \in Nat
      BY <2>1 DEF SendRequest, Counted, IInv, TypeOK
    <3>3. QED
      BY <2>1, <3>1, <3>2 DEF SendRequest, IInv, TypeOK
  <2>2. ASSUME NEW r \in Responses, CallCompletes(r)
        PROVE  TypeOK'
    BY <2>2, EngineAssumption DEF CallCompletes, IInv, TypeOK
  <2>3. QED
    BY <2>1, <2>2
<1>3. /\ pc' \in {"inflight", "reporting"} /\ pc \in {"call", "inflight"}
      /\ pc' = "reporting" => done' = 0
  BY DEF SendRequest, CallCompletes
<1>4. QED
  BY <1>1, <1>2, <1>3 DEF IInv, WellFormed

\* The answer closes the exchange.
LEMMA AnswerIInv ==
  ASSUME IInv, pc = "reporting", resp.calls = <<>>, pc' = "idle",
         history' = Append(history, AssistantMessage(resp)), TypeOK'
  PROVE  IInv'
<1>1. /\ history \in Seq(Message) /\ WellFormed(history)
      /\ AssistantMessage(resp) \in Message
  BY BuiltMessages DEF IInv, TypeOK
<1>2. /\ AssistantMessage(resp).role # "tool"
      /\ AssistantMessage(resp).calls = <<>>
  BY DEF AssistantMessage
<1>3. WellFormed(history')
  BY <1>1, <1>2, PlainMessageFollows
<1>4. QED
  BY <1>3 DEF IInv

\* The tool round opens behind the well-formed history.
LEMMA BeginIInv ==
  ASSUME IInv, BeginTools
  PROVE  IInv'
<1> DEFINE m == AssistantMessage(resp)
<1>1. /\ history \in Seq(Message) /\ WellFormed(history)
      /\ m \in Message /\ m.role = "assistant" /\ historyLen \in Nat
      /\ historyLen < Len(history) /\ pc = "reporting" /\ done = 0
  BY BuiltMessages DEF BeginTools, IInv, TypeOK, AssistantMessage
<1>2. /\ history' = Append(history, m) /\ pc' = "tools"
      /\ UNCHANGED <<historyLen, resp, done>>
  BY DEF BeginTools
<1> HIDE DEF m
<1>3. /\ history' \in Seq(Message) /\ Len(history) \in Nat
      /\ Len(history') = Len(history) + 1
      /\ history'[Len(history) + 1] = m
      /\ \A i \in 1..Len(history) : history'[i] = history[i]
  BY <1>1, <1>2, AppendFacts
<1>4. /\ WellFormedTo(history', Len(history))
      /\ WellFormedTo(history', historyLen)
  <2>1. WellFormedTo(history, historyLen)
    BY <1>1 DEF IInv
  <2>2. QED
    BY <1>1, <1>3, <2>1, SamePrefix, SMTT(30) DEF WellFormed
<1>5. TypeOK'
  <2>1. forcedCalled' \in BOOLEAN
    BY DEF BeginTools, ForcedAfter, CallsForced, ForceMode, IInv, TypeOK
  <2>2. text' \in Nat
    BY DEF BeginTools, Collected, Fragments, IInv, TypeOK
  <2>3. QED
    BY <1>2, <1>3, <2>1, <2>2 DEF BeginTools, IInv, TypeOK
<1>6. RoundStart' = Len(history) + 1 /\ 0 < Len(resp.calls)
  <2>1. resp.calls \in Seq(ToolCall) /\ resp.calls # <<>>
    BY DEF BeginTools, IInv, TypeOK, Response
  <2>2. Len(resp.calls) \in Nat /\ Len(resp.calls) # 0
    BY <2>1
  <2>3. RoundStart' = Len(history) + 1
    BY <1>1, <1>2, <1>3 DEF RoundStart
  <2>4. QED
    BY <2>2, <2>3
<1>7. OpenRound'
  BY <1>1, <1>2, <1>3, <1>4, <1>6 DEF OpenRound, m
<1>8. \A i \in (historyLen' + 2)..Len(history') : history'[i].role # "user"
  <2> SUFFICES ASSUME NEW i \in (historyLen + 2)..Len(history')
               PROVE  history'[i].role # "user"
    BY <1>2
  <2>1. CASE i \in 1..Len(history)
    BY <1>1, <1>3, <2>1 DEF IInv
  <2>2. CASE i = Len(history) + 1
    BY <1>1, <1>3, <2>2
  <2>3. QED
    BY <1>1, <1>3, <2>1, <2>2
<1>9. historyLen' < Len(history') /\ history'[historyLen' + 1] = UserMessage
  BY <1>1, <1>2, <1>3 DEF IInv
<1>10. QED
  BY <1>1, <1>2, <1>4, <1>5, <1>6, <1>7, <1>8, <1>9 DEF IInv

\* A result extends the open round by one answered call.
LEMMA ResultIInv ==
  ASSUME IInv, AnswerMalformed \/ FinishTool
  PROVE  IInv'
<1> DEFINE id == Current.id
           m  == ToolResultMessage(id)
<1>1. /\ history \in Seq(Message) /\ historyLen \in Nat /\ done \in Nat
      /\ resp \in Response /\ resp.calls \in Seq(ToolCall)
      /\ done < Len(resp.calls) /\ OpenRound
      /\ historyLen < Len(history) /\ pc \in {"tools", "running"}
  BY DEF AnswerMalformed, FinishTool, IInv, TypeOK, Response
<1>2. /\ history' = Append(history, m) /\ done' = done + 1 /\ pc' = "result"
      /\ UNCHANGED <<historyLen, resp>>
  BY DEF AnswerMalformed, FinishTool, AppendResult, WithResult
<1>3. id = resp.calls[done + 1].id /\ m \in Message
  <2>1. Len(resp.calls) \in Nat
    BY <1>1
  <2>2. done + 1 \in 1..Len(resp.calls)
    BY <1>1, <2>1
  <2>3. resp.calls[done + 1] \in ToolCall
    BY <1>1, <2>2
  <2>4. id \in CallIds
    BY <2>3 DEF Current, ToolCall
  <2>5. QED
    BY <2>4, BuiltMessages DEF Current
<1> HIDE DEF id, m
<1>4. /\ history' \in Seq(Message) /\ Len(history) \in Nat
      /\ Len(history') = Len(history) + 1
      /\ history'[Len(history) + 1] = m
      /\ \A i \in 1..Len(history) : history'[i] = history[i]
  BY <1>1, <1>2, <1>3, AppendFacts
<1>5. RoundStart' = RoundStart /\ RoundStart \in 1..Len(history)
  BY <1>1, <1>2, <1>4 DEF RoundStart, OpenRound
<1>6. /\ WellFormedTo(history', RoundStart - 1)
      /\ WellFormedTo(history', historyLen)
  <2>1. /\ WellFormedTo(history, historyLen)
        /\ WellFormedTo(history, RoundStart - 1)
    BY <1>1 DEF IInv, OpenRound
  <2>2. RoundStart - 1 \in Nat /\ RoundStart - 1 <= Len(history)
    BY <1>4, <1>5
  <2>3. QED
    BY <1>1, <1>4, <2>1, <2>2, SamePrefix, SMTT(30)
<1>7. \A k \in 1..done' :
        history'[RoundStart + k] = ToolResultMessage(resp.calls[k].id)
  <2> SUFFICES ASSUME NEW k \in 1..(done + 1)
               PROVE  history'[RoundStart + k] = ToolResultMessage(resp.calls[k].id)
    BY <1>2
  <2>1. CASE k \in 1..done
    <3>1. RoundStart + k \in 1..Len(history)
      BY <1>1, <1>4, <1>5, <2>1 DEF RoundStart
    <3>2. QED
      BY <1>1, <1>4, <2>1, <3>1 DEF OpenRound
  <2>2. CASE k = done + 1
    <3>1. RoundStart + k = Len(history) + 1
      BY <1>1, <1>4, <2>2 DEF RoundStart
    <3>2. QED
      BY <1>3, <1>4, <2>2, <3>1 DEF m
  <2>3. QED
    BY <1>1, <2>1, <2>2
<1>8. OpenRound'
  <2>1. done' <= Len(resp'.calls)
    BY <1>1, <1>2
  <2>2. RoundStart' > historyLen' + 1
    BY <1>1, <1>2, <1>5 DEF OpenRound
  <2>3. history'[RoundStart'] = AssistantMessage(resp')
    BY <1>1, <1>2, <1>4, <1>5 DEF OpenRound
  <2>4. WellFormedTo(history', RoundStart' - 1)
    BY <1>5, <1>6
  <2>5. \A k \in 1..done' :
          history'[RoundStart' + k] = ToolResultMessage(resp'.calls[k].id)
    BY <1>2, <1>5, <1>7
  <2>6. QED
    BY <2>1, <2>2, <2>3, <2>4, <2>5 DEF OpenRound
<1>9. \A i \in (historyLen' + 2)..Len(history') : history'[i].role # "user"
  <2> SUFFICES ASSUME NEW i \in (historyLen + 2)..Len(history')
               PROVE  history'[i].role # "user"
    BY <1>2
  <2>1. CASE i \in 1..Len(history)
    BY <1>1, <1>4, <2>1 DEF IInv
  <2>2. CASE i = Len(history) + 1
    BY <1>4, <2>2, ToolResultFields DEF m
  <2>3. QED
    BY <1>1, <1>4, <2>1, <2>2
<1>10. TypeOK'
  BY <1>1, <1>2, <1>4 DEF AnswerMalformed, FinishTool, IInv, TypeOK
<1>11. historyLen' < Len(history') /\ history'[historyLen' + 1] = UserMessage
  BY <1>1, <1>2, <1>4 DEF IInv
<1>12. QED
  BY <1>1, <1>2, <1>6, <1>8, <1>9, <1>10, <1>11 DEF IInv

\* Starting a tool changes no message; the last result closes the round.
LEMMA ToolIInv ==
  ASSUME IInv, StartTool \/ ResultEventAccepted
  PROVE  IInv'
<1>1. /\ history \in Seq(Message) /\ historyLen \in Nat /\ done \in Nat
      /\ resp.calls \in Seq(ToolCall) /\ OpenRound
      /\ pc \in {"tools", "result"}
  BY DEF StartTool, ResultEventAccepted, IInv, TypeOK, Response
<1>2. UNCHANGED <<history, historyLen, resp, done>>
  BY DEF StartTool, ResultEventAccepted
<1>3. TypeOK'
  BY DEF StartTool, ResultEventAccepted, IInv, TypeOK
<1>4. OpenRound'
  BY <1>1, <1>2 DEF OpenRound, RoundStart
<1>5. CASE pc' # "call"
  BY <1>1, <1>2, <1>3, <1>4, <1>5 DEF StartTool, ResultEventAccepted, IInv
<1>6. CASE pc' = "call"
  <2>0. pc = "result" /\ ~(done < Len(resp.calls)) /\ done > 0
    BY <1>6 DEF StartTool, ResultEventAccepted, IInv
  <2>1. pc = "result" /\ done >= Len(resp.calls) /\ done > 0
    BY <1>1, <2>0
  <2> DEFINE a == RoundStart
  <2>2. /\ a \in Nat \ {0} /\ a <= Len(history) /\ Len(history) \in Nat
        /\ history[a].calls = resp.calls /\ history[a].role = "assistant"
        /\ done = Len(resp.calls)
    BY <1>1, <2>1 DEF OpenRound, RoundStart, AssistantMessage
  <2>3. Len(history) = a + Len(resp.calls)
    BY <1>1, <2>2 DEF RoundStart
  <2>4. /\ WellFormedTo(history, a - 1)
        /\ \A k \in 1..Len(resp.calls) :
             history[a + k] = ToolResultMessage(resp.calls[k].id)
    BY <1>1, <2>2 DEF OpenRound
  <2> HIDE DEF a
  <2>5. WellFormed(history)
    BY <1>1, <2>2, <2>3, <2>4, RoundCloses
  <2>6. history[Len(history)].role = "tool"
    BY <1>1, <2>1, <2>2, <2>3, <2>4, ToolResultFields
  <2>7. QED
    BY <1>2, <1>3, <1>6, <2>1, <2>5, <2>6 DEF IInv, WellFormed
<1>7. QED
  BY <1>5, <1>6

\* Every step of the engine preserves the invariant.
LEMMA NextIInv ==
  ASSUME IInv, [Next]_vars
  PROVE  IInv'
<1>1. CASE \E s \in Seeds : SeedHistory(s)
  BY <1>1, SeedIInv
<1>2. CASE RefuseTurn
  <2>1. TypeOK'
    BY <1>2 DEF RefuseTurn, IInv, TypeOK, Outcomes
  <2>2. QED
    BY <1>2, <2>1 DEF RefuseTurn, IInv, WellFormed, OpenRound, RoundStart
<1>3. CASE StartTurn
  BY <1>3, StartIInv
<1>4. CASE \E failure \in Outcomes : pc # "idle" /\ Fail(failure)
  BY <1>4, FailIInv
<1>5. CASE SendRequest \/ \E r \in Responses : CallCompletes(r)
  BY <1>5, CallIInv
<1>6. CASE EndWithText /\ ~(\E failure \in Outcomes : Fail(failure))
  <2>1. /\ pc = "reporting" /\ resp.calls = <<>> /\ pc' = "idle"
        /\ history' = Append(history, AssistantMessage(resp))
        /\ forcedCalled' = ForcedAfter(resp) /\ outcome' = "ok"
        /\ final' = text + Fragments(resp)
        /\ UNCHANGED <<cfg, currentCalls, historyLen, resp, done, text, sent>>
    BY <1>6 DEF EndWithText, Outcomes
  <2>2. forcedCalled' \in BOOLEAN
    BY <2>1 DEF ForcedAfter, CallsForced, ForceMode, IInv, TypeOK
  <2>3. final' \in Nat
    BY <2>1 DEF Fragments, IInv, TypeOK
  <2>4. history' \in Seq(Message)
    <3>1. history \in Seq(Message) /\ AssistantMessage(resp) \in Message
      BY BuiltMessages DEF IInv, TypeOK
    <3>2. QED
      BY <2>1, <3>1, AppendFacts
  <2>5. TypeOK'
    BY <2>1, <2>2, <2>3, <2>4 DEF IInv, TypeOK, Outcomes
  <2>6. QED
    BY <2>1, <2>5, AnswerIInv
<1>7. CASE BeginTools
  BY <1>7, BeginIInv
<1>8. CASE AnswerMalformed \/ FinishTool
  BY <1>8, ResultIInv
<1>9. CASE StartTool \/ ResultEventAccepted
  BY <1>9, ToolIInv
<1>10. CASE UNCHANGED vars
  BY <1>10 DEF vars, IInv, TypeOK, WellFormed, OpenRound, RoundStart
<1>11. ASSUME Step
       PROVE  \/ \E failure \in Outcomes : pc # "idle" /\ Fail(failure)
              \/ SendRequest \/ \E r \in Responses : CallCompletes(r)
              \/ EndWithText /\ ~(\E failure \in Outcomes : Fail(failure))
              \/ BeginTools
              \/ AnswerMalformed \/ FinishTool
              \/ StartTool \/ ResultEventAccepted
  <2>1. ASSUME NEW failure \in Outcomes, Fail(failure), EndWithText
        PROVE  pc # "idle"
    BY <2>1 DEF EndWithText
  <2>2. QED
    BY <1>11, <2>1 DEF Step, GiveUp, CallFails, ReportFails, ToolCallEventFails,
                ResultEventFails, Outcomes
<1>12. QED
  BY <1>1, <1>2, <1>3, <1>4, <1>5, <1>6, <1>7, <1>8, <1>9, <1>10, <1>11 DEF Next
-----------------------------------------------------------------------------
\* The engine's variables keep their types.
THEOREM TypeCorrect == Spec => []TypeOK
<1>1. Spec => []IInv
  BY InitIInv, NextIInv, PTL DEF Spec
<1>2. IInv => TypeOK
  BY DEF IInv
<1>3. QED
  BY <1>1, <1>2, PTL

\* Every request the engine ever sends is one a provider accepts: all tool calls
\* before it are answered, in order and exactly once.
THEOREM RequestsAcceptable == Spec => []RequestAcceptable
<1>1. Spec => []IInv
  BY InitIInv, NextIInv, PTL DEF Spec
<1>2. IInv => RequestAcceptable
  BY DEF IInv, RequestAcceptable
<1>3. QED
  BY <1>1, <1>2, PTL
-----------------------------------------------------------------------------
(***************************************************************************)
(* The call budget.                                                         *)
(***************************************************************************)
BudgetInv == TypeOK /\ CallBudget

LEMMA MaxTurnsNat == TypeOK => MaxTurns \in Nat
BY EngineAssumption DEF TypeOK, MaxTurns

LEMMA NextBudgetInv ==
  ASSUME IInv, IInv', BudgetInv, [Next]_vars
  PROVE  BudgetInv'
<1>1. /\ MaxTurns \in Nat /\ currentCalls \in Nat /\ currentCalls <= MaxTurns
      /\ outcome = "tooMany" => currentCalls = MaxTurns
  BY MaxTurnsNat DEF BudgetInv, CallBudget, TypeOK
<1>2. MaxTurns' = MaxTurns
  <2>1. cfg' = cfg
    BY DEF Next, vars, Step, SeedHistory, RefuseTurn, StartTurn, GiveUp, SendRequest,
           CallFails, CallCompletes, ReportFails, EndWithText, BeginTools,
           AnswerMalformed, StartTool, ToolCallEventFails, FinishTool,
           ResultEventAccepted, ResultEventFails, Fail
  <2>2. QED
    BY <2>1 DEF MaxTurns
<1>3. CASE StartTurn
  BY <1>1, <1>2, <1>3 DEF StartTurn, BudgetInv, CallBudget, IInv
<1>4. CASE SendRequest
  <2>1. currentCalls' = currentCalls + 1 /\ ~(currentCalls >= MaxTurns)
    BY <1>4 DEF SendRequest, Counted, OutOfCalls
  <2>2. outcome # "tooMany"
    BY <1>1, <2>1
  <2>3. QED
    BY <1>1, <1>2, <1>4, <2>1, <2>2 DEF SendRequest, BudgetInv, CallBudget, IInv
<1>5. CASE GiveUp
  <2>1. currentCalls >= MaxTurns /\ currentCalls' = currentCalls
    BY <1>5 DEF GiveUp, OutOfCalls, Fail
  <2>2. QED
    BY <1>1, <1>2, <2>1 DEF BudgetInv, CallBudget, IInv
<1>6. CASE currentCalls' = currentCalls /\ (outcome' = "tooMany" => outcome' = outcome)
  BY <1>1, <1>2, <1>6 DEF BudgetInv, CallBudget, IInv
<1>7. QED
  BY <1>3, <1>4, <1>5, <1>6
     DEF Next, vars, Step, SeedHistory, RefuseTurn, CallFails, CallCompletes,
         ReportFails, EndWithText, BeginTools, AnswerMalformed, AppendResult,
         StartTool, ToolCallEventFails, FinishTool, ResultEventAccepted,
         ResultEventFails, Fail

\* No turn sends more requests than its budget, and a turn gives up on the budget
\* only when it is spent.
THEOREM BudgetKept == Spec => []CallBudget
<1>1. Spec => []IInv
  BY InitIInv, NextIInv, PTL DEF Spec
<1>2. Init => BudgetInv
  <2>1. Init => TypeOK
    BY InitIInv DEF IInv
  <2>2. QED
    BY <2>1, MaxTurnsNat DEF Init, BudgetInv, CallBudget
<1>3. IInv /\ IInv' /\ BudgetInv /\ [Next]_vars => BudgetInv'
  BY NextBudgetInv
<1>4. BudgetInv => CallBudget
  BY DEF BudgetInv
<1>5. QED
  BY <1>1, <1>2, <1>3, <1>4, PTL DEF Spec
-----------------------------------------------------------------------------
(***************************************************************************)
(* Force mode.                                                              *)
(***************************************************************************)
CalledSince(h, n) == \E i \in (n + 1)..Len(h) : CallsForced(h[i])

ForceInv ==
  /\ pc # "idle" /\ forcedCalled /\ ForceMode => CalledSince(history, historyLen)
  /\ ForcedToolCalled

\* A call made stays made while the history grows.
LEMMA CalledSinceGrows ==
  ASSUME NEW h \in Seq(Message), NEW m \in Message, NEW n \in Nat,
         CalledSince(h, n)
  PROVE  CalledSince(Append(h, m), n)
<1>1. PICK i \in (n + 1)..Len(h) : CallsForced(h[i])
  BY DEF CalledSince
<1>2. /\ Len(h) \in Nat /\ Len(Append(h, m)) = Len(h) + 1
      /\ i \in 1..Len(h) => Append(h, m)[i] = h[i]
  BY AppendFacts
<1>3. QED
  BY <1>1, <1>2 DEF CalledSince

\* An assistant message makes the calls of its response.
LEMMA ResponseCalls ==
  ASSUME NEW r \in Response
  PROVE  CallsForced(AssistantMessage(r)) <=> CallsForced(r)
BY DEF CallsForced, AssistantMessage

LEMMA NextForceInv ==
  ASSUME IInv, IInv', ForceInv, [Next]_vars
  PROVE  ForceInv'
<1> DEFINE m == AssistantMessage(resp)
<1>1. /\ history \in Seq(Message) /\ historyLen \in Nat /\ resp \in Response
      /\ m \in Message
  BY BuiltMessages DEF IInv, TypeOK
<1>2. ForceMode' = ForceMode
  <2>1. cfg' = cfg
    BY DEF Next, vars, Step, SeedHistory, RefuseTurn, StartTurn, GiveUp, SendRequest,
           CallFails, CallCompletes, ReportFails, EndWithText, BeginTools,
           AnswerMalformed, StartTool, ToolCallEventFails, FinishTool,
           ResultEventAccepted, ResultEventFails, Fail
  <2>2. QED
    BY <2>1 DEF ForceMode
<1>4. CASE \E failure \in Outcomes \ {"ok"} : Fail(failure)
  BY <1>4 DEF Fail, ForceInv, ForcedToolCalled
<1>5. CASE EndWithText /\ ~(\E failure \in Outcomes \ {"ok"} : Fail(failure))
  <2>1. /\ pc = "reporting" /\ resp.calls = <<>> /\ pc' = "idle"
        /\ history' = Append(history, m)
        /\ UNCHANGED historyLen
        /\ ~Deviates(resp)
    BY <1>5 DEF EndWithText, Outcomes
  <2>2. ~CallsForced(resp)
    BY <2>1 DEF CallsForced
  <2>3. ForceMode => CalledSince(history, historyLen)
    BY <2>1, <2>2 DEF ForceInv, ForcedAfter, Deviates
  <2>4. ForceMode => CalledSince(history', historyLen)
    BY <1>1, <2>1, <2>3, CalledSinceGrows
  <2>5. QED
    BY <1>2, <2>1, <2>4 DEF ForceInv, ForcedToolCalled, CalledSince
<1>6. CASE BeginTools
  <2>1. /\ history' = Append(history, m) /\ UNCHANGED historyLen
        /\ pc = "reporting" /\ pc' = "tools" /\ forcedCalled' = ForcedAfter(resp)
    BY <1>6 DEF BeginTools
  <2>2. CASE forcedCalled /\ ForceMode
    BY <1>1, <1>2, <2>1, <2>2, CalledSinceGrows DEF ForceInv, ForcedToolCalled
  <2>3. CASE ForceMode /\ CallsForced(resp)
    <3>1. CallsForced(m)
      BY <1>1, <2>3, ResponseCalls
    <3>2. /\ Len(history) \in Nat /\ Len(history') = Len(history) + 1
          /\ history'[Len(history) + 1] = m /\ historyLen < Len(history)
      BY <1>1, <2>1, AppendFacts DEF IInv
    <3>3. CalledSince(history', historyLen)
      BY <1>1, <3>1, <3>2 DEF CalledSince
    <3>4. QED
      BY <1>2, <2>1, <3>3 DEF ForceInv, ForcedToolCalled
  <2>4. CASE ~ForceMode \/ (~forcedCalled /\ ~CallsForced(resp))
    BY <1>2, <2>1, <2>4 DEF ForceInv, ForcedToolCalled, ForcedAfter
  <2>5. QED
    BY <2>2, <2>3, <2>4
<1>7. CASE AnswerMalformed \/ FinishTool
  <2>1. /\ history' = Append(history, ToolResultMessage(Current.id))
        /\ UNCHANGED <<historyLen, forcedCalled>>
        /\ pc # "idle" /\ pc' = "result"
    BY <1>7 DEF AnswerMalformed, FinishTool, AppendResult, WithResult
  <2>2. ToolResultMessage(Current.id) \in Message
    <3>1. history' \in Seq(Message)
      BY DEF IInv, TypeOK
    <3>2. /\ done + 1 \in 1..Len(resp.calls) /\ resp.calls \in Seq(ToolCall)
      <4>1. resp.calls \in Seq(ToolCall) /\ done \in Nat /\ done < Len(resp.calls)
        BY <1>7 DEF AnswerMalformed, FinishTool, IInv, TypeOK, Response
      <4>2. Len(resp.calls) \in Nat
        BY <4>1
      <4>3. QED
        BY <4>1, <4>2
    <3>3. Current \in ToolCall
      BY <3>2 DEF Current
    <3>4. Current.id \in CallIds
      BY <3>3 DEF ToolCall
    <3>5. QED
      BY <3>4, BuiltMessages
  <2>3. QED
    BY <1>1, <1>2, <2>1, <2>2, CalledSinceGrows DEF ForceInv, ForcedToolCalled
<1>8. CASE /\ pc # "idle" /\ pc' # "idle"
           /\ UNCHANGED <<history, historyLen, forcedCalled>>
  BY <1>2, <1>8 DEF ForceInv, ForcedToolCalled
<1>9. CASE UNCHANGED vars
  BY <1>2, <1>9 DEF vars, ForceInv, ForcedToolCalled
<1>10. CASE \E s \in Seeds : SeedHistory(s)
  BY <1>2, <1>10 DEF SeedHistory, ForceInv, ForcedToolCalled
<1>11. CASE RefuseTurn
  BY <1>2, <1>11 DEF RefuseTurn, ForceInv, ForcedToolCalled
<1>12. CASE StartTurn
  BY <1>2, <1>12 DEF StartTurn, ForceInv, ForcedToolCalled
<1>13. ASSUME Step
       PROVE  \/ \E failure \in Outcomes \ {"ok"} : Fail(failure)
              \/ EndWithText /\ ~(\E failure \in Outcomes \ {"ok"} : Fail(failure))
              \/ BeginTools \/ AnswerMalformed \/ FinishTool
              \/ /\ pc # "idle" /\ pc' # "idle"
                 /\ UNCHANGED <<history, historyLen, forcedCalled>>
  BY <1>13 DEF Step, GiveUp, SendRequest, CallFails, CallCompletes, ReportFails,
               StartTool, ToolCallEventFails, ResultEventAccepted,
               ResultEventFails, Outcomes
<1>14. QED
  BY <1>4, <1>5, <1>6, <1>7, <1>8, <1>9, <1>10, <1>11, <1>12, <1>13 DEF Next

\* A turn of force mode succeeds only after the forced tool was called in it.
THEOREM ForcedToolIsCalled == Spec => []ForcedToolCalled
<1>1. Spec => []IInv
  BY InitIInv, NextIInv, PTL DEF Spec
<1>2. Init => ForceInv
  BY DEF Init, ForceInv, ForcedToolCalled
<1>3. IInv /\ IInv' /\ ForceInv /\ [Next]_vars => ForceInv'
  BY NextForceInv
<1>4. ForceInv => ForcedToolCalled
  BY DEF ForceInv
<1>5. QED
  BY <1>1, <1>2, <1>3, <1>4, PTL DEF Spec

\* What a request says of the tool choice agrees with forcedCalled while it is out.
FreeInv == pc = "inflight" /\ ForceMode /\ sent = "none" => forcedCalled

LEMMA NextFreeInv ==
  ASSUME FreeInv, [Next]_vars
  PROVE  FreeInv'
<1>1. CASE SendRequest
  BY <1>1 DEF SendRequest, FreeInv, ForceMode
<1>2. CASE UNCHANGED vars
  BY <1>2 DEF vars, FreeInv, ForceMode
<1>3. CASE Next /\ ~SendRequest
  <2>1. pc' # "inflight"
    <3>1. CASE Step
      BY <1>3, <3>1 DEF Step, GiveUp, CallFails, CallCompletes, ReportFails, EndWithText,
                 BeginTools, AnswerMalformed, StartTool, ToolCallEventFails, FinishTool,
                 AppendResult, ResultEventAccepted, ResultEventFails, Fail
    <3>2. CASE ~Step
      BY <1>3, <3>2 DEF Next, SeedHistory, RefuseTurn, StartTurn
    <3>3. QED
      BY <3>1, <3>2
  <2>2. QED
    BY <2>1 DEF FreeInv
<1>4. QED
  BY <1>1, <1>2, <1>3

\* In force mode a request without a tool choice follows a call of the forced tool.
THEOREM FreeRequestsFollowTheCall == Spec => []FreeOnlyAfterForcedCall
<1>1. Spec => []IInv
  BY InitIInv, NextIInv, PTL DEF Spec
<1>2. Init => ForceInv /\ FreeInv
  BY DEF Init, ForceInv, ForcedToolCalled, FreeInv
<1>3. IInv /\ IInv' /\ ForceInv /\ FreeInv /\ [Next]_vars => ForceInv' /\ FreeInv'
  BY NextForceInv, NextFreeInv
<1>4. ForceInv /\ FreeInv => FreeOnlyAfterForcedCall
  BY DEF ForceInv, FreeInv, FreeOnlyAfterForcedCall, CalledSince
<1>5. QED
  BY <1>1, <1>2, <1>3, <1>4, PTL DEF Spec
-----------------------------------------------------------------------------
(***************************************************************************)
(* The text of a turn.                                                      *)
(***************************************************************************)
Speaks(m) == m.role = "assistant" /\ m.text
TextsSince(h, n) == {i \in (n + 1)..Len(h) : Speaks(h[i])}

\* What the turn collected so far is what its messages in the history say.
TextInv ==
  /\ pc # "idle" => text = Cardinality(TextsSince(history, historyLen))
  /\ FinalTextComplete

\* One message more is at most one fragment more.
LEMMA TextsGrow ==
  ASSUME NEW h \in Seq(Message), NEW m \in Message, NEW n \in Nat, n <= Len(h)
  PROVE  /\ Speaks(m) => Cardinality(TextsSince(Append(h, m), n))
                         = Cardinality(TextsSince(h, n)) + 1
         /\ ~Speaks(m) => TextsSince(Append(h, m), n) = TextsSince(h, n)
<1> DEFINE g == Append(h, m)
           last == Len(h) + 1
<1>1. /\ Len(h) \in Nat /\ Len(g) = last /\ g[last] = m
      /\ \A i \in 1..Len(h) : g[i] = h[i]
  BY AppendFacts
<1> HIDE DEF g
<1>2. /\ \A i \in (n + 1)..Len(g) : i = last \/ i \in (n + 1)..Len(h)
      /\ \A i \in (n + 1)..Len(h) : i \in (n + 1)..Len(g) /\ g[i] = h[i] /\ i # last
      /\ last \in (n + 1)..Len(g)
  BY <1>1
<1> HIDE DEF last
<1>3. Speaks(m) => TextsSince(g, n) = TextsSince(h, n) \cup {last}
  BY <1>1, <1>2 DEF TextsSince
<1>4. ~Speaks(m) => TextsSince(g, n) = TextsSince(h, n)
  BY <1>1, <1>2 DEF TextsSince
<1>5. last \notin TextsSince(h, n)
  BY <1>2 DEF TextsSince
<1>6. IsFiniteSet(TextsSince(h, n))
  <2>1. IsFiniteSet((n + 1)..Len(h))
    BY <1>1, FS_Interval
  <2>2. TextsSince(h, n) \subseteq (n + 1)..Len(h)
    BY DEF TextsSince
  <2>3. QED
    BY <2>1, <2>2, FS_Subset
<1>7. Cardinality(TextsSince(h, n) \cup {last}) = Cardinality(TextsSince(h, n)) + 1
  BY <1>5, <1>6, FS_AddElement
<1>8. QED
  BY <1>3, <1>4, <1>7 DEF g

\* An assistant message says the text of its response.
LEMMA ResponseSpeaks ==
  ASSUME NEW r \in Response, NEW n \in Nat
  PROVE  n + Fragments(r) = IF Speaks(AssistantMessage(r)) THEN n + 1 ELSE n
BY DEF Fragments, Speaks, AssistantMessage, Response

LEMMA NextTextInv ==
  ASSUME IInv, IInv', TextInv, [Next]_vars
  PROVE  TextInv'
<1> DEFINE m == AssistantMessage(resp)
<1>1. /\ history \in Seq(Message) /\ historyLen \in Nat /\ resp \in Response
      /\ text \in Nat /\ m \in Message
      /\ pc # "idle" => historyLen <= Len(history)
  BY BuiltMessages DEF IInv, TypeOK
<1>2. ASSUME NEW x, x = text + Fragments(resp), pc # "idle", UNCHANGED historyLen,
             history' = Append(history, m)
      PROVE  x = Cardinality(TextsSince(history', historyLen'))
  <2>1. text = Cardinality(TextsSince(history, historyLen)) /\ historyLen <= Len(history)
    BY <1>1, <1>2 DEF TextInv
  <2>2. x = IF Speaks(m) THEN text + 1 ELSE text
    BY <1>1, <1>2, ResponseSpeaks
  <2>3. /\ Speaks(m) => Cardinality(TextsSince(Append(history, m), historyLen)) = text + 1
        /\ ~Speaks(m) => Cardinality(TextsSince(Append(history, m), historyLen)) = text
    <3> HIDE DEF m
    <3> QED BY <1>1, <2>1, TextsGrow
  <2>4. QED
    BY <1>2, <2>2, <2>3
<1>4. CASE \E failure \in Outcomes \ {"ok"} : Fail(failure)
  BY <1>4 DEF Fail, TextInv, FinalTextComplete
<1>5. CASE EndWithText /\ ~(\E failure \in Outcomes \ {"ok"} : Fail(failure))
  <2>1. /\ pc = "reporting" /\ pc' = "idle" /\ final' = text + Fragments(resp)
        /\ history' = Append(history, m) /\ UNCHANGED historyLen
    BY <1>5 DEF EndWithText, Outcomes
  <2>2. final' = Cardinality(TextsSince(history', historyLen'))
    BY <1>2, <2>1
  <2>3. QED
    BY <2>1, <2>2 DEF TextInv, FinalTextComplete, TextsSince, Speaks
<1>6. CASE BeginTools
  <2>1. /\ pc = "reporting" /\ pc' = "tools" /\ text' = text + Fragments(resp)
        /\ history' = Append(history, m) /\ UNCHANGED historyLen
    BY <1>6 DEF BeginTools, Collected
  <2>2. text' = Cardinality(TextsSince(history', historyLen'))
    BY <1>2, <2>1
  <2>3. QED
    BY <2>1, <2>2 DEF TextInv, FinalTextComplete
<1>7. CASE AnswerMalformed \/ FinishTool
  <2>1. /\ history' = Append(history, ToolResultMessage(Current.id))
        /\ UNCHANGED <<historyLen, text>> /\ pc # "idle" /\ pc' = "result"
    BY <1>7 DEF AnswerMalformed, FinishTool, AppendResult, WithResult
  <2>2. ToolResultMessage(Current.id) \in Message
    <3>1. resp.calls \in Seq(ToolCall) /\ done \in Nat /\ done < Len(resp.calls)
      BY <1>7 DEF AnswerMalformed, FinishTool, IInv, TypeOK, Response
    <3>2. Len(resp.calls) \in Nat
      BY <3>1
    <3>3. done + 1 \in 1..Len(resp.calls)
      BY <3>1, <3>2
    <3>4. Current \in ToolCall
      BY <3>1, <3>3 DEF Current
    <3>5. QED
      BY <3>4, BuiltMessages DEF ToolCall
  <2>3. ~Speaks(ToolResultMessage(Current.id))
    BY ToolResultFields DEF Speaks
  <2>4. TextsSince(history', historyLen) = TextsSince(history, historyLen)
    BY <1>1, <2>1, <2>2, <2>3, TextsGrow
  <2>5. QED
    BY <2>1, <2>4 DEF TextInv, FinalTextComplete
<1>8. CASE pc # "idle" /\ pc' # "idle" /\ UNCHANGED <<history, historyLen, text>>
  BY <1>8 DEF TextInv, FinalTextComplete
<1>9. CASE UNCHANGED vars
  BY <1>9 DEF vars, TextInv, FinalTextComplete
<1>10. CASE \E s \in Seeds : SeedHistory(s)
  BY <1>10 DEF SeedHistory, TextInv, FinalTextComplete
<1>11. CASE RefuseTurn
  BY <1>11 DEF RefuseTurn, TextInv, FinalTextComplete
<1>12. CASE StartTurn
  <2>1. /\ history' = Append(history, UserMessage) /\ historyLen' = Len(history)
        /\ text' = 0 /\ pc' = "call"
    BY <1>12 DEF StartTurn
  <2>2. /\ UserMessage \in Message /\ ~Speaks(UserMessage)
        /\ Len(history) \in Nat /\ Len(history) <= Len(history)
    BY <1>1, BuiltMessages DEF UserMessage, Speaks
  <2>3. TextsSince(history', historyLen') = TextsSince(history, Len(history))
    BY <1>1, <2>1, <2>2, TextsGrow
  <2>4. TextsSince(history, Len(history)) = {}
    BY <2>2 DEF TextsSince
  <2>5. QED
    BY <2>1, <2>3, <2>4, FS_EmptySet DEF TextInv, FinalTextComplete
<1>13. ASSUME Step
       PROVE  \/ \E failure \in Outcomes \ {"ok"} : Fail(failure)
              \/ EndWithText /\ ~(\E failure \in Outcomes \ {"ok"} : Fail(failure))
              \/ BeginTools \/ AnswerMalformed \/ FinishTool
              \/ pc # "idle" /\ pc' # "idle" /\ UNCHANGED <<history, historyLen, text>>
  BY <1>13 DEF Step, GiveUp, SendRequest, CallFails, CallCompletes, ReportFails,
               StartTool, ToolCallEventFails, ResultEventAccepted,
               ResultEventFails, Outcomes
<1>14. QED
  BY <1>4, <1>5, <1>6, <1>7, <1>8, <1>9, <1>10, <1>11, <1>12, <1>13 DEF Next

\* A turn that succeeds returns all text of its assistant messages, those beside tool
\* calls included (engine.go RunTurn).
THEOREM FinalTextIsComplete == Spec => []FinalTextComplete
<1>1. Spec => []IInv
  BY InitIInv, NextIInv, PTL DEF Spec
<1>2. Init => TextInv
  BY DEF Init, TextInv, FinalTextComplete
<1>3. IInv /\ IInv' /\ TextInv /\ [Next]_vars => TextInv'
  BY NextTextInv
<1>4. TextInv => FinalTextComplete
  BY DEF TextInv
<1>5. QED
  BY <1>1, <1>2, <1>3, <1>4, PTL DEF Spec
-----------------------------------------------------------------------------
(***************************************************************************)
(* Engine implements Conversation.                                          *)
(***************************************************************************)
\* What SubSeq returns of a tail.
LEMMA TailFacts ==
  ASSUME NEW S, NEW h \in Seq(S), NEW n \in 0..Len(h)
  PROVE  /\ SubSeq(h, n + 1, Len(h)) \in Seq(S)
         /\ Len(h) \in Nat
         /\ Len(SubSeq(h, n + 1, Len(h))) = Len(h) - n
         /\ \A i \in 1..(Len(h) - n) : SubSeq(h, n + 1, Len(h))[i] = h[n + i]
OBVIOUS

\* What follows a well-formed prefix is well formed by itself.
LEMMA SuffixWellFormed ==
  ASSUME NEW h \in Seq(Message), NEW n \in 0..Len(h),
         WellFormed(h), WellFormedTo(h, n)
  PROVE  WellFormed(SubSeq(h, n + 1, Len(h)))
<1> DEFINE t == SubSeq(h, n + 1, Len(h))
<1>1. /\ t \in Seq(Message) /\ Len(h) \in Nat /\ Len(t) = Len(h) - n
      /\ \A i \in 1..Len(t) : t[i] = h[n + i]
  BY TailFacts
<1> HIDE DEF t
<1> SUFFICES ASSUME NEW i \in 1..Len(t)
             PROVE  AnsweredAt(t, i, Len(t)) /\ OwnedAt(t, i)
  BY DEF WellFormed, WellFormedTo, t
<1>2. /\ n + i \in 1..Len(h) /\ t[i] = h[n + i]
      /\ AnsweredAt(h, n + i, Len(h)) /\ OwnedAt(h, n + i)
  BY <1>1 DEF WellFormed, WellFormedTo
<1>3. Len(t[i].calls) \in Nat
  BY <1>1, MessageCalls
<1>4. AnsweredAt(t, i, Len(t))
  <2>1. n + i + Len(t[i].calls) <= Len(h)
    BY <1>2 DEF AnsweredAt
  <2>2. i + Len(t[i].calls) <= Len(t)
    <3> DEFINE c == Len(t[i].calls)
    <3>1. n \in Nat /\ Len(h) \in Nat /\ Len(t) = Len(h) - n
      BY <1>1
    <3>2. i \in Nat
      BY <3>1
    <3>3. c \in Nat
      BY <1>3
    <3>4. n + i + c <= Len(h)
      BY <2>1
    <3> HIDE DEF c
    <3>5. i + c <= Len(t)
      BY <3>1, <3>2, <3>3, <3>4
    <3>6. QED
      BY <3>5 DEF c
  <2>3. ASSUME NEW k \in 1..Len(t[i].calls)
        PROVE  t[i + k] = ToolResultMessage(t[i].calls[k].id)
    <3>1. h[n + i + k] = ToolResultMessage(t[i].calls[k].id)
      BY <1>2, <2>3 DEF AnsweredAt
    <3>2. i + k \in 1..Len(t) /\ n + (i + k) = n + i + k
      BY <1>1, <1>3, <2>2
    <3>3. QED
      BY <1>1, <3>1, <3>2
  <2>4. QED
    BY <2>2, <2>3 DEF AnsweredAt
<1>5. OwnedAt(t, i)
  <2> SUFFICES ASSUME t[i].role = "tool"
               PROVE  \E j \in 1..(i - 1) : i <= j + Len(t[j].calls)
    BY DEF OwnedAt
  <2>1. PICK o \in 1..(n + i - 1) : n + i <= o + Len(h[o].calls)
    BY <1>2 DEF OwnedAt
  <2>2. o \in 1..Len(h) /\ Len(h[o].calls) \in Nat
    <3>1. o \in 1..Len(h)
      BY <1>1, <1>2
    <3>2. QED
      BY <3>1, MessageCalls
  <2>3. o > n
    <3>1. CASE o <= n
      <4>1. o + Len(h[o].calls) <= n
        BY <2>2, <3>1 DEF WellFormedTo, AnsweredAt
      <4>2. QED
        BY <2>1, <2>2, <4>1
    <3>2. QED
      BY <2>2, <3>1
  <2>4. o - n \in 1..(i - 1) /\ n + (o - n) = o /\ o - n \in 1..Len(t)
    BY <1>1, <2>2, <2>3
  <2>5. i <= (o - n) + Len(t[o - n].calls)
    <3> DEFINE c == Len(h[o].calls)
    <3>1. t[o - n] = h[o]
      BY <1>1, <2>4
    <3>2. c \in Nat /\ o \in Nat /\ n + i <= o + c
      BY <2>1, <2>2
    <3>3. n \in Nat /\ i \in Nat
      OBVIOUS
    <3> HIDE DEF c
    <3>4. i <= (o - n) + c
      BY <3>2, <3>3
    <3>5. QED
      BY <3>1, <3>4 DEF c
  <2>6. QED
    BY <2>4, <2>5
<1>6. QED
  BY <1>4, <1>5

\* Both modules mean the same by a well-formed conversation.
LEMMA SameWellFormed ==
  ASSUME NEW h
  PROVE  Promise!WellFormed(h) <=> WellFormed(h)
BY DEF Promise!WellFormed, Promise!WellFormedTo, Promise!AnsweredAt, Promise!OwnedAt,
       Promise!ToolResultMessage, WellFormed, WellFormedTo, AnsweredAt, OwnedAt,
       ToolResultMessage

\* The answer commits one complete exchange.
LEMMA AnswerCommits ==
  ASSUME IInv, IInv', pc = "reporting", resp.calls = <<>>, pc' = "idle",
         history' = Append(history, AssistantMessage(resp)),
         UNCHANGED historyLen
  PROVE  Promise!Commit
<1> DEFINE m == AssistantMessage(resp)
           t == SubSeq(history', historyLen + 1, Len(history'))
<1>1. /\ history \in Seq(Message) /\ history' \in Seq(Message)
      /\ historyLen \in Nat /\ historyLen < Len(history) /\ m \in Message
      /\ m.role = "assistant" /\ m.calls = <<>>
      /\ history[historyLen + 1] = UserMessage
      /\ WellFormedTo(history, historyLen) /\ WellFormed(history')
      /\ \A i \in (historyLen + 2)..Len(history) : history[i].role # "user"
  BY BuiltMessages DEF IInv, TypeOK, AssistantMessage
<1> HIDE DEF m
<1>2. /\ Len(history) \in Nat /\ Len(history') = Len(history) + 1
      /\ history'[Len(history) + 1] = m
      /\ \A i \in 1..Len(history) : history'[i] = history[i]
  BY <1>1, AppendFacts DEF m
<1>3. /\ Visible = SubSeq(history, 1, historyLen) /\ Visible' = history'
      /\ Len(Visible) = historyLen
  BY <1>1, <1>2 DEF Visible
<1>4. Promise!IsPrefix(Visible, Visible')
  <2>1. Len(Visible) <= Len(history')
    BY <1>1, <1>2, <1>3
  <2>2. SubSeq(Visible, 1, historyLen) = SubSeq(history', 1, historyLen)
    BY <1>1, <1>2, <1>3
  <2>3. QED
    BY <1>3, <2>1, <2>2 DEF Promise!IsPrefix
<1>5. /\ t \in Seq(Message) /\ Len(t) = Len(history) + 1 - historyLen
      /\ Len(t) \in Nat
      /\ \A i \in 1..Len(t) : t[i] = history'[historyLen + i]
  <2>1. historyLen \in 0..Len(history')
    BY <1>1, <1>2
  <2>2. /\ t \in Seq(Message) /\ Len(t) = Len(history') - historyLen
        /\ \A i \in 1..(Len(history') - historyLen) : t[i] = history'[historyLen + i]
    BY <1>1, <2>1, TailFacts
  <2> HIDE DEF t
  <2>3. Len(t) = Len(history) + 1 - historyLen /\ Len(t) \in Nat
    BY <1>1, <1>2, <2>2
  <2>4. QED
    BY <2>2, <2>3
<1>6. WellFormed(t)
  <2>1. WellFormedTo(history', historyLen)
    <3>1. /\ historyLen <= Len(history) /\ historyLen <= Len(history')
          /\ \A i \in 1..historyLen : history[i] = history'[i]
      BY <1>1, <1>2
    <3>2. QED
      BY <1>1, <3>1, SamePrefix
  <2>2. historyLen \in 0..Len(history')
    BY <1>1, <1>2
  <2>3. QED
    BY <1>1, <2>1, <2>2, SuffixWellFormed
<1> HIDE DEF t
<1>7. Len(t) >= 2 /\ t[1] = UserMessage /\ t[Len(t)] = m
  BY <1>1, <1>2, <1>5, SMTT(30)
<1>8. \A i \in 2..Len(t) : t[i].role # "user"
  <2> SUFFICES ASSUME NEW i \in 2..Len(t)
               PROVE  t[i].role # "user"
    OBVIOUS
  <2>1. i \in 1..Len(t) /\ t[i] = history'[historyLen + i]
    <3>1. i \in 1..Len(t)
      BY <1>5
    <3>2. QED
      BY <1>5, <3>1
  <2>2. CASE historyLen + i \in (historyLen + 2)..Len(history)
    BY <1>1, <1>2, <2>1, <2>2
  <2>3. CASE historyLen + i = Len(history) + 1
    BY <1>1, <1>2, <2>1, <2>3
  <2>4. /\ historyLen + i \in (historyLen + 2)..(Len(history) + 1)
        /\ historyLen + i \in Nat
    BY <1>1, <1>2, <1>5
  <2>5. QED
    BY <1>2, <2>2, <2>3, <2>4
<1>9. t[1].role = "user"
  BY <1>7 DEF UserMessage
<1>10. Promise!CompleteExchange(t)
  BY <1>1, <1>6, <1>7, <1>8, <1>9, SameWellFormed DEF Promise!CompleteExchange
<1>11. QED
  BY <1>3, <1>4, <1>10 DEF Promise!Commit, Phase, t

\* Inside a turn the frontends see the history the turn started from.
LEMMA SameVisible ==
  ASSUME IInv, IInv', pc # "idle", pc' # "idle", UNCHANGED historyLen,
         UNCHANGED history \/ \E m \in Message : history' = Append(history, m)
  PROVE  UNCHANGED Promise!convars
<1>1. /\ history \in Seq(Message) /\ history' \in Seq(Message)
      /\ historyLen \in Nat /\ historyLen < Len(history)
  BY DEF IInv, TypeOK
<1>2. \A i \in 1..historyLen : history'[i] = history[i]
  BY <1>1, AppendFacts
<1>3. historyLen <= Len(history')
  BY <1>1, AppendFacts
<1>4. SubSeq(history', 1, historyLen) = SubSeq(history, 1, historyLen)
  BY <1>1, <1>2, <1>3
<1>5. QED
  BY <1>4 DEF Promise!convars, Visible, Phase

LEMMA NextRefines ==
  ASSUME IInv, IInv', [Next]_vars
  PROVE  [Promise!Next]_(Promise!convars)
<1>1. CASE \E s \in Seeds : SeedHistory(s)
  <2>1. PICK s \in Seeds : SeedHistory(s)
    BY <1>1
  <2>2. /\ Visible' = s /\ Phase' = Phase /\ Phase = "idle"
        /\ s \in Seq(Message) /\ TextOnly(s)
    BY <2>1, EngineAssumption DEF SeedHistory, Visible, Phase
  <2>3. \A i \in DOMAIN s : s[i].role # "tool" /\ s[i].calls = <<>>
    BY <2>2 DEF TextOnly
  <2>4. Promise!Resume
    BY <2>2, <2>3 DEF Promise!Resume
  <2>5. QED
    BY <2>4 DEF Promise!Next
<1>2. CASE RefuseTurn
  BY <1>2 DEF RefuseTurn, Promise!convars, Visible, Phase
<1>3. CASE StartTurn
  <2>1. /\ history \in Seq(Message) /\ UserMessage \in Message
        /\ history' = Append(history, UserMessage)
        /\ historyLen' = Len(history) /\ pc = "idle" /\ pc' = "call"
    BY <1>3, BuiltMessages DEF StartTurn, IInv, TypeOK
  <2>2. SubSeq(history', 1, Len(history)) = history
    BY <2>1
  <2>3. Promise!Begin
    BY <2>1, <2>2 DEF Promise!Begin, Visible, Phase
  <2>4. QED
    BY <2>3 DEF Promise!Next
<1>4. CASE pc # "idle" /\ \E failure \in Outcomes : Fail(failure)
  <2>1. /\ history' = SubSeq(history, 1, historyLen)
        /\ pc' = "idle" /\ pc # "idle"
    BY <1>4, FailIInv DEF Fail
  <2>2. Promise!Abort
    BY <2>1 DEF Promise!Abort, Visible, Phase
  <2>3. QED
    BY <2>2 DEF Promise!Next
<1>5. CASE EndWithText /\ ~(\E failure \in Outcomes : Fail(failure))
  <2>1. /\ pc = "reporting" /\ resp.calls = <<>> /\ pc' = "idle"
        /\ history' = Append(history, AssistantMessage(resp))
        /\ UNCHANGED historyLen
    BY <1>5 DEF EndWithText, Outcomes
  <2>2. Promise!Commit
    BY <2>1, AnswerCommits
  <2>3. QED
    BY <2>2 DEF Promise!Next
<1>6. CASE /\ pc # "idle" /\ pc' # "idle" /\ UNCHANGED historyLen
           /\ UNCHANGED history \/ \E m \in Message : history' = Append(history, m)
  BY <1>6, SameVisible
<1>7. CASE UNCHANGED vars
  BY <1>7 DEF vars, Promise!convars, Visible, Phase
<1>8. ASSUME BeginTools
      PROVE  /\ pc # "idle" /\ pc' # "idle" /\ UNCHANGED historyLen
             /\ \E m \in Message : history' = Append(history, m)
  <2>1. AssistantMessage(resp) \in Message
    BY BuiltMessages DEF IInv, TypeOK
  <2>2. QED
    BY <1>8, <2>1 DEF BeginTools
<1>9. ASSUME AnswerMalformed \/ FinishTool
      PROVE  /\ pc # "idle" /\ pc' # "idle" /\ UNCHANGED historyLen
             /\ \E m \in Message : history' = Append(history, m)
  <2>1. /\ resp.calls \in Seq(ToolCall) /\ done \in Nat /\ done < Len(resp.calls)
    BY <1>9 DEF AnswerMalformed, FinishTool, IInv, TypeOK, Response
  <2>2. Len(resp.calls) \in Nat
    BY <2>1
  <2>3. done + 1 \in 1..Len(resp.calls)
    BY <2>1, <2>2
  <2>4. Current \in ToolCall
    BY <2>1, <2>3 DEF Current
  <2>5. ToolResultMessage(Current.id) \in Message
    BY <2>4, BuiltMessages DEF ToolCall
  <2>6. QED
    BY <1>9, <2>5 DEF AnswerMalformed, FinishTool, AppendResult, WithResult
<1>10. ASSUME Step
       PROVE  \/ pc # "idle" /\ \E failure \in Outcomes : Fail(failure)
              \/ EndWithText /\ ~(\E failure \in Outcomes : Fail(failure))
              \/ BeginTools \/ AnswerMalformed \/ FinishTool
              \/ /\ pc # "idle" /\ pc' # "idle"
                 /\ UNCHANGED <<history, historyLen>>
  <2>1. ASSUME EndWithText
        PROVE  pc # "idle"
    BY <2>1 DEF EndWithText
  <2>2. QED
    BY <1>10, <2>1
       DEF Step, GiveUp, SendRequest, CallFails, CallCompletes, ReportFails,
           StartTool, ToolCallEventFails, ResultEventAccepted,
           ResultEventFails, Outcomes
<1>11. QED
  BY <1>1, <1>2, <1>3, <1>4, <1>5, <1>6, <1>7, <1>8, <1>9, <1>10 DEF Next

\* For every configuration, provider and frontend: a turn appends one complete
\* exchange to the conversation or, however it fails, leaves no trace of itself.
THEOREM TurnsAreAtomic == Spec => TurnAtomic
<1>1. Spec => []IInv
  BY InitIInv, NextIInv, PTL DEF Spec
<1>2. Init => Promise!Init
  BY DEF Init, Promise!Init, Visible, Phase
<1>3. IInv /\ IInv' /\ [Next]_vars => [Promise!Next]_(Promise!convars)
  BY NextRefines
<1>4. QED
  BY <1>1, <1>2, <1>3, PTL DEF Spec, TurnAtomic, Promise!Spec

-----------------------------------------------------------------------------
(***************************************************************************)
(* Streams: how one answer is read, for every set of chunks, every way they *)
(* are cut into a body and every limit.  A stream is followed with what its *)
(* chunks mean: the accumulator holds, per index, the call the fragments    *)
(* for it make together.                                                    *)
(***************************************************************************)
\* The fragments and chunks of either client.
AnyFrag == Frag(Int \cup {NoIndex})
AnyChunk == Chunk(Int \cup {NoIndex})
Delta == [index : Int, frag : AnyFrag]
\* The provers take the empty string for no element of STRING.
Text == STRING \cup {""}
Call == [id : Text, name : Text, args : Seq(STRING)]
CallMaps == UNION {[D -> Call] : D \in SUBSET Int}

\* The accumulators that differ from a in their calls only.
Like(a) ==
  [reasoning : {a.reasoning}, content : {a.content}, calls : CallMaps, order : Seq(Int),
   finish : {a.finish}, usage : {a.usage}]

\* The indices fragments are for.
Indices(deltas) == {deltas[k].index : k \in DOMAIN deltas}

\* The accumulator holds what these deltas mean.
Accumulates(deltas, a) ==
  /\ a.order = Began(deltas)
  /\ DOMAIN a.calls = Indices(deltas) /\ ToSet(a.order) = Indices(deltas)
  /\ \A idx \in Indices(deltas) : a.calls[idx] = CallFrom(DeltasOf(deltas, idx))
  /\ \A idx \in Int \ Indices(deltas) : DeltasOf(deltas, idx) = <<>>

\* StreamAssembled of a body and what came of it.
Assembled(bs, st, wh, res) ==
  /\ st = "returned" =>
       /\ res.reasoning = Reasoning(bs) /\ res.content = Content(bs)
       /\ res.calls = CallsMeant(bs)
       /\ bs # <<>> /\ ~Refused(CallsMeant(bs)) /\ (streams => ~TooLong(res))
  /\ st = "failed" =>
       \/ wh = "infra"
       \/ wh = "empty" /\ bs = <<>>
       \/ wh = "refused" /\ Refused(CallsMeant(bs))
       \/ /\ wh = "long"
          /\ \/ Len(Reasoning(bs)) > MaxLen \/ Len(Content(bs)) > MaxLen
             \/ \E i \in DOMAIN CallsMeant(bs) : Len(CallsMeant(bs)[i].args) > MaxLen

\* The accumulator holds what the chunks mean.
FoldedInto(bs, a) ==
  /\ a.reasoning = Reasoning(bs) /\ a.content = Content(bs)
  /\ Accumulates(Deltas(bs), a)

\* What holds of a body, the accumulator and what came of the answer: while a stream is
\* read, everything read is folded and within the limits.
Sound(bs, a, st, wh, res) ==
  /\ bs \in Seq(AnyChunk) /\ a \in Like(a)
  /\ Assembled(bs, st, wh, res)
  /\ streams => FoldedInto(bs, a)
  /\ streams /\ st \in {"post", "read", "respond"} => ~TooLong(a)
  /\ st = "respond" => bs # <<>> /\ streams

AnswerInv ==
  /\ wire \in DOMAIN Chunks /\ streams \in BOOLEAN
  /\ Sound(body, acc, stage, why, response)

\* A step leaves the client and its mode alone, and what it makes of the rest is sound.
After ==
  /\ wire' = wire /\ streams' = streams
  /\ Sound(body', acc', stage', why', response')

-----------------------------------------------------------------------------
\* One delta more belongs to its index.
LEMMA DeltasOfAppend ==
  ASSUME NEW ds \in Seq(Delta), NEW d \in Delta, NEW idx
  PROVE  /\ DeltasOf(ds, idx) \in Seq(AnyFrag)
         /\ DeltasOf(Append(ds, d), idx) =
              IF d.index = idx THEN Append(DeltasOf(ds, idx), d.frag) ELSE DeltasOf(ds, idx)
<1> DEFINE own(x) == IF x.index = idx THEN <<x.frag>> ELSE <<>>
           ss == [k \in DOMAIN ds |-> own(ds[k])]
           es == Append(ds, d)
           tt == [k \in DOMAIN es |-> own(es[k])]
<1>1. \A x \in Delta : own(x) \in Seq(AnyFrag)
  BY DEF Delta
<1>2. DeltasOf(ds, idx) = FlattenSeq(ss) /\ DeltasOf(es, idx) = FlattenSeq(tt)
  BY DEF DeltasOf
<1>3. /\ DOMAIN ds = 1 .. Len(ds) /\ Len(ds) \in Nat /\ DOMAIN es = 1 .. Len(ds) + 1
      /\ \A k \in 1 .. Len(ds) : es[k] = ds[k] /\ k \in 1 .. Len(ds) + 1 /\ ds[k] \in Delta
      /\ es[Len(ds) + 1] = d /\ Len(ds) + 1 \in 1 .. Len(ds) + 1
  <2>1. \A k \in DOMAIN ds : ds[k] \in Delta
    OBVIOUS
  <2> QED BY <2>1, Appended
<1> HIDE DEF es, own
<1>4. ss \in Seq(Seq(AnyFrag)) /\ Len(ss) = Len(ds)
  BY <1>1, <1>3
<1>5. /\ tt = [i \in 1 .. Len(ss) + 1 |-> tt[i]] /\ tt[Len(ss) + 1] = own(d)
      /\ \A i \in 1 .. Len(ss) : tt[i] = ss[i]
  BY <1>3, <1>4
<1> HIDE DEF ss, tt
<1>6. FlattenSeq(tt) = FlattenSeq(ss) \o own(d) /\ FlattenSeq(ss) \in Seq(AnyFrag)
  <2>1. tt[Len(ss) + 1] \in Seq(AnyFrag)
    BY <1>1, <1>5
  <2>2. FlattenSeq(tt) = FlattenSeq(ss) \o tt[Len(ss) + 1] /\ FlattenSeq(ss) \in Seq(AnyFrag)
    BY <1>4, <1>5, <2>1, FlattenGrows
  <2> QED BY <1>5, <2>2
<1>7. PICK s \in Seq(AnyFrag) : s = FlattenSeq(ss)
  BY <1>6
<1>8. s \o own(d) = IF d.index = idx THEN Append(s, d.frag) ELSE s
  <2>1. d.frag \in AnyFrag
    BY DEF Delta
  <2> QED BY <2>1 DEF own
<1> QED BY <1>2, <1>6, <1>7, <1>8 DEF es

\* One delta more begins a call when its index is new.
LEMMA BeganAppend ==
  ASSUME NEW ds \in Seq(Delta), NEW d \in Delta
  PROVE  /\ Began(ds) \in Seq(Int)
         /\ Began(Append(ds, d)) = IF d.index \in Indices(ds) THEN Began(ds)
                                   ELSE Append(Began(ds), d.index)
         /\ Indices(Append(ds, d)) = Indices(ds) \cup {d.index} /\ Indices(ds) \subseteq Int
<1> DEFINE new(xs, k) == \A j \in 1 .. (k - 1) : xs[j].index # xs[k].index
           own(xs, k) == IF new(xs, k) THEN <<xs[k].index>> ELSE <<>>
           ss == [k \in DOMAIN ds |-> own(ds, k)]
           es == Append(ds, d)
           tt == [k \in DOMAIN es |-> own(es, k)]
<1>2. Began(ds) = FlattenSeq(ss) /\ Began(es) = FlattenSeq(tt)
  BY DEF Began
<1>3. /\ DOMAIN ds = 1 .. Len(ds) /\ Len(ds) \in Nat /\ DOMAIN es = 1 .. Len(ds) + 1
      /\ \A k \in 1 .. Len(ds) : es[k] = ds[k] /\ k \in 1 .. Len(ds) + 1 /\ ds[k].index \in Int
      /\ es[Len(ds) + 1] = d /\ Len(ds) + 1 \in 1 .. Len(ds) + 1 /\ d.index \in Int
      /\ \A k \in 1 .. Len(ds) + 1 : k \in 1 .. Len(ds) \/ k = Len(ds) + 1
  <2>1. \A k \in DOMAIN ds : ds[k].index \in Int
    <3>1. \A k \in DOMAIN ds : ds[k] \in Delta
      OBVIOUS
    <3> QED BY <3>1 DEF Delta
  <2>2. d.index \in Int
    BY DEF Delta
  <2> QED BY <2>1, <2>2, Appended
<1> HIDE DEF es
<1>4. ss \in Seq(Seq(Int)) /\ Len(ss) = Len(ds)
  BY <1>3
<1>5. /\ \A k \in 1 .. Len(ds) : own(es, k) = own(ds, k)
      /\ own(es, Len(ds) + 1) = IF d.index \in Indices(ds) THEN <<>> ELSE <<d.index>>
  <2>1. ASSUME NEW k \in 1 .. Len(ds) PROVE own(es, k) = own(ds, k)
    <3>1. \A j \in 1 .. (k - 1) : j \in 1 .. Len(ds)
      BY <1>3
    <3> QED BY <1>3, <3>1
  <2>2. new(es, Len(ds) + 1) <=> d.index \notin Indices(ds)
    BY <1>3 DEF Indices
  <2> QED BY <1>3, <2>1, <2>2
<1> HIDE DEF own
<1>6. /\ tt = [i \in 1 .. Len(ss) + 1 |-> tt[i]]
      /\ \A i \in 1 .. Len(ss) : tt[i] = ss[i]
      /\ tt[Len(ss) + 1] = IF d.index \in Indices(ds) THEN <<>> ELSE <<d.index>>
  BY <1>3, <1>4, <1>5
<1>7. PICK e \in Seq(Int) : e = tt[Len(ss) + 1]
  <2>1. <<>> \in Seq(Int) /\ <<d.index>> \in Seq(Int)
    BY <1>3
  <2> QED BY <1>6, <2>1, Zenon
<1>8. Indices(es) = Indices(ds) \cup {d.index} /\ Indices(ds) \subseteq Int
  BY <1>3 DEF Indices
<1> HIDE DEF ss, tt
<1>9. FlattenSeq(tt) = FlattenSeq(ss) \o tt[Len(ss) + 1] /\ FlattenSeq(ss) \in Seq(Int)
  BY <1>4, <1>6, <1>7, FlattenGrows
<1>10. PICK s \in Seq(Int) : s = FlattenSeq(ss)
  BY <1>9
<1>11. s \o e = IF d.index \in Indices(ds) THEN s ELSE Append(s, d.index)
  <2>1. CASE d.index \in Indices(ds)
    BY <1>6, <1>7, <2>1
  <2>2. CASE d.index \notin Indices(ds)
    <3>1. e = <<d.index>>
      BY <1>6, <1>7, <2>2
    <3>2. s \o <<d.index>> = Append(s, d.index)
      BY <1>3
    <3> QED BY <2>2, <3>1, <3>2
  <2> QED BY <2>1, <2>2
<1> QED BY <1>2, <1>7, <1>8, <1>9, <1>10, <1>11 DEF es

\* One text more is the last one given, unless it is empty.
LEMMA LastGivenAppend ==
  ASSUME NEW ts \in Seq(Text), NEW t \in Text
  PROVE  /\ LastGiven(ts) \in Text
         /\ LastGiven(Append(ts, t)) = Kept(t, LastGiven(ts))
<1>1. \A texts : LastGiven(texts) = IF Given(texts, "") = <<>> THEN ""
                                    ELSE Last(Given(texts, ""))
  BY DEF LastGiven, Given
<1>2. PICK none \in Text : none = ""
  BY DEF Text
<1>3. /\ Given(ts, none) \in Seq(Text)
      /\ Given(Append(ts, t), none) = IF t # none THEN Append(Given(ts, none), t)
                                      ELSE Given(ts, none)
  BY GivenAppend
<1>g. PICK g : g = Given(ts, none)
  OBVIOUS
<1>4. /\ Append(g, t) # <<>> /\ Last(Append(g, t)) = t
      /\ g # <<>> => Last(g) \in Text
  <2>1. g \in Seq(Text)
    BY <1>3, <1>g, Zenon
  <2> QED BY <2>1, LastAppended, ZenonT(60)
<1>5. LastGiven(ts) \in Text
  <2>1. CASE g = <<>>
    BY <1>1, <1>2, <1>g, <2>1
  <2>2. CASE g # <<>>
    <3>1. Last(g) \in Text
      BY <1>4, <2>2
    <3>2. LastGiven(ts) = Last(g)
      BY <1>1, <1>2, <1>g, <2>2
    <3> QED BY <3>1, <3>2
  <2> QED BY <2>1, <2>2
<1>6. LastGiven(Append(ts, t)) = IF t # none THEN t ELSE LastGiven(ts)
  <2>1. CASE t # none
    <3>1. Given(Append(ts, t), "") = Append(g, t)
      BY <1>2, <1>3, <1>g, <2>1, Zenon
    <3>2. Append(g, t) # <<>> /\ Last(Append(g, t)) = t
      BY <1>4
    <3>3. LastGiven(Append(ts, t)) = t
      BY <1>1, <3>1, <3>2
    <3> QED BY <2>1, <3>3
  <2>2. CASE t = none
    <3>1. Given(Append(ts, t), "") = g
      BY <1>2, <1>3, <1>g, <2>2, Zenon
    <3> QED BY <1>1, <1>2, <1>g, <2>2, <3>1, Zenon
  <2> QED BY <2>1, <2>2, Zenon
<1> QED BY <1>2, <1>5, <1>6, Zenon DEF Kept

\* One fragment more adds to the call.
LEMMA CallFromAppend ==
  ASSUME NEW fs \in Seq(AnyFrag), NEW f \in AnyFrag
  PROVE  /\ CallFrom(fs) \in Call
         /\ CallFrom(Append(fs, f)) = [id |-> Kept(f.id, CallFrom(fs).id),
                                       name |-> Kept(f.name, CallFrom(fs).name),
                                       args |-> CallFrom(fs).args \o f.args]
<1> DEFINE es == Append(fs, f)
           ids(s) == [i \in DOMAIN s |-> s[i].id]
           names(s) == [i \in DOMAIN s |-> s[i].name]
           args(s) == [i \in DOMAIN s |-> s[i].args]
<1>1. \A x \in AnyFrag : x.id \in Text /\ x.name \in Text /\ x.args \in Seq(STRING)
  BY DEF AnyFrag, Frag, Text
<1>2. /\ DOMAIN fs = 1 .. Len(fs) /\ Len(fs) \in Nat /\ DOMAIN es = 1 .. Len(fs) + 1
      /\ \A k \in 1 .. Len(fs) : es[k] = fs[k] /\ k \in 1 .. Len(fs) + 1 /\ fs[k] \in AnyFrag
      /\ es[Len(fs) + 1] = f /\ Len(fs) + 1 \in 1 .. Len(fs) + 1
      /\ \A k \in 1 .. Len(fs) + 1 : k \in 1 .. Len(fs) \/ k = Len(fs) + 1
  <2>1. \A k \in DOMAIN fs : fs[k] \in AnyFrag
    OBVIOUS
  <2> QED BY <2>1, Appended
<1> HIDE DEF es
<1>3. ids(fs) \in Seq(Text) /\ names(fs) \in Seq(Text) /\ args(fs) \in Seq(Seq(STRING))
      /\ Len(args(fs)) = Len(fs)
  BY <1>1, <1>2
<1>4. ids(es) = Append(ids(fs), f.id)
  <2>1. \A i \in 1 .. Len(fs) + 1 : ids(es)[i] = Append(ids(fs), f.id)[i]
    BY <1>1, <1>2, <1>3
  <2>2. DOMAIN Append(ids(fs), f.id) = 1 .. Len(fs) + 1
    BY <1>1, <1>2, <1>3
  <2> QED BY <1>1, <1>2, <1>3, <2>1, <2>2
<1>5. names(es) = Append(names(fs), f.name)
  <2>1. \A i \in 1 .. Len(fs) + 1 : names(es)[i] = Append(names(fs), f.name)[i]
    BY <1>1, <1>2, <1>3
  <2>2. DOMAIN Append(names(fs), f.name) = 1 .. Len(fs) + 1
    BY <1>1, <1>2, <1>3
  <2> QED BY <1>1, <1>2, <1>3, <2>1, <2>2
<1>6. /\ args(es) = [i \in 1 .. Len(args(fs)) + 1 |-> args(es)[i]]
      /\ \A i \in 1 .. Len(args(fs)) : args(es)[i] = args(fs)[i]
      /\ args(es)[Len(args(fs)) + 1] = f.args
  BY <1>2, <1>3
<1>7. CallFrom(fs) = [id |-> LastGiven(ids(fs)), name |-> LastGiven(names(fs)),
                      args |-> FlattenSeq(args(fs))]
  BY DEF CallFrom
<1>8. CallFrom(es) = [id |-> LastGiven(ids(es)), name |-> LastGiven(names(es)),
                      args |-> FlattenSeq(args(es))]
  BY DEF CallFrom
<1> HIDE DEF ids, names, args
<1>9. FlattenSeq(args(es)) = FlattenSeq(args(fs)) \o f.args
      /\ FlattenSeq(args(fs)) \in Seq(STRING)
  <2>1. PICK ss : ss = args(fs)
    OBVIOUS
  <2>2. PICK tt : tt = args(es)
    OBVIOUS
  <2>3. PICK T : T = STRING
    OBVIOUS
  <2>4. ss \in Seq(Seq(T)) /\ f.args \in Seq(T)
    BY <1>1, <1>3, <2>1, <2>3
  <2>5. /\ tt = [i \in 1 .. Len(ss) + 1 |-> tt[i]] /\ tt[Len(ss) + 1] = f.args
        /\ \A i \in 1 .. Len(ss) : tt[i] = ss[i]
    BY <1>6, <2>1, <2>2
  <2>6. FlattenSeq(tt) = FlattenSeq(ss) \o tt[Len(ss) + 1] /\ FlattenSeq(ss) \in Seq(T)
    BY <2>4, <2>5, FlattenGrows
  <2> QED BY <2>1, <2>2, <2>3, <2>5, <2>6, Zenon
<1>10. /\ LastGiven(ids(fs)) \in Text /\ LastGiven(names(fs)) \in Text
       /\ LastGiven(ids(es)) = Kept(f.id, LastGiven(ids(fs)))
       /\ LastGiven(names(es)) = Kept(f.name, LastGiven(names(fs)))
  BY <1>1, <1>3, <1>4, <1>5, LastGivenAppend
<1>11. CallFrom(fs) \in Call
  BY <1>7, <1>9, <1>10 DEF Call
<1> QED BY <1>7, <1>8, <1>9, <1>10, <1>11 DEF es

\* The fields of a call with one text for its id and its name.
LEMMA CallFields ==
  ASSUME NEW n, NEW e, NEW r, r = [id |-> n, name |-> n, args |-> e]
  PROVE  r.id = n /\ r.name = n /\ r.args = e
OBVIOUS

\* No fragment, and one.
LEMMA CallFromOne ==
  ASSUME NEW f \in AnyFrag
  PROVE  /\ CallFrom(<<f>>) = [id |-> f.id, name |-> f.name, args |-> f.args]
         /\ CallFrom(<<f>>) \in Call
<1>1. LastGiven(<<>>) = "" /\ FlattenSeq(<<>>) = <<>>
  <2>1. [i \in DOMAIN <<>> |-> IF <<>>[i] # "" THEN <<<<>>[i]>> ELSE <<>>] = <<>>
    OBVIOUS
  <2> QED BY <2>1, FlattenEmpty DEF LastGiven
<1>2. CallFrom(<<>>) = [id |-> "", name |-> "", args |-> <<>>]
  <2>1. /\ [i \in DOMAIN <<>> |-> <<>>[i].id] = <<>>
        /\ [i \in DOMAIN <<>> |-> <<>>[i].name] = <<>>
        /\ [i \in DOMAIN <<>> |-> <<>>[i].args] = <<>>
    OBVIOUS
  <2> QED BY <1>1, <2>1 DEF CallFrom
<1>3. f.id \in Text /\ f.name \in Text /\ f.args \in Seq(STRING)
  BY DEF AnyFrag, Frag, Text
<1>4. <<f>> = Append(<<>>, f) /\ <<>> \in Seq(AnyFrag)
  OBVIOUS
<1>5. Kept(f.id, "") = f.id /\ Kept(f.name, "") = f.name
  BY Zenon DEF Kept
<1>6. PICK as : as = f.args
  OBVIOUS
<1>7. <<>> \o as = as
  BY <1>3, <1>6
<1>8. CallFrom(<<f>>) = [id |-> f.id, name |-> f.name, args |-> f.args]
  <2>1. CallFrom(Append(<<>>, f)) = [id |-> Kept(f.id, CallFrom(<<>>).id),
                                       name |-> Kept(f.name, CallFrom(<<>>).name),
                                       args |-> CallFrom(<<>>).args \o f.args]
    BY <1>4, CallFromAppend
  <2>2. CallFrom(<<>>).id = "" /\ CallFrom(<<>>).name = "" /\ CallFrom(<<>>).args = <<>>
    <3>1. PICK n : n = ""
      OBVIOUS
    <3>2. PICK e : e = <<>>
      OBVIOUS
    <3>3. PICK r : r = CallFrom(<<>>)
      OBVIOUS
    <3>4. r = [id |-> n, name |-> n, args |-> e]
      BY <1>2, <3>1, <3>2, <3>3
    <3>5. r.id = n /\ r.name = n /\ r.args = e
      BY <3>4, CallFields
    <3> QED BY <3>1, <3>2, <3>3, <3>5
  <2> QED BY <1>4, <1>5, <1>6, <1>7, <2>1, <2>2, Zenon
<1> QED BY <1>3, <1>8 DEF Call

-----------------------------------------------------------------------------
\* The call a later fragment makes of an earlier one, and the call of a first fragment.
Merged(call, f) ==
  [id |-> Kept(f.id, call.id), name |-> Kept(f.name, call.name), args |-> call.args \o f.args]
Alone(f) == [id |-> f.id, name |-> f.name, args |-> f.args]

\* What a fragment changes.
Adds(a, idx, f, r) ==
  /\ DOMAIN r.calls = DOMAIN a.calls \cup {idx}
  /\ \A i \in DOMAIN a.calls \ {idx} : r.calls[i] = a.calls[i]
  /\ r.calls[idx] = IF idx \in DOMAIN a.calls THEN Merged(a.calls[idx], f) ELSE Alone(f)
  /\ r.order = IF idx \in DOMAIN a.calls THEN a.order ELSE Append(a.order, idx)

\* AddFragment changes that, and nothing of the texts.
LEMMA AddFragmentIs ==
  ASSUME NEW b, NEW a \in Like(b), NEW idx \in Int, NEW f \in AnyFrag
  PROVE  AddFragment(a, idx, f) \in Like(b) /\ Adds(a, idx, f, AddFragment(a, idx, f))
<1> DEFINE new == IF idx \in DOMAIN a.calls THEN Merged(a.calls[idx], f) ELSE Alone(f)
           calls == [i \in DOMAIN a.calls \cup {idx} |-> IF i = idx THEN new ELSE a.calls[i]]
           order == IF idx \in DOMAIN a.calls THEN a.order ELSE Append(a.order, idx)
           r == [a EXCEPT !.calls = calls, !.order = order]
<1>1. AddFragment(a, idx, f) = r
  BY DEF AddFragment, Merged, Alone
<1>2. f.id \in Text /\ f.name \in Text /\ f.args \in Seq(STRING)
  BY DEF AnyFrag, Frag, Text
<1>3. PICK D \in SUBSET Int : a.calls \in [D -> Call]
  BY DEF Like, CallMaps
<1>4. DOMAIN a.calls = D
  BY <1>3
<1>5. new \in Call
  <2>1. CASE idx \in D
    <3>1. a.calls[idx] \in Call
      BY <1>3, <2>1
    <3>2. PICK c \in Call : c = a.calls[idx]
      BY <3>1
    <3>3. Kept(f.id, c.id) \in Text /\ Kept(f.name, c.name) \in Text
      BY <1>2 DEF Kept, Call
    <3>4. c.args \o f.args \in Seq(STRING)
      <4>1. c.args \in Seq(STRING)
        BY DEF Call
      <4> QED BY <1>2, <4>1
    <3>5. Merged(c, f) \in Call
      BY <3>3, <3>4 DEF Merged, Call
    <3> QED BY <1>4, <2>1, <3>2, <3>5
  <2>2. CASE idx \notin D
    <3>1. Alone(f) \in Call
      BY <1>2 DEF Alone, Call
    <3> QED BY <1>4, <2>2, <3>1
  <2> QED BY <2>1, <2>2
<1>6. order \in Seq(Int)
  <2>1. a.order \in Seq(Int)
    BY DEF Like
  <2> QED BY <2>1
<1> HIDE DEF new, order
<1>7. calls \in CallMaps
  <2>1. calls \in [D \cup {idx} -> Call] /\ D \cup {idx} \in SUBSET Int
    BY <1>3, <1>4, <1>5
  <2> HIDE DEF calls
  <2> QED BY <2>1 DEF CallMaps
<1>8. DOMAIN calls = DOMAIN a.calls \cup {idx} /\ calls[idx] = new
      /\ \A i \in DOMAIN a.calls \ {idx} : calls[i] = a.calls[i]
  OBVIOUS
<1> HIDE DEF calls
<1>9. r \in Like(b) /\ r.calls = calls /\ r.order = order
  BY <1>6, <1>7 DEF Like
<1> HIDE DEF r
<1>10. Adds(a, idx, f, r)
  BY <1>8, <1>9 DEF Adds, new, order
<1> QED BY <1>1, <1>9, <1>10

\* A delta more is folded into the accumulator as it is meant.
LEMMA AddFragmentAccumulates ==
  ASSUME NEW b, NEW a \in Like(b), NEW ds \in Seq(Delta), NEW d \in Delta, Accumulates(ds, a)
  PROVE  Accumulates(Append(ds, d), AddFragment(a, d.index, d.frag))
<1>1. d.index \in Int /\ d.frag \in AnyFrag
  BY DEF Delta
<1>2. PICK idx \in Int : idx = d.index
  BY <1>1
<1>3. PICK f \in AnyFrag : f = d.frag
  BY <1>1
<1>4. PICK r : r = AddFragment(a, idx, f)
  OBVIOUS
<1>5. Adds(a, idx, f, r)
  BY <1>4, AddFragmentIs
<1>6. PICK es : es = Append(ds, d)
  OBVIOUS
<1>7. /\ Began(ds) \in Seq(Int)
      /\ Began(es) = IF idx \in Indices(ds) THEN Began(ds) ELSE Append(Began(ds), idx)
      /\ Indices(es) = Indices(ds) \cup {idx} /\ Indices(ds) \subseteq Int
  BY <1>2, <1>6, BeganAppend
<1>8. \A i : /\ DeltasOf(ds, i) \in Seq(AnyFrag)
             /\ DeltasOf(es, i) = IF idx = i THEN Append(DeltasOf(ds, i), f)
                                  ELSE DeltasOf(ds, i)
  BY <1>2, <1>3, <1>6, DeltasOfAppend
<1>9. /\ a.order = Began(ds) /\ DOMAIN a.calls = Indices(ds) /\ ToSet(a.order) = Indices(ds)
      /\ \A i \in Indices(ds) : a.calls[i] = CallFrom(DeltasOf(ds, i))
      /\ \A i \in Int \ Indices(ds) : DeltasOf(ds, i) = <<>>
  BY DEF Accumulates
<1>10. r.order = Began(es) /\ DOMAIN r.calls = Indices(es)
  BY <1>5, <1>7, <1>9 DEF Adds
<1>11. ToSet(r.order) = Indices(es)
  <2>1. CASE idx \in Indices(ds)
    BY <1>5, <1>7, <1>9, <2>1 DEF Adds
  <2>2. CASE idx \notin Indices(ds)
    <3>1. PICK o \in Seq(Int) : o = Began(ds)
      BY <1>7
    <3>2. ToSet(Append(o, idx)) = ToSet(o) \cup {idx}
      <4>1. o \o <<idx>> = Append(o, idx) /\ ToSet(<<idx>>) = {idx} /\ <<idx>> \in Seq(Int)
        BY DEF ToSet
      <4>2. PICK x \in Seq(Int) : x = <<idx>>
        BY <4>1
      <4>3. ToSet(o \o x) = ToSet(o) \cup ToSet(x)
        BY ConcatElements
      <4> QED BY <4>1, <4>2, <4>3
    <3> QED BY <1>7, <1>9, <1>10, <2>2, <3>1, <3>2
  <2> QED BY <2>1, <2>2
<1>12. ASSUME NEW i \in Indices(es)
       PROVE  r.calls[i] = CallFrom(DeltasOf(es, i))
  <2>1. CASE i # idx
    BY <1>5, <1>7, <1>8, <1>9, <2>1 DEF Adds
  <2>2. CASE i = idx /\ idx \in Indices(ds)
    <3>1. PICK fs \in Seq(AnyFrag) : fs = DeltasOf(ds, idx)
      BY <1>8
    <3>2. r.calls[idx] = Merged(CallFrom(fs), f)
      BY <1>5, <1>9, <2>2, <3>1 DEF Adds
    <3>3. CallFrom(Append(fs, f)) = Merged(CallFrom(fs), f)
      BY CallFromAppend DEF Merged
    <3> QED BY <1>8, <2>2, <3>1, <3>2, <3>3
  <2>3. CASE i = idx /\ idx \notin Indices(ds)
    <3>1. r.calls[idx] = Alone(f)
      BY <1>5, <1>9, <2>3 DEF Adds
    <3>2. DeltasOf(ds, idx) = <<>> /\ Append(<<>>, f) = <<f>>
      BY <1>9, <2>3
    <3>3. CallFrom(<<f>>) = Alone(f)
      BY CallFromOne DEF Alone
    <3> QED BY <1>8, <2>3, <3>1, <3>2, <3>3
  <2> QED BY <2>1, <2>2, <2>3
<1>13. ASSUME NEW i \in Int \ Indices(es) PROVE DeltasOf(es, i) = <<>>
  BY <1>7, <1>8, <1>9
<1>14. Accumulates(es, r)
  BY <1>10, <1>11, <1>12, <1>13 DEF Accumulates
<1> QED BY <1>2, <1>3, <1>4, <1>6, <1>14

\* The accumulators after each fragment of a chunk.
Folds(a, frags, g) ==
  /\ g[0] = a
  /\ \A i \in 1 .. Len(frags) : g[i] = AddFragment(g[i - 1], IndexOf(frags[i], i), frags[i])

\* The fragments of a chunk are folded as the recursive function says.
LEMMA AddedDefined ==
  ASSUME NEW b, NEW a \in Like(b), NEW frags \in Seq(AnyFrag)
  PROVE  \E g \in [0 .. Len(frags) -> Like(b)] :
           Folds(a, frags, g) /\ AddFragments(a, frags) = g[Len(frags)]
<1> DEFINE S == 0 .. Len(frags)
           R == OpToRel(<, Nat)
           L == Like(b)
           V == [i \in S |-> L]
           A == Typed(S, L, V)
           next(c, i) == AddFragment(c, IndexOf(frags[i], i), frags[i])
           F == [f \in A |-> [i \in S |-> IF i = 0 THEN a ELSE next(f[i - 1], i)]]
<1>1. IsWellFoundedOn(R, S)
  <2>1. S \subseteq Nat
    OBVIOUS
  <2> HIDE DEF S, R
  <2>2. IsWellFoundedOn(R, Nat)
    BY NatLessThanWellFounded DEF R
  <2> QED BY <2>1, <2>2, IsWellFoundedOnSubset
<1>2. \A i \in S : i # 0 => i - 1 \in S /\ i \in 1 .. Len(frags) /\ <<i - 1, i>> \in R
  BY DEF OpToRel
<1>3. \A c \in L : \A i \in 1 .. Len(frags) : next(c, i) \in L
  <2> SUFFICES ASSUME NEW c \in L, NEW i \in 1 .. Len(frags) PROVE next(c, i) \in L
    OBVIOUS
  <2>1. frags[i] \in AnyFrag
    OBVIOUS
  <2>2. IndexOf(frags[i], i) \in Int
    BY <2>1 DEF IndexOf, AnyFrag, Frag
  <2> QED BY <2>1, <2>2, AddFragmentIs
<1> HIDE DEF next, L
<1>4. \A f \in A : \A i \in S : F[f][i] \in V[i]
  <2>1. a \in L
    BY DEF L
  <2> HIDE DEF R
  <2> QED BY <1>2, <1>3, <2>1 DEF Typed
<1>5. \A f, g \in A : \A i \in S :
        (\A j \in S : <<j, i>> \in R => f[j] = g[j]) => F[f][i] = F[g][i]
  <2> HIDE DEF R, S
  <2> QED BY <1>2
<1>6. \E w \in A : \A i \in S : w[i] = F[w][i]
  <2>1. \A i \in S : V[i] # {} /\ V[i] \subseteq L
    BY DEF L
  <2> HIDE DEF R, S, V, F
  <2>2. Contracting(S, R, L, V, F)
    BY <1>1, <1>4, <1>5, <2>1 DEF Contracting
  <2> QED BY <2>2, Recursion
<1>7. PICK w \in A : \A i \in S : w[i] = F[w][i]
  BY <1>6
<1> DEFINE Added(g) == [i \in S |-> IF i = 0 THEN a ELSE next(g[i - 1], i)]
           h == CHOOSE g : g = Added(g)
<1>8. w = Added(w)
  <2> HIDE DEF R, S, V
  <2> QED BY <1>7 DEF Typed
<1>9. h = Added(h)
  <2> HIDE DEF Added
  <2> QED BY <1>8
<1>10. Len(frags) \in S /\ 0 \in S /\ Len(frags) \in Nat
  OBVIOUS
<1>11. AddFragments(a, frags) = h[Len(frags)]
  BY DEF AddFragments, next
<1>12. \A i \in S : h[i] = IF i = 0 THEN a ELSE next(h[i - 1], i)
  <2> HIDE DEF h, S
  <2> QED BY <1>9
<1>13. DOMAIN h = S /\ h = [i \in S |-> h[i]]
  <2> HIDE DEF h, S
  <2> QED BY <1>9
<1> HIDE DEF h
<1>14. \A i \in S : h[i] \in L
  <2> DEFINE B == {i \in S : h[i] \notin L}
  <2>1. SUFFICES ASSUME B # {} PROVE FALSE
    OBVIOUS
  <2>2. PICK m \in B : \A k \in B : m <= k
    <3>1. B \in SUBSET Nat
      OBVIOUS
    <3> HIDE DEF B
    <3> QED BY <2>1, <3>1, LeastNat
  <2>3. CASE m = 0
    BY <1>10, <1>12, <2>3 DEF L
  <2>4. CASE m # 0
    <3>1. h[m - 1] \in L
      <4>1. m \in S /\ m - 1 \in S /\ ~ (m <= m - 1)
        BY <2>2, <2>4
      <4> HIDE DEF S
      <4> QED BY <2>2, <4>1
    <3>2. h[m] = next(h[m - 1], m) /\ m \in 1 .. Len(frags)
      BY <1>12, <2>4
    <3> HIDE DEF S
    <3> QED BY <1>3, <2>2, <3>1, <3>2
  <2> QED BY <2>3, <2>4
<1>15. h \in [S -> L]
  <2> HIDE DEF S
  <2> QED BY <1>13, <1>14
<1>16. Folds(a, frags, h)
  <2>1. h[0] = a
    BY <1>10, <1>12
  <2>2. ASSUME NEW i \in 1 .. Len(frags) PROVE h[i] = next(h[i - 1], i)
    <3>1. i \in S /\ i # 0
      OBVIOUS
    <3> HIDE DEF S
    <3> QED BY <1>12, <3>1
  <2> QED BY <2>1, <2>2 DEF Folds, next
<1> QED BY <1>11, <1>15, <1>16 DEF L

\* The fragments of a chunk with their indices are deltas.
LEMMA DeltasInTyped ==
  ASSUME streams \in BOOLEAN, NEW frags \in Seq(AnyFrag)
  PROVE  DeltasIn(frags) \in Seq(Delta) /\ Len(DeltasIn(frags)) = Len(frags)
<1>1. ASSUME NEW i \in DOMAIN frags PROVE DeltasIn(frags)[i] \in Delta
  <2>1. frags[i] \in AnyFrag /\ i \in Int
    OBVIOUS
  <2>2. frags[i].index \in Int \cup {NoIndex}
    BY <2>1 DEF AnyFrag, Frag
  <2>3. DeltasIn(frags)[i] =
          [index |-> IF streams /\ frags[i].index # NoIndex THEN frags[i].index ELSE i - 1,
           frag |-> frags[i]]
    BY DEF DeltasIn
  <2> QED BY <2>1, <2>2, <2>3 DEF Delta
<1>2. DOMAIN frags = 1 .. Len(frags) /\ Len(frags) \in Nat
      /\ DeltasIn(frags) = [i \in DOMAIN frags |-> DeltasIn(frags)[i]]
  BY DEF DeltasIn
<1> QED BY <1>1, <1>2

\* The fragments of a chunk are folded into the accumulator as they are meant.
LEMMA AddFragmentsAccumulates ==
  ASSUME streams, NEW b, NEW a \in Like(b), NEW ds \in Seq(Delta),
         NEW frags \in Seq(AnyFrag), Accumulates(ds, a)
  PROVE  /\ AddFragments(a, frags) \in Like(b)
         /\ Accumulates(ds \o DeltasIn(frags), AddFragments(a, frags))
<1> DEFINE n == Len(frags)
<1>1. PICK es \in Seq(Delta) : es = DeltasIn(frags) /\ Len(es) = n /\ n \in Nat
  BY DeltasInTyped
<1>2. PICK g \in [0 .. n -> Like(b)] :
        Folds(a, frags, g) /\ AddFragments(a, frags) = g[n]
  BY AddedDefined
<1> DEFINE P == {i \in 0 .. n : Accumulates(ds \o First(es, i), g[i])}
<1>3. 0 \in P
  <2>1. First(es, 0) = <<>>
    BY DEF First
  <2>2. ds \o <<>> = ds
    OBVIOUS
  <2>3. g[0] = a /\ 0 \in 0 .. n
    BY <1>1, <1>2 DEF Folds
  <2> QED BY <2>1, <2>2, <2>3
<1>4. ASSUME NEW i \in 1 .. n, i - 1 \in P PROVE i \in P
  <2>1. PICK d \in Delta : d = es[i]
    BY <1>1, <1>4, FirstNext
  <2>2. PICK p \in Seq(Delta) : p = First(es, i - 1) /\ First(es, i) = Append(p, d)
    BY <1>1, <2>1, FirstNext
  <2>3. Accumulates(ds \o p, g[i - 1]) /\ i - 1 \in 0 .. n
    BY <1>4, <2>2
  <2>4. ds \o p \in Seq(Delta)
    OBVIOUS
  <2>5. g[i - 1] \in Like(b)
    BY <1>2, <2>3
  <2>6. Accumulates(Append(ds \o p, d), AddFragment(g[i - 1], d.index, d.frag))
    BY <2>3, <2>4, <2>5, AddFragmentAccumulates
  <2>7. d.index = IndexOf(frags[i], i) /\ d.frag = frags[i]
    <3>1. i \in DOMAIN frags
      OBVIOUS
    <3> QED BY <1>1, <2>1, <3>1 DEF DeltasIn, IndexOf
  <2>8. g[i] = AddFragment(g[i - 1], d.index, d.frag)
    BY <1>2, <2>7 DEF Folds
  <2>9. ds \o First(es, i) = Append(ds \o p, d)
    BY <2>2, AppendAfter, SMTT(30)
  <2>10. Accumulates(ds \o First(es, i), g[i])
    BY <2>6, <2>8, <2>9
  <2>11. i \in 0 .. n
    BY <1>1
  <2> QED BY <2>10, <2>11
<1>5. n \in P
  <2>1. \A i \in 0 .. n : i \in P
    <3> HIDE DEF P, n
    <3> QED BY <1>1, <1>3, <1>4, UpTo
  <2> QED BY <1>1, <2>1
<1>6. First(es, n) = es
  BY <1>1 DEF First
<1>7. g[n] \in Like(b)
  BY <1>1, <1>2
<1> QED BY <1>1, <1>2, <1>5, <1>6, <1>7

-----------------------------------------------------------------------------
\* The first i deltas are a call each, in their order.
AllAlone(ds, i) ==
  /\ Began(ds) = [k \in 1 .. i |-> k - 1] /\ Indices(ds) = 0 .. i - 1
  /\ \A k \in 1 .. i : DeltasOf(ds, k - 1) = <<ds[k].frag>>
  /\ \A idx \in Int : idx >= i => DeltasOf(ds, idx) = <<>>

\* It is so when the indices are the places, as they are in a whole answer.
LEMMA WholeAlone ==
  ASSUME NEW es \in Seq(Delta), \A i \in DOMAIN es : es[i].index = i - 1
  PROVE  AllAlone(es, Len(es))
<1> DEFINE n == Len(es)
           P == {i \in 0 .. n : AllAlone(First(es, i), i)}
<1>1. n \in Nat
  OBVIOUS
<1>2. 0 \in P
  <2>1. First(es, 0) = <<>>
    BY DEF First
  <2>2. Began(<<>>) = <<>>
    <3>1. [k \in DOMAIN <<>> |-> IF \A j \in 1 .. (k - 1) : <<>>[j].index # <<>>[k].index
                                THEN <<<<>>[k].index>> ELSE <<>>] = <<>>
      OBVIOUS
    <3> QED BY <3>1, FlattenEmpty DEF Began
  <2>3. \A idx : DeltasOf(<<>>, idx) = <<>>
    <3> SUFFICES ASSUME NEW idx PROVE DeltasOf(<<>>, idx) = <<>>
      OBVIOUS
    <3>1. [k \in DOMAIN <<>> |-> IF <<>>[k].index = idx THEN <<<<>>[k].frag>> ELSE <<>>] = <<>>
      OBVIOUS
    <3> QED BY <3>1, FlattenEmpty DEF DeltasOf
  <2>4. Indices(<<>>) = {} /\ 0 .. 0 - 1 = {}
    BY DEF Indices
  <2>5. [k \in 1 .. 0 |-> k - 1] = <<>>
    OBVIOUS
  <2>6. AllAlone(<<>>, 0)
    BY <2>2, <2>3, <2>4, <2>5 DEF AllAlone
  <2> QED BY <1>1, <2>1, <2>6
<1>3. ASSUME NEW i \in 1 .. n, i - 1 \in P PROVE i \in P
  <2>1. PICK d \in Delta : d = es[i]
    BY <1>3, FirstNext
  <2>2. PICK p \in Seq(Delta) : p = First(es, i - 1) /\ First(es, i) = Append(p, d)
    BY <2>1, FirstNext
  <2>3. PICK q : q = First(es, i)
    OBVIOUS
  <2>4. AllAlone(p, i - 1)
    BY <1>3, <2>2
  <2>5. d.index = i - 1 /\ i - 1 \in Nat /\ i - 1 \in Int /\ i \in Nat /\ d.frag \in AnyFrag
    <3>1. d.index = i - 1
      BY <2>1
    <3> QED BY <3>1 DEF Delta
  <2>6. (i - 1) \notin Indices(p)
    BY <2>4, <2>5 DEF AllAlone
  <2>7. Began(q) = Append(Began(p), i - 1) /\ Indices(q) = Indices(p) \cup {i - 1}
    BY <2>2, <2>3, <2>5, <2>6, BeganAppend, SMTT(30)
  <2>8. Began(q) = [k \in 1 .. i |-> k - 1]
    <3>1. Append([k \in 1 .. i - 1 |-> k - 1], i - 1) = [k \in 1 .. i |-> k - 1]
      BY <2>5
    <3> QED BY <2>4, <2>7, <3>1 DEF AllAlone
  <2>9. Indices(q) = 0 .. i - 1
    BY <2>4, <2>5, <2>7 DEF AllAlone
  <2>10. \A idx : DeltasOf(q, idx) = IF i - 1 = idx THEN Append(DeltasOf(p, idx), d.frag)
                                     ELSE DeltasOf(p, idx)
    <3>1. \A idx : DeltasOf(Append(p, d), idx) = IF d.index = idx
                                                  THEN Append(DeltasOf(p, idx), d.frag)
                                                  ELSE DeltasOf(p, idx)
      BY DeltasOfAppend
    <3>2. q = Append(p, d)
      BY <2>2, <2>3
    <3> QED BY <2>5, <3>1, <3>2
  <2>11. ASSUME NEW k \in 1 .. i PROVE DeltasOf(q, k - 1) = <<q[k].frag>>
    <3>1. q = First(es, i) /\ q[k] = es[k]
      BY <2>3 DEF First
    <3>2. CASE k = i
      <4>1. DeltasOf(p, i - 1) = <<>>
        BY <2>4, <2>5 DEF AllAlone
      <4>2. Append(<<>>, d.frag) = <<d.frag>>
        OBVIOUS
      <4> QED BY <2>1, <2>10, <3>1, <3>2, <4>1, <4>2
    <3>3. CASE k # i
      <4>1. k \in 1 .. i - 1 /\ i - 1 # k - 1
        BY <2>5, <3>3
      <4>2. p[k] = es[k]
        BY <2>2, <4>1 DEF First
      <4>3. DeltasOf(p, k - 1) = <<p[k].frag>>
        BY <2>4, <4>1 DEF AllAlone
      <4> QED BY <2>10, <3>1, <4>1, <4>2, <4>3
    <3> QED BY <3>2, <3>3
  <2>12. ASSUME NEW idx \in Int, idx >= i PROVE DeltasOf(q, idx) = <<>>
    <3>1. idx >= i - 1 /\ i - 1 # idx
      BY <2>5, <2>12
    <3>2. DeltasOf(p, idx) = <<>>
      BY <2>4, <3>1 DEF AllAlone
    <3> QED BY <2>10, <3>1, <3>2
  <2>13. AllAlone(q, i)
    BY <2>8, <2>9, <2>11, <2>12 DEF AllAlone
  <2> QED BY <2>3, <2>13
<1>4. n \in P
  <2>1. \A i \in 0 .. n : i \in P
    <3> HIDE DEF P, n
    <3> QED BY <1>1, <1>2, <1>3, UpTo
  <2> QED BY <1>1, <2>1
<1>5. First(es, n) = es
  BY DEF First
<1> QED BY <1>4, <1>5

-----------------------------------------------------------------------------
(***************************************************************************)
(* Bodies.                                                                  *)
(***************************************************************************)
\* One chunk more.
LEMMA BodyAppend ==
  ASSUME streams \in BOOLEAN, NEW bs \in Seq(AnyChunk), NEW c \in AnyChunk
  PROVE  /\ Reasoning(bs) \in Seq(STRING) /\ Content(bs) \in Seq(STRING)
         /\ Deltas(bs) \in Seq(Delta)
         /\ Reasoning(Append(bs, c)) = Reasoning(bs) \o c.reasoning
         /\ Content(Append(bs, c)) = Content(bs) \o c.content
         /\ Deltas(Append(bs, c)) = Deltas(bs) \o DeltasIn(c.frags)
<1> DEFINE es == Append(bs, c)
           rs(s) == [i \in DOMAIN s |-> s[i].reasoning]
           cs(s) == [i \in DOMAIN s |-> s[i].content]
           dl(s) == [i \in DOMAIN s |-> DeltasIn(s[i].frags)]
<1>1. \A x \in AnyChunk : x.reasoning \in Seq(STRING) /\ x.content \in Seq(STRING)
                          /\ DeltasIn(x.frags) \in Seq(Delta)
  <2>1. \A x \in AnyChunk : x.frags \in Seq(AnyFrag)
    BY DEF AnyChunk, Chunk, AnyFrag
  <2> QED BY <2>1, DeltasInTyped DEF AnyChunk, Chunk
<1>2. /\ DOMAIN bs = 1 .. Len(bs) /\ Len(bs) \in Nat /\ DOMAIN es = 1 .. Len(bs) + 1
      /\ \A k \in 1 .. Len(bs) : es[k] = bs[k] /\ k \in 1 .. Len(bs) + 1 /\ bs[k] \in AnyChunk
      /\ es[Len(bs) + 1] = c /\ Len(bs) + 1 \in 1 .. Len(bs) + 1
  <2>1. \A k \in DOMAIN bs : bs[k] \in AnyChunk
    OBVIOUS
  <2> QED BY <2>1, Appended
<1> HIDE DEF es
<1>3. /\ Reasoning(bs) = FlattenSeq(rs(bs)) /\ Reasoning(es) = FlattenSeq(rs(es))
      /\ Content(bs) = FlattenSeq(cs(bs)) /\ Content(es) = FlattenSeq(cs(es))
      /\ Deltas(bs) = FlattenSeq(dl(bs)) /\ Deltas(es) = FlattenSeq(dl(es))
  BY DEF Reasoning, Content, Deltas
<1>4. PICK T : T = STRING
  OBVIOUS
<1>5. FlattenSeq(rs(es)) = FlattenSeq(rs(bs)) \o c.reasoning /\ FlattenSeq(rs(bs)) \in Seq(T)
  <2>1. PICK ss : ss = rs(bs)
    OBVIOUS
  <2>2. PICK tt : tt = rs(es)
    OBVIOUS
  <2>3. ss \in Seq(Seq(T)) /\ Len(ss) = Len(bs) /\ c.reasoning \in Seq(T)
    BY <1>1, <1>2, <1>4, <2>1
  <2>4. /\ tt = [i \in 1 .. Len(ss) + 1 |-> tt[i]] /\ tt[Len(ss) + 1] = c.reasoning
        /\ \A i \in 1 .. Len(ss) : tt[i] = ss[i]
    BY <1>2, <2>1, <2>2, <2>3
  <2>5. FlattenSeq(tt) = FlattenSeq(ss) \o tt[Len(ss) + 1] /\ FlattenSeq(ss) \in Seq(T)
    BY <2>3, <2>4, FlattenGrows
  <2> QED BY <2>1, <2>2, <2>4, <2>5, Zenon
<1>6. FlattenSeq(cs(es)) = FlattenSeq(cs(bs)) \o c.content /\ FlattenSeq(cs(bs)) \in Seq(T)
  <2>1. PICK ss : ss = cs(bs)
    OBVIOUS
  <2>2. PICK tt : tt = cs(es)
    OBVIOUS
  <2>3. ss \in Seq(Seq(T)) /\ Len(ss) = Len(bs) /\ c.content \in Seq(T)
    BY <1>1, <1>2, <1>4, <2>1
  <2>4. /\ tt = [i \in 1 .. Len(ss) + 1 |-> tt[i]] /\ tt[Len(ss) + 1] = c.content
        /\ \A i \in 1 .. Len(ss) : tt[i] = ss[i]
    BY <1>2, <2>1, <2>2, <2>3
  <2>5. FlattenSeq(tt) = FlattenSeq(ss) \o tt[Len(ss) + 1] /\ FlattenSeq(ss) \in Seq(T)
    BY <2>3, <2>4, FlattenGrows
  <2> QED BY <2>1, <2>2, <2>4, <2>5, Zenon
<1>7. FlattenSeq(dl(es)) = FlattenSeq(dl(bs)) \o DeltasIn(c.frags)
      /\ FlattenSeq(dl(bs)) \in Seq(Delta)
  <2>1. PICK ss : ss = dl(bs)
    OBVIOUS
  <2>2. PICK tt : tt = dl(es)
    OBVIOUS
  <2>3. ss \in Seq(Seq(Delta)) /\ Len(ss) = Len(bs) /\ DeltasIn(c.frags) \in Seq(Delta)
    BY <1>1, <1>2, <2>1
  <2>4. /\ tt = [i \in 1 .. Len(ss) + 1 |-> tt[i]] /\ tt[Len(ss) + 1] = DeltasIn(c.frags)
        /\ \A i \in 1 .. Len(ss) : tt[i] = ss[i]
    BY <1>2, <2>1, <2>2, <2>3
  <2>5. FlattenSeq(tt) = FlattenSeq(ss) \o tt[Len(ss) + 1] /\ FlattenSeq(ss) \in Seq(Delta)
    BY <2>3, <2>4, FlattenGrows
  <2> QED BY <2>1, <2>2, <2>4, <2>5, Zenon
<1> HIDE DEF rs, cs, dl
<1> QED BY <1>3, <1>4, <1>5, <1>6, <1>7 DEF es

\* No chunk.
LEMMA BodyEmpty ==
  Reasoning(<<>>) = <<>> /\ Content(<<>>) = <<>> /\ Deltas(<<>>) = <<>>
<1>1. /\ [i \in DOMAIN <<>> |-> <<>>[i].reasoning] = <<>>
      /\ [i \in DOMAIN <<>> |-> <<>>[i].content] = <<>>
      /\ [i \in DOMAIN <<>> |-> DeltasIn(<<>>[i].frags)] = <<>>
  OBVIOUS
<1> QED BY <1>1, FlattenEmpty DEF Reasoning, Content, Deltas

\* The chunks a client reads are of the types assumed.
LEMMA ChunksTyped ==
  ASSUME wire \in DOMAIN Chunks
  PROVE  /\ wire \in {"openai", "ollama"}
         /\ Chunks[wire] \subseteq AnyChunk
<1>1. Chunk(Int) \subseteq AnyChunk
  <2>1. Seq(Frag(Int)) \subseteq Seq(AnyFrag)
    <3>1. Frag(Int) \subseteq AnyFrag
      BY DEF Frag, AnyFrag
    <3> QED BY <3>1
  <2> QED BY <2>1 DEF Chunk, AnyChunk, AnyFrag
<1>2. Chunks["openai"] \subseteq AnyChunk /\ Chunks["ollama"] \subseteq AnyChunk
  BY <1>1, StreamsAssumption DEF AnyChunk
<1>3. wire = "openai" \/ wire = "ollama"
  BY StreamsAssumption
<1> QED BY <1>2, <1>3

-----------------------------------------------------------------------------
(***************************************************************************)
(* What is returned.                                                        *)
(***************************************************************************)
\* Completing a call leaves its length on the same side of the limit.
LEMMA CompletedLength ==
  ASSUME NEW call \in Call
  PROVE  Len(Completed(call).args) > MaxLen <=> Len(call.args) > MaxLen
<1>1. call.args \in Seq(STRING) /\ DOMAIN call = {"id", "name", "args"}
  BY DEF Call
<1>2. Completed(call).args = IF wire = "openai" THEN call.args
                             ELSE IF call.args = <<>> THEN NoArgs ELSE call.args
  BY <1>1 DEF Completed
<1>3. MaxLen \in Nat /\ ~ (0 > MaxLen) /\ ~ (1 > MaxLen)
  BY StreamsAssumption
<1>4. Len(<<>>) = 0 /\ Len(NoArgs) = 1
  BY DEF NoArgs
<1>5. CASE wire # "openai" /\ call.args = <<>>
  <2>1. Completed(call).args = NoArgs
    BY <1>2, <1>5
  <2> QED BY <1>3, <1>4, <1>5, <2>1
<1>6. CASE ~ (wire # "openai" /\ call.args = <<>>)
  <2>1. Completed(call).args = call.args
    BY <1>2, <1>6
  <2> QED BY <2>1
<1> QED BY <1>5, <1>6

\* The calls of the accumulator, completed.
CompletedCalls(a) == [i \in DOMAIN InOrder(a) |-> Completed(InOrder(a)[i])]

\* The calls of the accumulator, in order and completed, are the calls meant, and one
\* of them is too long when one of the accumulator is.
LEMMA CallsFolded ==
  ASSUME NEW bs, NEW a, a \in Like(a), Accumulates(Deltas(bs), a)
  PROVE  /\ CompletedCalls(a) = CallsMeant(bs)
         /\ (\E i \in DOMAIN CallsMeant(bs) : Len(CallsMeant(bs)[i].args) > MaxLen)
              <=> (\E i \in DOMAIN a.calls : Len(a.calls[i].args) > MaxLen)
<1>1. PICK o : o = Began(Deltas(bs))
  OBVIOUS
<1>2. PICK D : D = Deltas(bs)
  OBVIOUS
<1>3. /\ a.order = o /\ DOMAIN a.calls = Indices(D) /\ ToSet(o) = Indices(D)
      /\ \A idx \in Indices(D) : a.calls[idx] = CallFrom(DeltasOf(D, idx))
  BY <1>1, <1>2 DEF Accumulates
<1>4. CallsMeant(bs) = [i \in DOMAIN o |-> Completed(CallFrom(DeltasOf(D, o[i])))]
  BY <1>1, <1>2 DEF CallsMeant
<1>5. \A i \in DOMAIN o : o[i] \in Indices(D)
  BY <1>3 DEF ToSet
<1>6. /\ DOMAIN InOrder(a) = DOMAIN o
      /\ \A i \in DOMAIN o : InOrder(a)[i] = CallFrom(DeltasOf(D, o[i]))
  BY <1>3, <1>5 DEF InOrder
<1>7. CompletedCalls(a) = CallsMeant(bs)
  BY <1>4, <1>6 DEF CompletedCalls
<1>8. \A idx \in Indices(D) : a.calls[idx] \in Call
  <2>1. a.calls \in CallMaps
    BY DEF Like
  <2> QED BY <1>3, <2>1 DEF CallMaps
<1>9. ASSUME NEW i \in DOMAIN o, Len(CallsMeant(bs)[i].args) > MaxLen
      PROVE  \E k \in DOMAIN a.calls : Len(a.calls[k].args) > MaxLen
  <2>1. CallsMeant(bs)[i] = Completed(a.calls[o[i]]) /\ o[i] \in DOMAIN a.calls
    BY <1>3, <1>4, <1>5
  <2>2. Len(a.calls[o[i]].args) > MaxLen
    BY <1>3, <1>8, <1>9, <2>1, CompletedLength
  <2> QED BY <2>1, <2>2
<1>10. ASSUME NEW k \in DOMAIN a.calls, Len(a.calls[k].args) > MaxLen
       PROVE  \E i \in DOMAIN o : Len(CallsMeant(bs)[i].args) > MaxLen
  <2>1. PICK i \in DOMAIN o : o[i] = k
    BY <1>3 DEF ToSet
  <2>2. CallsMeant(bs)[i] = Completed(a.calls[k]) /\ a.calls[k] \in Call
    BY <1>3, <1>4, <1>5, <1>8, <2>1
  <2> QED BY <1>10, <2>2, CompletedLength
<1> QED BY <1>4, <1>7, <1>9, <1>10

\* A whole answer means one call per fragment.
LEMMA WholeMeant ==
  ASSUME streams = FALSE, NEW c \in AnyChunk
  PROVE  /\ Reasoning(<<c>>) = c.reasoning /\ Content(<<c>>) = c.content
         /\ CallsMeant(<<c>>) = NeutralCalls(c)
<1>1. c.reasoning \in Seq(STRING) /\ c.content \in Seq(STRING) /\ c.frags \in Seq(AnyFrag)
  BY DEF AnyChunk, Chunk, AnyFrag
<1>2. PICK es \in Seq(Delta) : es = DeltasIn(c.frags) /\ Len(es) = Len(c.frags)
  BY <1>1, DeltasInTyped
<1>3. PICK none \in Seq(AnyChunk) : none = <<>>
  <2>1. <<>> \in Seq(AnyChunk)
    OBVIOUS
  <2> QED BY <2>1
<1>4. Append(none, c) = <<c>>
  BY <1>3
<1>5. /\ Reasoning(none) = <<>> /\ Content(none) = <<>> /\ Deltas(none) = <<>>
  BY <1>3, BodyEmpty
<1>6. /\ Reasoning(<<c>>) = <<>> \o c.reasoning
      /\ Content(<<c>>) = <<>> \o c.content /\ Deltas(<<c>>) = <<>> \o es
  <2>1. /\ Reasoning(Append(none, c)) = Reasoning(none) \o c.reasoning
        /\ Content(Append(none, c)) = Content(none) \o c.content
        /\ Deltas(Append(none, c)) = Deltas(none) \o DeltasIn(c.frags)
    BY BodyAppend
  <2> QED BY <1>2, <1>4, <1>5, <2>1
<1>7. Reasoning(<<c>>) = c.reasoning /\ Content(<<c>>) = c.content /\ Deltas(<<c>>) = es
  <2>1. <<>> \o c.reasoning = c.reasoning
    BY <1>1
  <2>2. <<>> \o c.content = c.content
    BY <1>1
  <2>3. <<>> \o es = es
    OBVIOUS
  <2> QED BY <1>6, <2>1, <2>2, <2>3
<1>8. \A i \in DOMAIN es : es[i].index = i - 1 /\ es[i].frag = c.frags[i]
  BY <1>1, <1>2 DEF DeltasIn
<1>9. AllAlone(es, Len(es))
  BY <1>8, WholeAlone
<1>10. /\ DOMAIN c.frags = 1 .. Len(c.frags) /\ Len(c.frags) \in Nat
       /\ DOMAIN es = 1 .. Len(es) /\ \A i \in DOMAIN c.frags : c.frags[i] \in AnyFrag
  BY <1>1
<1>11. PICK o : o = Began(es)
  OBVIOUS
<1>12. DOMAIN o = DOMAIN c.frags /\ \A i \in DOMAIN o : o[i] = i - 1
  BY <1>2, <1>9, <1>10, <1>11 DEF AllAlone
<1>13. CallsMeant(<<c>>) = [i \in DOMAIN o |-> Completed(CallFrom(DeltasOf(es, o[i])))]
  BY <1>7, <1>11 DEF CallsMeant
<1>14. ASSUME NEW i \in DOMAIN c.frags
       PROVE  CallFrom(DeltasOf(es, o[i])) =
                [id |-> c.frags[i].id, name |-> c.frags[i].name, args |-> c.frags[i].args]
  <2>1. DeltasOf(es, i - 1) = <<c.frags[i]>>
    BY <1>2, <1>8, <1>9, <1>10 DEF AllAlone
  <2>2. o[i] = i - 1
    BY <1>12
  <2>3. c.frags[i] \in AnyFrag
    BY <1>10
  <2> QED BY <2>1, <2>2, <2>3, CallFromOne
<1>15. CallsMeant(<<c>>) = NeutralCalls(c)
  BY <1>12, <1>13, <1>14 DEF NeutralCalls
<1> QED BY <1>7, <1>15

\* What a delta changes besides the calls.
LEMMA AddDeltaIs ==
  ASSUME NEW a, a \in Like(a), NEW c \in AnyChunk, streams, NEW ds \in Seq(Delta),
         Accumulates(ds, a)
  PROVE  /\ AddDelta(a, c) \in Like(AddDelta(a, c))
         /\ AddDelta(a, c).reasoning = a.reasoning \o c.reasoning
         /\ AddDelta(a, c).content = a.content \o c.content
         /\ Accumulates(ds \o DeltasIn(c.frags), AddDelta(a, c))
<1> DEFINE longer == [a EXCEPT !.reasoning = @ \o c.reasoning, !.content = @ \o c.content]
           b == AddFragments(longer, c.frags)
           d == AddDelta(a, c)
<1>1. /\ longer.reasoning = a.reasoning \o c.reasoning /\ longer.content = a.content \o c.content
      /\ longer.calls = a.calls /\ longer.order = a.order
      /\ longer.finish = a.finish /\ longer.usage = a.usage
      /\ DOMAIN longer = {"reasoning", "content", "calls", "order", "finish", "usage"}
  BY DEF Like
<1>2. longer \in Like(longer)
  BY DEF Like
<1>3. Accumulates(ds, longer)
  BY <1>1 DEF Accumulates
<1> HIDE DEF longer
<1>4. c.frags \in Seq(AnyFrag)
  BY DEF AnyChunk, Chunk, AnyFrag
<1>5. b \in Like(longer) /\ Accumulates(ds \o DeltasIn(c.frags), b)
  BY <1>2, <1>3, <1>4, AddFragmentsAccumulates
<1>6. PICK f, u : d = [b EXCEPT !.finish = f, !.usage = u]
  BY DEF AddDelta, longer
<1> HIDE DEF b, d
<1>7. /\ d.reasoning = b.reasoning /\ d.content = b.content /\ d.calls = b.calls
      /\ d.order = b.order /\ d \in Like(d)
  BY <1>5, <1>6 DEF Like
<1>8. b.reasoning = longer.reasoning /\ b.content = longer.content
  BY <1>5 DEF Like
<1>9. Accumulates(ds \o DeltasIn(c.frags), d)
  BY <1>5, <1>7 DEF Accumulates
<1> QED BY <1>1, <1>7, <1>8, <1>9 DEF d

-----------------------------------------------------------------------------
(***************************************************************************)
(* The steps.                                                               *)
(***************************************************************************)

\* The meaning of a body depends on the client and its mode only, which stay.
LEMMA InvAfter ==
  ASSUME AnswerInv, After
  PROVE  AnswerInv'
<1>1. wire' = wire /\ streams' = streams
  BY DEF After
<1>2. Deltas(body)' = Deltas(body')
  BY <1>1 DEF Deltas, DeltasIn
<1>3. CallsMeant(body)' = CallsMeant(body')
  BY <1>1, <1>2 DEF CallsMeant, Completed
<1>4. Refused(CallsMeant(body))' <=> Refused(CallsMeant(body'))
  BY <1>1, <1>3 DEF Refused
<1>5. Reasoning(body)' = Reasoning(body') /\ Content(body)' = Content(body')
  BY DEF Reasoning, Content
<1>6. Assembled(body, stage, why, response)' <=> Assembled(body', stage', why', response')
  BY <1>1, <1>3, <1>4, <1>5 DEF Assembled
<1>7. FoldedInto(body, acc)' <=> FoldedInto(body', acc')
  BY <1>2, <1>5 DEF FoldedInto
<1>8. Sound(body, acc, stage, why, response)'
  BY <1>1, <1>6, <1>7 DEF After, Sound
<1> QED BY <1>1, <1>8 DEF AnswerInv

\* A request sent, or not, leaves the answer unread.
LEMMA PostAnswer ==
  ASSUME AnswerInv, Post
  PROVE  After
<1>1. /\ stage = "post" /\ wire' = wire /\ streams' = streams /\ body' = body /\ acc' = acc
      /\ \/ stage' \in {"read", "post"}
         \/ stage' = "failed" /\ why' = "infra"
  BY DEF Post
<1>2. Assembled(body', stage', why', response')
  BY <1>1 DEF Assembled
<1> QED BY <1>1, <1>2 DEF AnswerInv, After, Sound

\* A failed read gives the reason that is always allowed.
LEMMA ReadFailsAnswer ==
  ASSUME AnswerInv, ReadFails
  PROVE  After
<1>1. /\ wire' = wire /\ streams' = streams /\ body' = body /\ acc' = acc
      /\ stage' = "failed" /\ why' = "infra"
  BY DEF ReadFails
<1>2. Assembled(body', stage', why', response')
  BY <1>1 DEF Assembled
<1> QED BY <1>1, <1>2 DEF AnswerInv, After, Sound

\* A chunk is folded, and a limit it passes is passed by the message meant.
LEMMA ReadChunkAnswer ==
  ASSUME AnswerInv, ReadChunk
  PROVE  After
<1>1. PICK c \in Chunks[wire] :
        /\ body' = Append(body, c) /\ acc' = AddDelta(acc, c)
        /\ IF TooLong(acc') THEN stage' = "failed" /\ why' = "long"
           ELSE stage' = IF c.done THEN "respond" ELSE "read"
  BY DEF ReadChunk
<1>2. wire' = wire /\ streams' = streams /\ stage = "read" /\ streams
  BY DEF ReadChunk
<1>3. body \in Seq(AnyChunk) /\ acc \in Like(acc) /\ FoldedInto(body, acc)
  BY <1>2 DEF AnswerInv, Sound
<1>4. c \in AnyChunk
  BY <1>1, ChunksTyped DEF AnswerInv
<1>5. PICK bs : bs = body'
  OBVIOUS
<1>6. PICK a : a = acc'
  OBVIOUS
<1>7. bs \in Seq(AnyChunk) /\ bs # <<>>
  BY <1>1, <1>3, <1>4, <1>5
<1>8. a \in Like(a) /\ FoldedInto(bs, a)
  <2>1. streams \in BOOLEAN
    BY DEF AnswerInv
  <2>2. /\ Reasoning(bs) = Reasoning(body) \o c.reasoning
        /\ Content(bs) = Content(body) \o c.content
        /\ Deltas(bs) = Deltas(body) \o DeltasIn(c.frags) /\ Deltas(body) \in Seq(Delta)
    BY <1>1, <1>3, <1>4, <1>5, <2>1, BodyAppend
  <2>3. /\ acc.reasoning = Reasoning(body) /\ acc.content = Content(body)
        /\ Accumulates(Deltas(body), acc)
    BY <1>3 DEF FoldedInto
  <2>4. PICK ds \in Seq(Delta) : ds = Deltas(body)
    BY <2>2
  <2>5. /\ a \in Like(a) /\ a.reasoning = acc.reasoning \o c.reasoning
        /\ a.content = acc.content \o c.content
        /\ Accumulates(ds \o DeltasIn(c.frags), a)
    BY <1>1, <1>2, <1>3, <1>4, <1>6, <2>3, <2>4, AddDeltaIs
  <2> QED BY <2>2, <2>3, <2>4, <2>5 DEF FoldedInto
<1>9. CASE TooLong(a)
  <2>1. stage' = "failed" /\ why' = "long"
    BY <1>1, <1>6, <1>9
  <2>2. (\E i \in DOMAIN CallsMeant(bs) : Len(CallsMeant(bs)[i].args) > MaxLen)
          <=> (\E i \in DOMAIN a.calls : Len(a.calls[i].args) > MaxLen)
    BY <1>8, CallsFolded DEF FoldedInto
  <2>3. \/ Len(Reasoning(bs)) > MaxLen \/ Len(Content(bs)) > MaxLen
        \/ \E i \in DOMAIN CallsMeant(bs) : Len(CallsMeant(bs)[i].args) > MaxLen
    BY <1>8, <1>9, <2>2 DEF TooLong, FoldedInto
  <2>4. Assembled(bs, stage', why', response')
    BY <2>1, <2>3 DEF Assembled
  <2>5. Sound(bs, a, stage', why', response')
    BY <1>7, <1>8, <2>1, <2>4 DEF Sound
  <2> QED BY <1>2, <1>5, <1>6, <2>5 DEF After
<1>10. CASE ~TooLong(a)
  <2>1. stage' \in {"respond", "read"}
    BY <1>1, <1>6, <1>10
  <2>2. Assembled(bs, stage', why', response')
    BY <2>1 DEF Assembled
  <2>3. Sound(bs, a, stage', why', response')
    BY <1>2, <1>7, <1>8, <1>10, <2>1, <2>2 DEF Sound
  <2> QED BY <1>2, <1>5, <1>6, <2>3 DEF After
<1> QED BY <1>9, <1>10

\* A stream that held no chunk is refused as empty.
LEMMA StreamEndsAnswer ==
  ASSUME AnswerInv, StreamEnds
  PROVE  After
<1>1. /\ stage = "read" /\ streams
      /\ wire' = wire /\ streams' = streams /\ body' = body /\ acc' = acc
      /\ \/ body # <<>> /\ stage' = "respond"
         \/ body = <<>> /\ stage' = "failed" /\ why' = "empty"
  BY DEF StreamEnds
<1>2. Assembled(body', stage', why', response')
  BY <1>1 DEF Assembled
<1> QED BY <1>1, <1>2 DEF AnswerInv, After, Sound

\* A message that means the body is returned, or refused for a call it holds.
LEMMA ReturnAssembles ==
  ASSUME NEW bs, NEW message, message.calls = CallsMeant(bs), bs # <<>>, Return(message),
         message.reasoning = Reasoning(bs), message.content = Content(bs),
         streams => ~TooLong(message)
  PROVE  Assembled(bs, stage', why', response') /\ stage' \in {"failed", "returned"}
<1>1. CASE Refused(message.calls)
  <2>1. stage' = "failed" /\ why' = "refused"
    BY <1>1 DEF Return
  <2> QED BY <1>1, <2>1 DEF Assembled
<1>2. CASE ~Refused(message.calls)
  <2>1. stage' = "returned" /\ response' = message
    BY <1>2 DEF Return
  <2> QED BY <1>2, <2>1 DEF Assembled
<1> QED BY <1>1, <1>2

\* The accumulator answers with the message its chunks mean.
LEMMA RespondAnswer ==
  ASSUME AnswerInv, Respond
  PROVE  After
<1> DEFINE message == [reasoning |-> acc.reasoning, content |-> acc.content,
                       calls |-> CompletedCalls(acc), finish |-> acc.finish,
                       usage |-> acc.usage]
<1>1. /\ stage = "respond" /\ Return(message)
      /\ wire' = wire /\ streams' = streams /\ body' = body /\ acc' = acc
  BY DEF Respond, CompletedCalls
<1>2. /\ message.reasoning = acc.reasoning /\ message.content = acc.content
      /\ message.calls = CompletedCalls(acc)
  OBVIOUS
<1> HIDE DEF message
<1>3. /\ body # <<>> /\ streams /\ ~TooLong(acc) /\ acc \in Like(acc)
      /\ FoldedInto(body, acc)
  BY <1>1 DEF AnswerInv, Sound
<1>4. PICK a : a = acc
  OBVIOUS
<1>5. PICK bs : bs = body
  OBVIOUS
<1>6. /\ CompletedCalls(a) = CallsMeant(bs)
      /\ (\E i \in DOMAIN CallsMeant(bs) : Len(CallsMeant(bs)[i].args) > MaxLen)
           <=> (\E i \in DOMAIN a.calls : Len(a.calls[i].args) > MaxLen)
  BY <1>3, <1>4, <1>5, CallsFolded DEF FoldedInto
<1>7. ~TooLong(message)
  BY <1>2, <1>3, <1>4, <1>6 DEF TooLong
<1>8. Assembled(bs, stage', why', response') /\ stage' \in {"failed", "returned"}
  <2>1. /\ message.calls = CallsMeant(bs) /\ message.reasoning = Reasoning(bs)
        /\ message.content = Content(bs) /\ bs # <<>>
    BY <1>2, <1>3, <1>4, <1>5, <1>6 DEF FoldedInto
  <2> QED BY <1>1, <1>7, <2>1, ReturnAssembles
<1> QED BY <1>1, <1>3, <1>5, <1>8 DEF AnswerInv, After, Sound

\* A whole answer is converted to the message it means.
LEMMA NeutralAssembles ==
  ASSUME AnswerInv, ~streams, NEW c \in Chunks[wire], Return(Neutral(c))
  PROVE  Assembled(<<c>>, stage', why', response') /\ stage' \in {"failed", "returned"}
<1>1. streams = FALSE /\ c \in AnyChunk
  BY ChunksTyped DEF AnswerInv
<1>2. /\ Reasoning(<<c>>) = c.reasoning /\ Content(<<c>>) = c.content
      /\ CallsMeant(<<c>>) = NeutralCalls(c)
  BY <1>1, WholeMeant
<1>3. /\ Neutral(c).reasoning = c.reasoning /\ Neutral(c).content = c.content
      /\ Neutral(c).calls = NeutralCalls(c)
  BY DEF Neutral
<1>4. PICK bs : bs = <<c>>
  OBVIOUS
<1>5. bs # <<>>
  BY <1>4
<1>6. Assembled(bs, stage', why', response') /\ stage' \in {"failed", "returned"}
  BY <1>1, <1>2, <1>3, <1>4, <1>5, ReturnAssembles
<1> QED BY <1>4, <1>6

\* openai's whole answer.
LEMMA ChatOpenAIAnswer ==
  ASSUME AnswerInv, ChatOpenAI
  PROVE  After
<1>1. PICK c \in Chunks[wire] : body' = <<c>> /\ Return(Neutral(c))
  BY DEF ChatOpenAI
<1>2. ~streams /\ wire' = wire /\ streams' = streams /\ acc' = acc /\ c \in AnyChunk
  BY ChunksTyped DEF ChatOpenAI, AnswerInv
<1>3. Assembled(body', stage', why', response') /\ stage' \in {"failed", "returned"}
  BY <1>1, <1>2, NeutralAssembles
<1>4. body' \in Seq(AnyChunk)
  BY <1>1, <1>2
<1> QED BY <1>2, <1>3, <1>4 DEF AnswerInv, After, Sound

\* ollama's whole answer, which has to be marked done.
LEMMA ChatOllamaAnswer ==
  ASSUME AnswerInv, ChatOllama
  PROVE  After
<1>1. PICK c \in Chunks[wire] :
        /\ body' = <<c>>
        /\ IF c.done THEN Return(Neutral(c)) ELSE stage' = "failed" /\ why' = "infra"
  BY DEF ChatOllama
<1>2. ~streams /\ wire' = wire /\ streams' = streams /\ acc' = acc /\ c \in AnyChunk
  BY ChunksTyped DEF ChatOllama, AnswerInv
<1>3. Assembled(body', stage', why', response') /\ stage' \in {"failed", "returned"}
  <2>1. CASE c.done
    <3>1. Return(Neutral(c))
      BY <1>1, <2>1
    <3> QED BY <1>1, <1>2, <3>1, NeutralAssembles
  <2>2. CASE ~c.done
    <3>1. stage' = "failed" /\ why' = "infra"
      BY <1>1, <2>2
    <3> QED BY <3>1 DEF Assembled
  <2> QED BY <2>1, <2>2
<1>4. body' \in Seq(AnyChunk)
  BY <1>1, <1>2
<1> QED BY <1>2, <1>3, <1>4 DEF AnswerInv, After, Sound

\* Nothing is folded from no chunk.
LEMMA NothingFolded ==
  FoldedInto(<<>>, NewAccumulator) /\ NewAccumulator \in Like(NewAccumulator)
<1> DEFINE a == NewAccumulator
<1>1. /\ a.reasoning = <<>> /\ a.content = <<>> /\ a.order = <<>>
      /\ a.calls = [i \in {} |-> i] /\ DOMAIN a.calls = {}
  BY DEF NewAccumulator
<1>2. a.calls \in CallMaps
  <2>1. a.calls \in [{} -> Call]
    BY <1>1
  <2> QED BY <2>1 DEF CallMaps
<1>3. a \in Like(a)
  BY <1>2 DEF Like, NewAccumulator
<1>4. Began(<<>>) = <<>>
  <2>1. [k \in DOMAIN <<>> |-> IF \A j \in 1 .. (k - 1) : <<>>[j].index # <<>>[k].index
                              THEN <<<<>>[k].index>> ELSE <<>>] = <<>>
    OBVIOUS
  <2> QED BY <2>1, FlattenEmpty DEF Began
<1>5. \A idx : DeltasOf(<<>>, idx) = <<>>
  <2> SUFFICES ASSUME NEW idx PROVE DeltasOf(<<>>, idx) = <<>>
    OBVIOUS
  <2>1. [k \in DOMAIN <<>> |-> IF <<>>[k].index = idx THEN <<<<>>[k].frag>> ELSE <<>>] = <<>>
    OBVIOUS
  <2> QED BY <2>1, FlattenEmpty DEF DeltasOf
<1>6. Indices(<<>>) = {} /\ ToSet(<<>>) = {}
  BY DEF Indices, ToSet
<1>7. Accumulates(<<>>, a)
  BY <1>1, <1>4, <1>5, <1>6 DEF Accumulates
<1>8. FoldedInto(<<>>, a)
  BY <1>1, <1>7, BodyEmpty DEF FoldedInto
<1> QED BY <1>3, <1>8

\* The invariant holds of an answer not yet asked for.
LEMMA AnswerInitInv == AnswerInit => AnswerInv
<1> SUFFICES ASSUME AnswerInit PROVE AnswerInv
  OBVIOUS
<1>1. /\ body = <<>> /\ acc = NewAccumulator /\ stage = "post"
      /\ wire \in DOMAIN Chunks /\ streams \in BOOLEAN
  BY DEF AnswerInit
<1>2. ~TooLong(NewAccumulator)
  <2>1. NewAccumulator.reasoning = <<>> /\ NewAccumulator.content = <<>>
        /\ DOMAIN NewAccumulator.calls = {}
    BY DEF NewAccumulator
  <2>2. Len(<<>>) = 0 /\ ~ (0 > MaxLen)
    BY StreamsAssumption
  <2> QED BY <2>1, <2>2 DEF TooLong
<1>3. Assembled(body, stage, why, response)
  BY <1>1 DEF Assembled
<1>4. body \in Seq(AnyChunk)
  BY <1>1
<1>5. Sound(body, acc, stage, why, response)
  BY <1>1, <1>2, <1>3, <1>4, NothingFolded DEF Sound
<1> QED BY <1>1, <1>5 DEF AnswerInv

\* Every step keeps it.
LEMMA AnswerStep ==
  ASSUME AnswerInv, [AnswerNext]_answerVars
  PROVE  AnswerInv'
<1>1. CASE UNCHANGED answerVars
  <2>1. /\ wire' = wire /\ streams' = streams /\ body' = body /\ acc' = acc
        /\ stage' = stage /\ why' = why /\ response' = response
    BY <1>1 DEF answerVars
  <2>2. After
    BY <2>1 DEF AnswerInv, After
  <2> QED BY <2>2, InvAfter
<1>2. CASE AnswerNext
  BY <1>2, PostAnswer, ReadFailsAnswer, ReadChunkAnswer, StreamEndsAnswer, RespondAnswer,
     ChatOpenAIAnswer, ChatOllamaAnswer, InvAfter DEF AnswerNext
<1> QED BY <1>1, <1>2

\* StreamAssembled: whatever chunks a body is cut into and however its calls are
\* interleaved, what is returned is the text and the calls they hold, the same from a
\* stream as from a whole body, and an answer is refused only for a reason it gives
\* (openai.go and ollama/client.go Chat, addDelta, response, readStream).
THEOREM AnswersAreAssembled == AnswerSpec => []StreamAssembled
<1>1. AnswerInv /\ [AnswerNext]_answerVars => AnswerInv'
  BY AnswerStep
<1>2. AnswerInv => StreamAssembled
  BY DEF AnswerInv, Sound, Assembled, StreamAssembled
<1> QED BY AnswerInitInv, <1>1, <1>2, PTL DEF AnswerSpec
=============================================================================

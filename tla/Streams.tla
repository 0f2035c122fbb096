------------------------------ MODULE Streams ------------------------------
(***************************************************************************)
(* How an LLM client reads one answer (internal/llm/openai/openai.go and    *)
(* internal/llm/ollama/client.go, types.go): the request is sent, once more *)
(* when the connection turns out to be closed, and the body comes back      *)
(* whole or as a stream of chunks that the accumulator folds into one       *)
(* message.  A text or an argument list is a sequence of pieces; deltas are *)
(* passed on exactly as they are folded, lines that are no chunk are        *)
(* skipped.                                                                 *)
(***************************************************************************)
EXTENDS Integers, SequencesExt

CONSTANTS Chunks,       \* external: per client, what a line of a body may hold
          MaxChunks,    \* bound: the chunks of one body
          MaxLen,       \* maxContentLen, in pieces
          NoIndex       \* ollama: a nil Index

\* What a chunk holds; a finish reason or a text that is "" or <<>> is not there.
Frag(indices) == [index : indices, id : STRING, name : STRING, args : Seq(STRING)]
Chunk(indices) ==
  [reasoning : Seq(STRING), content : Seq(STRING), frags : Seq(Frag(indices)),
   finish : STRING, usage : Int, done : BOOLEAN]

ASSUME StreamsAssumption ==
  /\ MaxChunks \in Nat /\ MaxLen \in Nat \ {0}
  /\ DOMAIN Chunks = {"openai", "ollama"}
  /\ Chunks["openai"] \subseteq Chunk(Int)
  /\ Chunks["ollama"] \subseteq Chunk(Int \cup {NoIndex})

VARIABLES wire,         \* the client: "openai" or "ollama"
          streams,      \* is it ChatStream (else Chat)
          attempts,     \* requests sent
          body,         \* the chunks read
          acc,          \* streamAccumulator
          stage,        \* "post", "read", "respond", "returned" or "failed"
          why,          \* why it failed: "none", "infra", "empty", "long" or "refused"
          response      \* what was returned

answerVars == <<wire, streams, attempts, body, acc, stage, why, response>>

NoMessage == [reasoning |-> <<>>, content |-> <<>>, calls |-> <<>>, finish |-> "", usage |-> 0]

\* newStreamAccumulator; calls is the map of the calls begun.
NewAccumulator ==
  [reasoning |-> <<>>, content |-> <<>>, calls |-> [i \in {} |-> i], order |-> <<>>,
   finish |-> "", usage |-> 0]

AnswerInit ==
  /\ wire \in DOMAIN Chunks /\ streams \in BOOLEAN
  /\ attempts = 0 /\ body = <<>> /\ acc = NewAccumulator
  /\ stage = "post" /\ why = "none" /\ response = NoMessage

\* post: a request that ends in io.EOF is sent once more, any other error is final.
Post ==
  /\ stage = "post"
  /\ attempts' = attempts + 1
  /\ \/ stage' = "read" /\ UNCHANGED why
     \/ attempts = 0 /\ UNCHANGED <<stage, why>>
     \/ stage' = "failed" /\ why' = "infra"
  /\ UNCHANGED <<wire, streams, body, acc, response>>

\* The status is not 2xx, the connection breaks, a body is cut short or beyond
\* maxBodyLen, the callback of a delta fails.
ReadFails ==
  /\ stage = "read"
  /\ stage' = "failed" /\ why' = "infra"
  /\ UNCHANGED <<wire, streams, attempts, body, acc, response>>
-----------------------------------------------------------------------------
(***************************************************************************)
(* The stream.                                                              *)
(***************************************************************************)
AtPosition(frag, i) == i - 1                                    \* mutant
\* ollama leaves the index out where it is the position in the chunk.
IndexOf(frag, i) == IF frag.index = NoIndex THEN i - 1 ELSE frag.index

Kept(new, old) == IF new # "" THEN new ELSE old

\* The first fragment of an index makes the call; later ones add to it.
AddFragment(a, idx, frag) ==
  LET begun == idx \in DOMAIN a.calls
      old == a.calls[idx]
      new == IF begun THEN [id |-> Kept(frag.id, old.id), name |-> Kept(frag.name, old.name),
                            args |-> old.args \o frag.args]
             ELSE [id |-> frag.id, name |-> frag.name, args |-> frag.args]
  IN  [a EXCEPT !.calls = [i \in DOMAIN a.calls \cup {idx} |-> IF i = idx THEN new ELSE @[i]],
                !.order = IF begun THEN @ ELSE Append(@, idx)]

\* The fragments of a chunk, one after the other.
AddFragments(a, frags) ==
  LET Added[i \in 0 .. Len(frags)] ==
        IF i = 0 THEN a ELSE AddFragment(Added[i - 1], IndexOf(frags[i], i), frags[i])
  IN  Added[Len(frags)]

\* mapFinishReason
FinishOf(reason) ==
  IF wire = "openai" \/ reason \in {"length", "tool_calls"} THEN reason ELSE "stop"

AddDelta(a, chunk) ==
  LET text == [a EXCEPT !.reasoning = @ \o chunk.reasoning, !.content = @ \o chunk.content]
      ends == IF wire = "ollama" THEN chunk.done ELSE chunk.finish # ""
  IN  [AddFragments(text, chunk.frags) EXCEPT
         !.finish = IF ends THEN FinishOf(chunk.finish) ELSE @,
         !.usage = IF (wire = "ollama" /\ chunk.done) \/ (wire = "openai" /\ chunk.usage # 0)
                     THEN chunk.usage ELSE @]

TooLong(a) ==
  \/ Len(a.reasoning) > MaxLen \/ Len(a.content) > MaxLen
  \/ \E i \in DOMAIN a.calls : Len(a.calls[i].args) > MaxLen

\* A line of the stream; ollama's loop ends with the chunk marked done.
ReadChunk ==
  /\ stage = "read" /\ streams /\ Len(body) < MaxChunks
  /\ \E chunk \in Chunks[wire] :
       /\ body' = Append(body, chunk)
       /\ acc' = AddDelta(acc, chunk)
       /\ IF TooLong(acc') THEN stage' = "failed" /\ why' = "long"
          ELSE stage' = (IF chunk.done THEN "respond" ELSE "read") /\ UNCHANGED why
  /\ UNCHANGED <<wire, streams, attempts, response>>

\* The body ends, or openai's [DONE] ends it; sawData tells whether it held a chunk.
StreamEnds ==
  /\ stage = "read" /\ streams
  /\ IF body # <<>> THEN stage' = "respond" /\ UNCHANGED why
     ELSE stage' = "failed" /\ why' = "empty"
  /\ UNCHANGED <<wire, streams, attempts, body, acc, response>>
-----------------------------------------------------------------------------
(***************************************************************************)
(* The response.                                                            *)
(***************************************************************************)
IdMadeUp == "call_"
NoArgs == <<"{}">>

\* ollama sends no ids and may leave arguments out.
Completed(call) ==
  IF wire = "openai" THEN call
  ELSE [call EXCEPT !.id = IF @ = "" THEN IdMadeUp ELSE @,
                    !.args = IF @ = <<>> THEN NoArgs ELSE @]

\* The calls in the order in which they began.
InOrder(a) == [i \in DOMAIN a.order |-> a.calls[a.order[i]]]

Refused(calls) ==
  \E i \in DOMAIN calls : calls[i].name = "" \/ (wire = "openai" /\ calls[i].id = "")

Return(message) ==
  /\ IF Refused(message.calls) THEN stage' = "failed" /\ why' = "refused" /\ UNCHANGED response
     ELSE stage' = "returned" /\ response' = message /\ UNCHANGED why

Respond ==
  /\ stage = "respond"
  /\ LET calls == InOrder(acc)
     IN  Return([reasoning |-> acc.reasoning, content |-> acc.content,
                 calls |-> [i \in DOMAIN calls |-> Completed(calls[i])],
                 finish |-> acc.finish, usage |-> acc.usage])
  /\ UNCHANGED <<wire, streams, attempts, body, acc>>

NeutralCalls(chunk) ==
  [i \in DOMAIN chunk.frags |-> LET f == chunk.frags[i]
                                IN  Completed([id |-> f.id, name |-> f.name, args |-> f.args])]

\* neutralMessage and neutralResponse: a whole answer, converted as it is.
Neutral(chunk) ==
  [reasoning |-> chunk.reasoning, content |-> chunk.content, calls |-> NeutralCalls(chunk),
   finish |-> FinishOf(chunk.finish), usage |-> chunk.usage]

\* Chat: one body that holds the whole answer.
ChatOpenAI ==
  /\ stage = "read" /\ ~streams /\ wire = "openai"
  /\ \E chunk \in Chunks[wire] : body' = <<chunk>> /\ Return(Neutral(chunk))
  /\ UNCHANGED <<wire, streams, attempts, acc>>

\* A body that is not marked done is an error.
ChatOllama ==
  /\ stage = "read" /\ ~streams /\ wire = "ollama"
  /\ \E chunk \in Chunks[wire] :
       /\ body' = <<chunk>>
       /\ IF chunk.done THEN Return(Neutral(chunk))
          ELSE stage' = "failed" /\ why' = "infra" /\ UNCHANGED response
  /\ UNCHANGED <<wire, streams, attempts, acc>>

AnswerNext == Post \/ ReadFails \/ ReadChunk \/ StreamEnds \/ Respond \/ ChatOpenAI \/ ChatOllama

AnswerSpec == AnswerInit /\ [][AnswerNext]_answerVars
-----------------------------------------------------------------------------
(***************************************************************************)
(* The message the chunks of a body hold, read off all of them at once.     *)
(***************************************************************************)
Reasoning(chunks) == FlattenSeq([n \in DOMAIN chunks |-> chunks[n].reasoning])
Content(chunks) == FlattenSeq([n \in DOMAIN chunks |-> chunks[n].content])

\* The fragments with the index each is for: its own, or its place.  In a whole answer
\* every one is a call of its own.
DeltasIn(frags) ==
  [i \in DOMAIN frags |->
     [index |-> IF streams /\ frags[i].index # NoIndex THEN frags[i].index ELSE i - 1,
      frag |-> frags[i]]]
Deltas(chunks) == FlattenSeq([n \in DOMAIN chunks |-> DeltasIn(chunks[n].frags)])

DeltasOf(deltas, idx) ==
  FlattenSeq([k \in DOMAIN deltas |->
    IF deltas[k].index = idx THEN <<deltas[k].frag>> ELSE <<>>])

\* The indices in the order of their first fragments.
Began(deltas) ==
  FlattenSeq([k \in DOMAIN deltas |->
    IF \A j \in 1 .. (k - 1) : deltas[j].index # deltas[k].index THEN <<deltas[k].index>>
    ELSE <<>>])

LastGiven(texts) ==
  LET given == FlattenSeq([i \in DOMAIN texts |->
                 IF texts[i] # "" THEN <<texts[i]>> ELSE <<>>])
  IN  IF given = <<>> THEN "" ELSE Last(given)

CallFrom(frags) ==
  [id |-> LastGiven([i \in DOMAIN frags |-> frags[i].id]),
   name |-> LastGiven([i \in DOMAIN frags |-> frags[i].name]),
   args |-> FlattenSeq([i \in DOMAIN frags |-> frags[i].args])]

CallsMeant(chunks) ==
  LET deltas == Deltas(chunks)
  IN  [i \in DOMAIN Began(deltas) |-> Completed(CallFrom(DeltasOf(deltas, Began(deltas)[i])))]

\* What is returned is the text of every chunk in order and, per index, one call with
\* every piece of its arguments, however chunks are cut and calls interleaved, and the
\* same from a stream as from one whole body; a stream holds nothing longer than the
\* limit; a body is refused only for a reason it gives (openai.go and ollama/client.go
\* Chat, addDelta, response, readStream).
StreamAssembled ==
  /\ stage = "returned" =>
       /\ response.reasoning = Reasoning(body) /\ response.content = Content(body)
       /\ response.calls = CallsMeant(body)
       /\ body # <<>> /\ ~Refused(CallsMeant(body)) /\ (streams => ~TooLong(response))
  /\ stage = "failed" =>
       \/ why = "infra"
       \/ why = "empty" /\ body = <<>>
       \/ why = "refused" /\ Refused(CallsMeant(body))
       \/ /\ why = "long"
          /\ \/ Len(Reasoning(body)) > MaxLen \/ Len(Content(body)) > MaxLen
             \/ \E i \in DOMAIN CallsMeant(body) : Len(CallsMeant(body)[i].args) > MaxLen
=============================================================================

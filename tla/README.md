# A TLA+ verification of blorb

blorb is a Go command-line agent. It holds a conversation with a language model,
runs the tools the model calls, and puts that engine behind several frontends: a
terminal chat, a one-shot run, the rooms of the Band chat platform and a voice
console. A session may be traced to a second platform, Prefactor, which may also ask
that it stop.

This directory models the parts of that program in which something can go wrong over
several steps or several actors, model-checks them on small instances with TLC, and
proves properties of the engine, the Band runner, room and socket, the chat, the one-shot
run, the voice session and agents that run agents for all instances with TLAPS. All
paths are relative to the repository.

1. [The system](#the-system)
2. [The modules](#the-modules)
3. [What is checked](#what-is-checked)
4. [Where code and documents disagree](#where-code-and-documents-disagree)
5. [What is proved](#what-is-proved)
6. [Assumptions about the outside](#assumptions-about-the-outside)
7. [What is not modelled](#what-is-not-modelled)
8. [Plan](#plan)

## The system

```
  main.go ──> chat  ──┐                        ┌──> llm (openai, ollama)
         ──> run   ──┤── prefactor wrapper ──> engine ──> tools ──> command, builtin,
         ──> band  ──┘   (chat/tracewrap.go)    │                     band_* tools,
              │                                 └── onEvent ──> printers, spans, usage
              ├─ run.go: one pump goroutine            subagent, decider ──> engine ...
              ├─ room.go: one worker goroutine per room
              └─ socket.go ──> ws                      judges ──> engine, after a run
         ──> voice ──> ws, tools, console
```

| Component | State | Operations | Hard behaviour | Correct when |
|---|---|---|---|---|
| **Turn engine** `engine/engine.go` | history; calls made; RunTurn's locals | `RunTurn` (call, tools, repeat), `SeedHistory`, `History` | any call may fail, between a tool call and its result too; the per-turn budget; force mode over several rounds | every request is one a provider accepts; a failed turn leaves no trace; the budget holds; the forced tool is called; turns end |
| **Band room** `band/room.go` | seen ids (bounded), history, trace session, `sentThisTurn` | `Handle`, `seedHistory`, drain, fallback send | duplicate pushes; every platform call may fail; stops, kills and restarts at any point | a mention is claimed once, shown to the model once, answered or reported, and left claimed if cut short |
| **Band runner** `band/run.go` | room map, workers, queues, session | connect, join, drain, pump, dispatch, dropRoom, shutdown | one pump blocking on full queues; reconnects; rooms coming and going; turns that never end | one worker per room; every message of a joined room is served; `Run` returns after a stop; a traced session that is over stays over |
| **Prefactor tracer** `prefactor/tracer.go`, `client.go` | latches started, terminated, finished; open spans | start, spans, finish | lost answers, retries, a termination in any answer | nothing begins after a termination; spans and instance get the right outcome |
| **Tracing wrapper** `chat/tracewrap.go` | open LLM span, queue of open tool spans | wraps the LLM client and the event callback | every way out of a call has to close its span | no span left open; a stop is passed on |
| **Chat session** `chat/chat.go` | `cancelTurn`, `interrupted`, exit channel | read a line, `runTurn`, signals, judges, finish | the signal goroutine races with the turn's end | Ctrl-C cancels the turn; an exit request is carried out; the outcome is recorded |
| **One-shot run** `run/run.go` | the run's error | one turn, judges, exit code | the order in which one outcome decides span, instance, judges and exit code | they agree |
| **Band socket** `band/socket.go`, **websocket** `ws` | pending refs, join refs, bounded events | join, leave, heartbeat, read loop | replies against callers that gave up; concurrent writers | a caller gets its own reply or an error; the socket dies once |
| **Voice session** `voice` | pending tool results, last event, echo gate, console mutex | read loop, mic loop, `End`, `Close` | results held until `reply.done`; tools run on the read loop | a result is sent once, at the right time; a second Ctrl-C always ends it |
| **Tools** `tools` | registry | `Run` with timeout | process groups, output limits | every call returns |
| **Nested agents** `engine/subagent.go`, `judge.go`, `decider.go` | usage collected | `RunSubagent`, `RunJudges` (recursive), `RunDecider` | recursion without a limit of its own; callbacks that relay usage; failures and cancellation between judges | no agent runs below itself; usage is accounted for; outcomes come in order |
| **Configuration** `config` | none after loading | `Load`, `Validate`, `AgentTools` | toolset expansion and cycle check | delegation terminates; names are unique |
| **LLM clients** `llm/openai`, `llm/ollama` | stream accumulator | `Chat`, `ChatStream` | fragments of parallel tool calls; a stream that ends early | a response holds what the body says, streamed or whole |
| **Usage**, **logging**, **printers**, **CLI** | records; last timestamp; none | sums, files, formatting | the account is not safe for concurrent use | sums are right; names are unique |

They meet in four ways. Frontends call the engine and get events back through a
callback in the same goroutine. The tracing wrapper sits between the engine and the
client, so that a tracing failure becomes a failure of the turn. The Band runner and
its workers share the room map (pump only), the queues (channels), the usage account
(unlocked), the trace session (`traceSession`, opened once) and the tracer's latches (a
mutex). Chat's main and signal
goroutines share `cancelTurn` and `interrupted` under a mutex and an exit channel.

`PROJECT.json` lists the hazards of this code line by line, with the properties that
cover each or the reason why none does.

## The modules

Two abstract specifications, `Conversation` and `Mentions`, say what a component
promises; `Engine` and `BandRoom` are checked against them by refinement, and `Engine`
is proved to implement its one.

| Module | Models | Correspondence |
|---|---|---|
| `Messages` | `llm.Message`, `ToolCall` | Texts are "is there any", arguments "do they decode". `WellFormed` is what a chat-completions provider accepts. |
| `Conversation` | (abstract) | A turn appends one complete exchange or nothing. |
| `Engine` | `engine.go` | `pc` stands between the calls that can fail; one action per piece of `RunTurn`, `call`, `runToolCalls` between two of them; `Fail` is the deferred rollback with `repairUnansweredToolCalls`. |
| `MCEngine` | | the small instances of `Engine` |
| `EngineProofs` | | theorems about `Engine` and about `Streams` |
| `Mentions` | (abstract, external) | the life of a mention in the platform's queue |
| `BandRoom` | `room.go`, `serveRoom` and `drainRoom` of `run.go`, `trace.go` | `Take` is `seenMessage`; `MarkProcessing` to `RunJudges` are `Handle` from one platform or tracing call to the next; a call is done, done with the answer lost, or refused. `lives` counts processes: `Restart` forgets all but the platform's view. `DrainFails` is the error of `NextMessage`, which ends the connection at startup and is only logged after `room_added`. |
| `BandRoomProofs` | | theorems about `BandRoom`, and that it implements `Mentions` |
| `BandRunner` | `run.go`, with the socket's event channel | `pc` is the pump goroutine, `wpc[w]` a worker's. A turn is what the runner and its session can tell of it (the rest is `BandRoom`'s): claimed, its span begun, run, ended, and `SeesVerdict` in between when an answer of the tracing platform ends the session (`observed`, the tracer's latch), which `Terminate` passes on to `Run` later. `rooms` is the room map, `cancelled` the workers' contexts, `held` the message `enqueue` blocks on. |
| `MCBandRunner` | | symmetry of the rooms |
| `BandRunnerProofs` | | theorems about `BandRunner` |
| `Tracer` | `prefactor` and the platform | one operator per tracing call, relating latches, instance and spans before and after to the caller's result |
| `TracedTurn` | `tracewrap.go`, and `RunTurn` as tracing sees it | phases of one turn; extends `Tracer` |
| `Chat` | `chat.go` | main goroutine (`MainStep`), signal goroutine (`TakeSignal` under the mutex, `ActOnSignal` after it), the user; extends `TracedTurn` |
| `RunOnce` | `run.go`, exit codes of `main.go` | one traced turn and what its outcome decides; extends `TracedTurn` |
| `TracedProofs` | | lemmas about `Tracer` and `TracedTurn`, and theorems about both compositions, `Chat` and `RunOnce` |
| `WsConn` | `ws` | one reader and several writers of a connection. A write is `Call` (set the deadline, take or wait for the lock), `WriteEnds` and `Collect` (release, clear the deadline); `ReadPart`, `ReadLast`, `ReadPing` and `ReadPong` are the turns of `ReadMessage`'s loop. The peer may stop taking what we write. |
| `BandSocket` | `socket.go`, with `connectAndServe` and `pumpUntilDead` as its user | `Pump` is the caller (`Connect`, `Join` to `JoinEnds` for a round trip, `Serve`, `CloseBegins`), `Heart` is `heartbeatLoop`, `ReadLoop` is `readLoop` with `routeReply` split where it releases `pendingMu`; extends `WsConn` |
| `BandSocketProofs` | | theorems about `BandSocket` and the connection under it |
| `Voice` | `voice/client.go`, `session.go` | `reader` stands in `readLoop` between the calls that block (player, tool, sends, the events channel), `mic` in `micLoop` (capture, look at the gate, send), `loop` in `Run`, `ender` is the goroutine of `End`. `ConsoleFree` is the console's mutex, which `runTool` holds. |
| `VoiceProofs` | | theorems about `Voice` |
| `AgentGraph` | `config.go`: names, references, toolsets, grants, cycle checks | one operator per function; the walks of `detectCycle` and `expandToolset` are recursive functions. A name is the sequence of its words, so that a granted name is a concatenation. |
| `Delegation` | `subagent.go`, `decider.go`, `judge.go`; the judge phase of `run/run.go` | `stack` is the Go call stack of runs, `todo` what `runChain`'s recursion still has to do; a run is an engine's loop reduced to its tool calls; extends `AgentGraph` |
| `MCDelegation` | | the configurations |
| `DataLemmas` | | recursion and induction over data, and what `FlattenSeq` computes: facts about no module in particular |
| `DelegationProofs` | | theorems about `AgentGraph` and `Delegation` |
| `Streams` | `openai.go`, `ollama/client.go`, `types.go` | `acc` is the `streamAccumulator`, `ReadChunk` a line of the body, `Respond` what follows the loop; `ChatOpenAI` and `ChatOllama` are the calls without a stream |
| `MCStreams` | | the chunks |

`Chat` and `RunOnce` are compositions: they conjoin `TurnStep` with their own state
unchanged, and start, finish and classify the turn themselves. `BandRunner` and
`BandRoom` split one system: the runner abstracts a turn to its begin, its end and what
its tracing calls are told, and the room abstracts the pump to `Drain`, `Push` and `Reconnect`.
`Engine` and `BandRoom` meet in `Conversation`: `BandRoom`'s `EndTurn` commits or
leaves no trace because the engine's turns are atomic. `BandSocket` puts three
goroutines on one `WsConn` and justifies what `BandRunner` takes for granted of a
socket: that a join which was answered returns, and that a dead one is noticed. `Voice`
stands on the same websocket package, but takes a read or a write as one step, since its
goroutines meet in the client's own channels and in the console.

`TypeOK` is an invariant of the runs of `Engine` and `BandRunner`. In `Voice`, `Chat` and
`RunOnce` it is proved instead; elsewhere it documents the ranges of the variables, and
the runs spend their time on the other properties.

## What is checked

Every name below is a definition with its statement in a comment above it.

| Run | Question | Properties | Bounds and why they are enough |
|---|---|---|---|
| `Engine` | Is the engine right in every tool-choice mode, with every call failing anywhere? | `TypeOK` `RequestAcceptable` `ForcedToolCalled` `FreeOnlyAfterForcedCall` `FinalTextComplete` `CallBudget` `TurnAtomic` `TurnEnds` | Eight responses mix well-formed, malformed, unknown and repeated calls; budgets 1 and the default (3); `MaxHistory` = 3 lets a second turn start on the history of a first, with a budget that still allows several rounds. |
| `BandRoom` | Is one message handled once, and reported truly, over two processes with all calls failing, the drain's too? | `MarkProtocol` `ShownOnce` `PlatformTold` `AnswerDelivered` `FollowsLifecycle` | Two messages are enough for one to be seeded as context of, overtaken by, or repeated behind the other; a push beside the drain makes a duplicate; two lives make one restart. `troubled` remembers for which message a call went wrong: without it, whatever happens but that, the promises hold. |
| `BandRoomRestarts` | Does every mention settle, with a seen set of one id and a kill anywhere? | `MarkProtocol` `EveryMentionSettles` | `SeenLimit` = 1 makes the set forget at the second message; `MaxMarks` only bounds messages served again after failing; the platform serves in any order. |
| `BandRunner` | Is there one live worker per room, and does a traced session that is over stay over? | `TypeOK` `LiveWorkersHeld` `SessionStaysOver` | Two rooms with a message each, so that one worker sees the platform's verdict while the other traces; one room entered or left, one outage, which is not the end of `Run`, queues of one (full with one message), one Ctrl-C. A room left and entered again takes two moves: the theorem covers any number of them. |
| `BandRunnerLive` | Does `Run` return after a stop, and is every message of a connected room served? | `StopReturns` `ServedOnConnection` | Two messages in one room with a queue of one fill it and block the pump; turns may never end except where the property says so. |
| `BandSocket` | Does a join get its own answer, and does the connection end, whatever peer and network do? | `OwnAnswer` `EndJustified` `JoinAnswered` `ConnectionEnds` | Two topics, one heartbeat that may hold the write lock while a join waits, an events channel of one (full with one push), one stall, one burst (two pushes, a split message with control frames in it, or something undecodable). |
| `Chat` | Do turn, Ctrl-C, termination and trace agree, with and without a tracer? | `SpansSettled` `CompleteTurnsSucceeded` `TerminateHonoured` `InstanceHasOutcome` `ExitTaken` | Two turns (an interruption may hit the next one), two calls each (a call after a tool), two presses (one cancels, one exits). |
| `RunOnce` | Do instance and exit code agree with what happened? | `RunHasOutcome` `ExitCodes` | One turn is all there is; three calls; one Ctrl-C and one termination anywhere. |
| `Voice` | Are tool results, totals, echo gate and hang-up right while tools block the reader? | `ResultsOnce` `TotalsSeen` `GateCoversReply` `HangUpReturns` | Four messages: a call, its reply's end or interruption, another call and the session's end; two calls, so that one result can be held and one sent at once; two presses; an events channel of one. |
| `Delegation` | Does `Validate` accept exactly the sound configurations, and is delegation under one finite, accounted for and in order? | `ConfigSound` `NoSelfDelegation` `UsageHeard` `OutcomesInOrder` | 25,920 configurations of three agents, two toolsets whose hyphened names can collide, a tool and a decider (dangling names, duplicates, cycles through subagents, toolsets and judges), and 1,080 of two agents on providers, models and deciders of the wrong kind, doubled or missing. Two LLM calls per run: a delegation and an answer. |
| `Streams` | Does a response hold what the body says? | `StreamAssembled` | Bodies of four chunks, from ten kinds per provider: two calls interleaved, cut anywhere, with and without index, id and name, text between them; a limit of two pieces is passed by the third. |
| `BandRunnerUsage` | Do turns run one after the other, as the account's documentation says? | `TurnsSequential` | violated: see below |

Each property of a passing run is also confronted with a mutant of a modelled
definition, written beside it under the name that ends in what it gets wrong, which
breaks it. Deadlock is not checked: an idle engine, a room with nothing to do, a session
whose user types nothing and a finished process all rest.

What makes a configuration sound (`Sound` in `Delegation`) and what a body means
(`CallsMeant(body)` in `Streams`) are written a second time for these two checks, from the
definition and not from the walk: grants are chains of references, a way leads back when
some nodes each lead to one of them, definitions of one kind are as many as their names, a
call is all the fragments of its index.

**Fairness.** The engine, the workers, the pump and chat's two goroutines run when they
can (weak fairness). This assumes that calls return: the LLM clients' do by their
5-minute timeout (`openai.go:62`, `ollama/client.go:38`) or the turn's context, Band's
REST calls by a 30-second one (`band/client.go:22`), tools by the registry's.
Prefactor's client has none: `ExitTaken` assumes that this platform answers, and
`StopReturns` is checked without a tracer, since `finishSession` would wait for it.
`BandRunner` assumes nothing about turns: they may hang for ever, and `StopReturns`
holds all the same because shutdown gives up after its grace period;
`ServedOnConnection` names the fairness of turns as its hypothesis, and a connection
that lasts: a room left during the startup round fails that round, and its connection is
outside the property. Chat's prompt is a `select` over input and exit request; Go
chooses at random among ready cases, hence strong fairness of `LeaveOnSignal`.
`BandSocket` assumes that time passes for a write that is stuck and that a peer which
stopped reading reads again at some time; nothing is assumed of the platform's answers.
`Voice` assumes that tools end and that the player takes what it is given, and nothing
of the server. The user, the network and the platforms owe nothing, except that in
`BandRoomRestarts` a stopped process is started again and the platform pushes what it
owes when connections keep coming back.

## Where code and documents disagree

One run ends with a counterexample:

* `BandRunnerUsage`: turns of two rooms call the session account's unlocked `Add` from
  two goroutines (`band/run.go:344`); `usage/usage.go:35` says a session's turns run
  sequentially.

Met while modelling, reproduced in the models where they are in scope, and without a
run of their own:

* Room: a drain that fails after `room_added` is only logged
  (`band/run.go:511-513`) and the pump goes on with a backlog. A message that a killed
  process left claimed is older than one pushed then: `seedHistory` shows it to the model
  as context of that one, and the drain of the next connection serves it as a prompt.
  `room.go:501-504` rules that out because "current is the oldest of those" not handled
  and it would "show the model each message twice and make it answer twice". `ShownOnce`
  names such messages as an exception.
* Decider: `RunDecider` looks at its context before it looks at the answer
  (`engine/decider.go:63`). A decision that was answered when Ctrl-C or the tool's time
  limit ended the context is dropped with its usage; `docs/configuration.md:417` says that
  decision calls are accounted for. `UsageHeard` names it as an exception.
* Voice: `micLoop` looks at the gate when a chunk is complete (`voice/client.go:228`).
  The chunk during which the agent's last words end is read just after the gate has opened,
  and is sent; the comment at 221 says that chunks "captured while the agent's audio is
  still playing are drained but not sent". `GateCoversReply` speaks of the look at the gate.
* Runner: a room that cannot be built at startup makes `Run` retry for ever
  (`band/run.go:195`); the comment at line 147 says a startup error returns.
* Chat: a Ctrl-C while the turn's spans are being created ends the session as failed
  (`chat/chat.go:433`); line 113 says it cancels just the turn.
* Chat: a tracing call that fails inside the engine's turn is printed and the session
  goes on (`chat/chat.go:462`); `docs/configuration.md:640` says it ends.
* Socket: a room joined again on one connection sends its first join's ref
  (`band/socket.go:167`; comment at 163). A peer that answers one request twice can block
  the read loop, which delivers a reply after it released the lock under which it looked
  the caller up (`socket.go:337`).
* Websocket: `WriteText` clears the one write deadline after it has released the write
  lock, be it another writer's (`ws/client.go:336`). A heartbeat that just ended can so
  take away the deadline `Close` has set (`ws/client.go:353`); if the peer takes nothing
  from then on, `Close` never returns. `ConnectionEnds` and `JoinAnswered` therefore need
  a peer that reads again.
* Websocket: `Dial` reads the handshake's answer through a buffer it then throws away
  (`ws/client.go:197-219`); frames that came in the same segment are lost.
* Judges: a judge's registry has no event callback, so what a judge's subagents and
  deciders spend is in no account (`judge.go:165`; `docs/configuration.md:384`).
* Trace session: it is opened once, under the context of the room that comes first
  (`band/trace.go:37`). A room that is left while the requests are out breaks it for all:
  every later message of every room is marked failed with that error, and the instance, if
  it was registered, is never finished (`run.go:229`).
* Ollama: a stream that ends in order before the chunk marked done, and a line that only
  holds an error, are taken for a complete answer (`ollama/client.go:540-563`), which the
  call without a stream refuses (177-180).
* Voice: `runTool` holds the console for the whole tool call (`voice/session.go:320`),
  and the hang-up is announced on it before `End` is started: until the tool ends neither
  the first nor the second Ctrl-C is acted on (comment at 171). When the server
  closes behind its `session.ended`, a microphone write that fails before that event is
  queued turns the clean end into an error.
* Engine: a forced tool whose arguments do not decode counts as called, though it never
  ran (`engine.go:208-215`; comment at 125).
* Drain: `drainRoom` stops at the first message it has seen (`run.go:464`). One that the
  process before left failed and whose claim is refused in this one is seen, is served
  again first and so ends the drain, and that of the next connection too; the unhandled
  ones behind it stay in the backlog, although line 446 says that they are "served on the
  next reconnect or live push". If a newer one is pushed first, `seedHistory` shows them
  to the model as its context, and they are prompts later: shown twice, which
  `room.go:501-505` rules out because "current is the oldest of those" not handled. Three
  messages and two processes are needed for it. When pushes get lost too,
  `EveryMentionSettles` fails: they wait for a reconnect that is served another one first.
* Runner: `dropRoom` followed by a new `room_added` starts a second worker while the
  first is still in its turn (`run.go:403`; `room.go:76`). `LiveWorkersHeld` therefore
  speaks of workers whose context is live. A verdict that reaches a worker whose own room
  was left during its turn is latched by the tracer and not signalled to `Run`
  (`room.go:372`): the next turn of any room meets it.
* Runner: a room left during an outage keeps its (idle) worker; `FinishSession` runs
  before the turns in flight have stopped, whose spans end after the session, if at all
  (`SessionStaysOver` leaves them out and speaks of turns that are opened); a slow turn
  whose queue is full blocks the pump for all rooms (`run.go:368`, 395).
* Room: when platform calls fail, `Handle` returns an error the platform never hears of
  (`room.go:307`, 323, 331), and a fallback answer is lost behind a mark "processed"
  (`room.go:410`; `README.md:151`). With a lost push the context seeding can show a
  message that will be served later (`room.go:501-512`). `PlatformTold`, `AnswerDelivered`
  and `ShownOnce` name these as their exceptions: `troubled`, `missed` (a push was lost, or
  the message was still queued when a drain met a handled one or failed), and `evicted`, a
  message the room has forgotten and may handle a second time.
* Band: the first Ctrl-C aborts turns in flight (`room.go:372-379`; `README.md:161`) and
  a second one does nothing, since `signal.NotifyContext` keeps catching it
  (`main.go:464-467`).
* Chat: a Ctrl-C between `takeInterrupted` and the deferred `setTurn(nil)` leaves
  `interrupted` set for the next turn (`chat.go:446`; comment 210-211), which then ends
  the session if it succeeds or is recorded cancelled if it fails.
* Run: a termination that arrives in the answer that completes the turn becomes a plain
  error, so the judges run and the exit code is 1 (`run/run.go:314`, 217-219); a Ctrl-C
  while the instance is being started leaves it active for ever.

## What is proved

`EngineProofs` proves, for all configurations, response sets, seeds, tool names and
history bounds:

| Theorem | Statement |
|---|---|
| `TypeCorrect` | `Spec => []TypeOK` |
| `RequestsAcceptable` | `Spec => []RequestAcceptable` |
| `BudgetKept` | `Spec => []CallBudget` |
| `ForcedToolIsCalled` | `Spec => []ForcedToolCalled` |
| `FreeRequestsFollowTheCall` | `Spec => []FreeOnlyAfterForcedCall` |
| `FinalTextIsComplete` | `Spec => []FinalTextComplete` |
| `TurnsAreAtomic` | `Spec => TurnAtomic`, that is, the engine implements `Conversation` |

They rest on the assumptions `MessagesAssumption` and `EngineAssumption` on the
constants: the types of configurations and responses, seeds without tool messages, a
positive default budget. The argument: `RequestAcceptable` alone is not inductive,
because between an assistant message and the last of its results the history is not well
formed. `IInv` therefore says, for every value of `pc`, what the history looks like: it
is well formed up to `historyLen` always; well formed as a whole while idle or about to
call; and, while tools run, well formed up to the assistant message of the round, which
is followed by exactly `done` of its results in order (`OpenRound`). From this the last
result closes the round (`RoundCloses`), and a failure anywhere restores the history
exactly: its committed prefix is well formed, so the repair pass finds nothing to repair
(`NothingToRepair`, `RollbackIsExact`). The same fact makes every failing step an `Abort`
and every answering one a `Commit` of `Conversation`. The forced-tool theorems add that
`forcedCalled` holds only if a message since `historyLen` has such a call, and the theorem
on the final text that `text` counts the messages since `historyLen` that have some
(`TextInv`).

The module also takes apart, through `Streams`, the one step in which a response arrives
there, and proves, for every set of chunks, every length of body and every limit:

| Theorem | Statement |
|---|---|
| `AnswersAreAssembled` | `AnswerSpec => []StreamAssembled` |

It assumes the types of chunks and a limit of at least one piece (`StreamsAssumption`: an
arguments text that Ollama left out becomes the one piece `{}`, which must not be too
long). The invariant, `AnswerInv`, says of a stream that the accumulator holds what the
chunks read so far mean (`Accumulates`): the calls begun are those of the indices that
occurred, in the order of their first fragments, and each is what all the fragments of its
index make together. So the theorem is about what a fragment more does to both sides.
`AddFragment` merges it into its call; `DeltasOf`, `Began` and `LastGiven`, which read the
whole body, change by one element (`DeltasOfAppend`, `BeganAppend`, `CallFromAppend`); and
the recursion over the fragments of a chunk does this for each
(`AddFragmentsAccumulates`, on `DataLemmas`). In a whole answer every fragment is a call
of its own (`WholeAlone`), so both ways of asking return the same. Completing a call leaves
it on the same side of the limit (`CompletedLength`), so what is refused as too long is
what the body makes too long.

`BandRunnerProofs` proves, for every set of rooms, every queue size and every number of
messages, moves, outages, workers and interrupts, under `BandRunnerAssumption` (the
constants are numbers of the right kind, queues are not of size zero):

| Theorem | Statement |
|---|---|
| `RunnerTypeCorrect` | `Spec => []TypeOK`, with `Len(msgs[w]) <= QueueSize` |
| `LiveWorkersAreHeld` | `Spec => []LiveWorkersHeld` |
| `OneLiveWorkerPerRoom` | no room has two live workers, a corollary |
| `SessionsStayOver` | `Spec => SessionStaysOver` |

`LiveWorkersHeld` is not inductive: starting a worker keeps it only if the room being
joined had none and is a room at all, and dropping a room only if the map and `of` agree.
`IInv` adds that agreement (`Registry`), that whoever joins, drains or enqueues has a room
or a message in hand (`RoomKnown`), and that the pump reaches its last steps, and the
session its end, only under a cancelled context (`Cancelled`). `SessionsStayOver` is about
the steps from a state of `IInv` in which the session was finished or its end observed
(`OverStep`). A turn is opened by `StartTurn` alone, which looks at the tracer's latch, and
in a finished session at a context that is cancelled; and `RecordFinish` looks at the latch
after `finishSession` has looked at `Runner.terminated`, which a worker sets only later.
What a turn changes is stated once (`Progress`).

`VoiceProofs`, under `VoiceAssumption` (the bounds are numbers):

| Theorem | Statement |
|---|---|
| `VoiceTypeCorrect` | `Spec => []TypeOK` |
| `ResultsAreSentOnce` | `Spec => []ResultsOnce` |
| `TotalsAreSeen` | `Spec => []TotalsSeen` |
| `TheGateCoversTheReply` | `Spec => GateCoversReply` |

Three arguments in one `IInv`. Results: what was sent, what is held and the call that runs
stand in the order of their numbers, and none of them is among what an interruption
dropped (`Ordered`, `Kept`, `CallIsNew`). Totals: once the end of the session was seen it
was rendered or still is in the events channel (`EndSeen`), and only the goroutine of
`End` or a second Ctrl-C closes the client without an error (`HangUp`). Gate: what is
unplayed never exceeds what the gate counts, but for the chunk the reader has played and
not yet counted (`Gated`), so that nothing told of is unplayed when `MicChecks` finds the
gate open. The theorem is about that look at the gate: what was captured before it may hold
the end of the reply, and the reply may go on while the chunk is sent.

`TracedProofs`, under the assumptions of `Tracer`, `TracedTurn` and `Chat` (the bounds are
numbers, the faults are of the kinds named there). The lemmas on a tracing call and on a
step of a turn are shared by the two compositions; the names of `RunOnce` begin with
`Run`, so that one module can extend both:

| Theorem | Statement | Faults |
|---|---|---|
| `RunTypeCorrect` | `RunSpec => []RunTypeOK` | any |
| `ChatTypeCorrect` | `Spec => []TypeOK` | any |
| `ExitCodesAreRight` | `RunSpec => []ExitCodes` | any |
| `TerminationsAreHonoured` | `Spec => []TerminateHonoured` | any |
| `CompleteTurnsDidSucceed` | `Spec => []CompleteTurnsSucceeded` | any |
| `RunSettlesItsInstance` | `RunSpec => []RunHasOutcome` | `Answering` |
| `SessionsSettleTheirInstance` | `Spec => []InstanceHasOutcome` | `Answering` |
| `SessionsSettleTheirSpans` | `Spec => []SpansSettled` | `Answering` |

`Answering` says that the platform neither refuses a call nor loses an answer; it may
still terminate the run in any answer, and standard input may still fail. Without it the
last three are false, since nobody repeats a finish that was refused: the runs leave these
faults out for the same reason. The other theorems hold under faults that the runs do not
have. The argument follows the latch: once `tracer.terminated` is set, `pc` can only be
past the loop, with the error, the result and at last the return value that say so
(`Halts`). A turn can only be recorded complete with a last call that succeeded, because
at every phase it is known which of its spans may be active (`TurnSpans`); a cancelled
LLM call is the one that may stay so (`OpenCalls`, `SettledBefore`).

`BandRoomProofs`, under `BandRoomAssumption`, for every number of messages, pushes, marks
and processes and every set of faults:

| Theorem | Statement |
|---|---|
| `MarksFollowTheProtocol` | `Spec => []MarkProtocol` |
| `ThePlatformIsTold` | `Spec => []PlatformTold` |
| `AnswersAreDelivered` | `Spec => []AnswerDelivered` |
| `MessagesAreShownOnce` | if `OldestFirst`, `Spec => []ShownOnce` |
| `RoomFollowsLifecycle` | if `SeenLimit >= QueueSize`, `Spec => FollowsLifecycle`: the room implements `Mentions` |

`IInv` says what the platform shows and what is marked for the message in hand at each
label of `Handle` (`Shown`, `MarksAt`), and that what is remembered last is the message in
hand (`InHand`).

`ShownOnce` needs to know, when a message is seeded as context, that nobody will handle it
later. That is a matter of order (`OInv`): messages are posted in order (`Posted`), and
whatever is older than one in the queue stands before it, is over, or is known to this
process, be it remembered, forgotten or missed (`InOrder`). A drain keeps that because
what was handed out on this connection is in the queue, known or over (`HandedOut`), a
push because after the drain anything else was never pushed yet, and pushes come in order
(`NotOwed`). A drain that ends early, at a handled message or by failing, puts what is still
queued among the missed. `SeededOnce` and `HandledOnce` then count what the history holds.
The platform must serve the oldest message first: `seedHistory` rests on the same order.

For the refinement `IInv` is not enough either: `Mentions` lets nobody claim a
message that is processed, but a copy of it may wait in the queue. `Fresh` adds that it is
still remembered when its turn comes: behind it in the memory stand at most as many ids as
`SeenLimit` less its place in the queue. So the memory must be no shorter than the queue.
The code keeps 1024 ids (`room.go:26`) for a queue of 64 (`run.go:32`); nothing in it
relates the two. TLC shows that the hypothesis is needed: with `SeenLimit = 1`,
`QueueSize = 3` a copy that waits behind another message is claimed again after it was
marked processed.

`BandSocketProofs`, under `SocketAssumption` and `WritersAssumption`, for every set of
rooms and every number of heartbeats, replies, pushes and stalls:

| Theorem | Statement |
|---|---|
| `JoinsGetTheirOwnAnswer` | `Spec => []OwnAnswer` |
| `SocketEndsJustified` | `Spec => []EndJustified` |

Refs are given out once, so that a ref on the wire names its topic (`RefInv`); a reply, be
it in a frame, half read, in the reader's hand or in a caller's channel, is backed by an
answer of the platform to that ref (`InFlight`, `Held`, `Heard`). For the end of the
socket, the frames in the queue, read after the fragments in hand, lead to whole messages
(`Assembled`), whatever control frames stand between them: only a peer that breaks the
protocol makes `ReadMessage` fail on what it sent.

`DelegationProofs`, under `DelegationAssumption` (the configurations are of the types the
loader gives them, the root is a name, the budget of a run is positive), for every set of
configurations with any number of agents, toolsets, tools, deciders and providers:

| Theorem | Statement |
|---|---|
| `NoCycle` | when `DetectCycle` finds nothing in a finite graph, every set of nodes has one without an edge into the set |
| `ValidAgents` | the agents of a configuration `Validate` accepts are granted and judged by agents of it alone, and have no cycle through subagents and judges |
| `NeverBelowItself` | `Spec => []NoSelfDelegation` |
| `UsageIsHeard` | `Spec => []UsageHeard` |
| `OutcomesAreInOrder` | `Spec => []OutcomesInOrder` |
| `DetectsCycles` | `DetectCycle` finds something in a finite graph exactly when some nodes each lead to one of them |
| `ExpansionChains` | `expandToolset` grants what the chains of references from the toolset do, each chain once |
| `ValidateIsSound` | `Validate(c) <=> Sound(c)` for every well-typed configuration |
| `AcceptsExactlyTheSound` | `Spec => []ConfigSound` |

`detectCycle`, `expandToolset` and the judges a turn owes are recursive functions, of which
nothing is known before it is shown that the recursion ends. `DataLemmas` has that once, as
a fact about sets: a function whose body asks only for what lies below in a well-founded
order exists (`Recursion`). The order is another one each time: the walk for a cycle asks
for fewer white nodes or a shorter list (`WalkBelow`), the walk of a toolset for fewer
toolsets not yet on its path, the judgements of a path for a path that ends at a deeper
agent, which is where the absence of cycles is needed. `FlattenSeq`, which a run's outcomes
are put together with, is treated in the same way.

Then the argument for the cycle check is that of its colours: a walk that finds no cycle
leaves every node it was given black, turns no black node back, and what it turned black
has edges to black nodes only and can be layered (`WalkExplores`, `Acyclic`). The edges
`AgentEdges` draws are those of `Subagents` and `Judges` because an expansion that succeeds
has only leaves that the index knows (`GrantingFollows`, `ExpandTyped`). From the layers a
path of nested runs never meets an agent twice (`WalkDistinct`), and `Judgements` is defined
for every path (`JudgementsDefined`). The invariant of the run, `Inv`, adds that the runs on
the stack lie each below the last (`Nested`), and what `OutcomesInOrder` needs in the
middle of the judge phase: the outcomes so far, with those that the judge in hand and the
ones ahead of it still owe, are the judgements of the whole turn (`Whole`). `UsageHeard` is
inductive once the stack is nested: what goes unheard is below a judge, or a decider's call
whose link says that it was cut off.

`ConfigSound` equates the walks with a definition that mentions none. The other half of
the cycle check is that a gray node is met only on a way that leads to it, so that each
node on the path from there leads to one that is on it too (`WalkJustified`). For the
grants, a list is said to list a set when its positions are the members, each once
(`Lists` in `DataLemmas`); flattening lists that list disjoint sets lists their union
(`ListsFlatten`). Along the order of the toolsets' walk, what a toolset grants below a
prefix lists the chains that start in it (`ExpandChains`); this needs that no chain
comes by a toolset twice, hence the lack of cycles, and that chains are no longer than
there are toolsets (`ChainsAre`). The index then lists `References` (`IndexKeysList`),
so that its names are unique exactly when no two references have one name, and a name
that is unique grants the leaves its one reference has (`NameGrants`). The checks follow
one by one (`BackendsAgree`, `ToolsetsAgree`, `RefsAgree`, `AgentAgrees`,
`AgentCycles`); the order in which `Validate` makes them matters, since the walks are
only asked about configurations that passed what comes before.

The invariants were checked with TLC, on the instances of the runs, before they were
proved, except for `BandSocketProofs`' `Assembled`, whose frames TLC cannot enumerate.
Six attempts changed the models. With three messages and a memory of two, `PlatformTold`
failed for the message in hand after it had been forgotten, and `ShownOnce` for one that
came back after it had been forgotten: both now say so. `BandSocket`'s channels were a
function on a bounded set of refs, which made the bound part of the argument; they are now
the map that `Socket.pending` is. `BandRoom`'s history was a sequence, about which the
provers could say little, and is now a count per message; TLC then found, with three
messages, one behind the end of a drain that was shown twice. `ShownOnce` counts it as
missed. `Streams` read the index of a fragment in a whole answer too, where the clients go
by its place; what a body means now does so as well. `Sound` spoke of the transitive
closure of `Relation`, whose definition is outside the provers' reach: `Loops` now says the
same with sets of nodes.

Only model-checked:

* liveness (`TurnEnds`, `EveryMentionSettles`, `StopReturns`, `ServedOnConnection`,
  `ExitTaken`, `JoinAnswered`, `ConnectionEnds`, `HangUpReturns`), which the proof system
  does not reach, as it does not reason about `ENABLED`. `EveryMentionSettles` is checked
  without failing drains: a backlog left by one waits for the next connection or process,
  which nothing obliges to come;
* what `Repair`'s recursion in the engine does with a transcript that needs it: it is only
  ever used where it has nothing to do, which is what `NothingToRepair` shows;
* `Chat`'s and `RunOnce`'s settling under refused or lost calls is not a property at all,
  as said above.

## Assumptions about the outside

* **Band** (`Servable`, `Served`, `Pushable` in `BandRoom`): `/messages/next` hands out,
  once on a connection, what is queued or was left claimed, and whatever failed; pushes
  are owed at least once, in order, and may be repeated while unanswered. Whether the
  oldest comes first is a constant. This follows `room.go`'s and `run.go`'s comments; the
  platform itself is not in the repository.
* **Prefactor** (`PlatformTerminates`): a termination may or may not settle the open
  spans; finishing a settled span answers 409, which counts as success; finishing an
  instance twice is an error.
* **Band's socket** (`Answer`, `PushEvent`, `Oddity` in `BandSocket`): a request is
  answered at most once, with its own ref; pushes come on joined topics only.
* **Voice's server** (`ServerEvents` in `Voice`): any event in any order, but it ends a
  session once; a second `session.ended` would close a closed channel
  (`voice/client.go:325`).
* **Voice's audio** (`Tick`): the player and the gate run down together, a chunk of the
  reply at a time, and a chunk of the microphone is read as soon as it is captured; what
  queues up in the microphone's pipe while a send is blocked is not modelled.
* **Providers**: any response of the enumerated shapes; to the engine streaming is one
  step, `Streams` takes it apart.
* **The network**: a call is applied, refused, or applied with its answer lost.

## What is not modelled

* Time. Backoff, the shutdown grace and timeouts are nondeterministic choices.
* Text. Prompts, answers and errors are present or absent.
* `chat`'s root context: `main` passes one that never ends.
* The bytes: frames on the wire, request and schema encoding, logprobs, formats of
  configuration, usage and logs.
* The checks of one definition by itself in `Validate` (patterns, paths, required fields,
  builtin toolsets), the Ollama and OpenAI lists of models, the decision client (one
  request and its answer).
* Builtin and command tools: files, processes and their groups. `command.go:100` waits
  after its timeout until the output pipes are closed, which a descendant outside the
  group can keep open; `TurnEnds` assumes that it does not.
* Printers, audio processes and flag parsing: no state worth a model.
* `voice`'s `endSession`: `main` never cancels the context it passes.
* Races on memory, but for the critical section of `usage.Account.Add`.

## Plan

Done, in this order, the most important behaviour first: `Messages`, `Conversation`,
`Engine` and its proofs; `Mentions`, `BandRoom`; `BandRunner` and its proofs; `Tracer`,
`TracedTurn`, `Chat`, `RunOnce`; `WsConn`, `BandSocket`; `Voice`; `AgentGraph`,
`Delegation`; `Streams`; then the proofs about `Voice`, `RunOnce`,
`Chat`, `BandRoom`, `BandSocket`, `Delegation` and `Streams`.

Next:

1. `BandRunner` and `BandSocket` against one abstract socket, proved on both sides.
2. The timeout of a command tool against its process group, and the logger's names.

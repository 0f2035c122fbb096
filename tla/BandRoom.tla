------------------------------ MODULE BandRoom ------------------------------
(***************************************************************************)
(* One Band room and its worker (internal/band/room.go; serveRoom and       *)
(* drainRoom of run.go): how a mention is deduplicated, claimed, answered   *)
(* by one turn of the engine and settled on the platform, when every call   *)
(* may fail and the process may be stopped, killed and started again.       *)
(* Messages are numbered in the order the platform received them.           *)
(***************************************************************************)
EXTENDS Naturals, Sequences, FiniteSets

CONSTANTS
  NumMessages,  \* bound: messages the room receives
  SeenLimit,    \* seenLimit
  QueueSize,    \* roomMsgBuffer
  Traced,       \* is a Prefactor tracer configured
  OldestFirst,  \* external: does the platform serve the oldest message first
  Faults,       \* kinds of calls that may fail
  MaxPushes,    \* bound: pushes of one message over the socket
  MaxMarks,     \* bound: a message marked so often is not served again
  MaxLives      \* bound: processes, one after the other

ASSUME BandRoomAssumption ==
  /\ NumMessages \in Nat /\ SeenLimit \in Nat \ {0} /\ QueueSize \in Nat \ {0}
  /\ MaxPushes \in Nat /\ MaxMarks \in Nat /\ MaxLives \in Nat \ {0}
  /\ Traced \in BOOLEAN /\ OldestFirst \in BOOLEAN
  /\ Faults \subseteq {"push", "drain", "claim", "seed", "trace", "terminate", "turn",
                       "send", "mark"}

Messages == 1..NumMessages

VARIABLES
  status,       \* external: the platform's view of each message
  pushes,       \* external: how often the socket carried each message
  served,       \* external: messages /next handed out on this connection
  lives,        \* processes started so far
  draining,     \* does the runner drain the queue (else it pumps the socket)
  msgs,         \* roomState.msgs
  ctx,          \* the room's context: "live" or "cancelled"
  pc,           \* where the worker stands
  cur,          \* the message Handle works on (0: none)
  seenQ,        \* Room.seenQ; Room.seen is the set of its elements
  bootstrapped, \* Room.bootstrapped
  history,      \* how often the engine's history holds each message, as a user's
  session,      \* traceSession: "new", "open" or "broken"
  sentThisTurn, \* Room.sentThisTurn
  turnErr,      \* how the turn ended: "none", "error" or "terminated"
  final,        \* did the turn return text
  result,       \* what Handle returned last for each message
  marks,        \* marks this process had applied for each message, in order
  evicted,      \* messages this process has forgotten
  missed,       \* messages a push of which this process has lost, or that waited
                \* in the queue when a drain was given up
  troubled,     \* messages for which a call of this process went wrong
  replied       \* messages some reply reached the room for

platform == <<status, pushes, served>>
feed == <<draining, msgs>>
dedup == <<seenQ, evicted>>
memory == <<bootstrapped, history, session>>
turn == <<sentThisTurn, turnErr, final>>
troubles == <<missed, troubled>>
vars == <<platform, lives, feed, ctx, pc, cur, dedup, memory, turn, result, marks,
          troubles, replied>>

Seen == {seenQ[i] : i \in 1..Len(seenQ)}

NewProcess ==
  /\ draining = TRUE /\ msgs = <<>>
  /\ ctx = "live" /\ pc = "idle" /\ cur = 0
  /\ seenQ = <<>> /\ evicted = {} /\ missed = {} /\ troubled = {}
  /\ bootstrapped = FALSE /\ history = [m \in Messages |-> 0] /\ session = "new"
  /\ sentThisTurn = FALSE /\ turnErr = "none" /\ final = FALSE
  /\ result = [m \in Messages |-> "none"]
  /\ marks = [m \in Messages |-> <<>>]

Init ==
  /\ status = [m \in Messages |-> "absent"]
  /\ pushes = [m \in Messages |-> 0]
  /\ served = {} /\ replied = {}
  /\ lives = 1
  /\ NewProcess
-----------------------------------------------------------------------------
(***************************************************************************)
(* External: the platform.                                                   *)
(***************************************************************************)
Platform(m, from, to) ==
  /\ status[m] \in from
  /\ status' = [status EXCEPT ![m] = to]
  /\ UNCHANGED <<pushes, served, lives, feed, ctx, pc, cur, dedup, memory, turn,
                 result, marks, replied, troubles>>

Post(m) ==
  /\ \A k \in 1..(m - 1) : status[k] # "absent"
  /\ Platform(m, {"absent"}, "queued")

Withdraw(m) == Platform(m, {"queued"}, "gone")

\* The messages /next may answer with: once on a connection what is queued or was
\* left claimed, and whatever failed.
Servable ==
  {m \in Messages : \/ status[m] \in {"queued", "processing"} /\ m \notin served
                    \/ status[m] = "failed"}

Served(m) == m \in Servable /\ (OldestFirst => \A k \in Servable : m <= k)

\* A push is owed at least once, in order, and may be repeated while unanswered.
Pushable(m) ==
  /\ status[m] \in {"queued", "processing", "failed"}
  /\ pushes[m] < MaxPushes
  /\ \A k \in 1..(m - 1) : pushes[k] > 0 \/ status[k] # "queued"
-----------------------------------------------------------------------------
(***************************************************************************)
(* The runner: drainRoom, and dispatch of message_created; both enqueue.    *)
(***************************************************************************)
Running == pc # "stopped" /\ ctx = "live"

Enqueue(m) == Len(msgs) < QueueSize /\ msgs' = Append(msgs, m)

HasSeen(m) == m \in Seen

Drain(m) ==
  /\ Running /\ draining /\ Served(m) /\ ~HasSeen(m)
  /\ Len(marks[m]) < MaxMarks
  /\ Enqueue(m)
  /\ served' = served \cup {m}
  /\ UNCHANGED <<status, pushes, lives, draining, ctx, pc, cur, dedup, memory, turn,
                 result, marks, replied, troubles>>

\* mutant: a pass hands over one message
DrainEndsEarly ==
  /\ Running /\ draining
  /\ draining' = FALSE
  /\ UNCHANGED <<platform, lives, msgs, ctx, pc, cur, dedup, memory, turn, result,
                 marks, replied, troubles>>
\* The queue is empty, or serves a message this process has handled already.
DrainEnds ==
  /\ Running /\ draining
  /\ \/ Servable = {} /\ UNCHANGED missed
     \/ /\ \E m \in Messages : Served(m) /\ HasSeen(m)
        /\ missed' = missed \cup (Servable \ Seen)
  /\ draining' = FALSE
  /\ UNCHANGED <<platform, lives, msgs, ctx, pc, cur, dedup, memory, turn, result,
                 marks, replied, troubled>>

\* NextMessage fails.  After room_added that is only logged and the pump goes on; at
\* startup the connection is given up, to connect and drain again.
DrainFails ==
  /\ Running /\ draining /\ "drain" \in Faults
  /\ \/ /\ draining' = FALSE
        /\ missed' = missed \cup (Servable \ Seen)
        /\ UNCHANGED served
     \/ served' = {} /\ UNCHANGED <<draining, missed>>
  /\ UNCHANGED <<status, pushes, lives, msgs, ctx, pc, cur, dedup, memory, turn, result,
                 marks, replied, troubled>>

Push(m) ==
  /\ Running /\ ~draining /\ Pushable(m)
  /\ Enqueue(m)
  /\ pushes' = [pushes EXCEPT ![m] = @ + 1]
  /\ UNCHANGED <<status, served, lives, draining, ctx, pc, cur, dedup, memory, turn,
                 result, marks, replied, troubles>>

\* The socket drops a push nobody takes, or dies with it.
PushLost(m) ==
  /\ Running /\ Pushable(m) /\ "push" \in Faults
  /\ pushes' = [pushes EXCEPT ![m] = @ + 1]
  /\ missed' = missed \cup {m}
  /\ UNCHANGED <<status, served, lives, feed, ctx, pc, cur, dedup, memory, turn,
                 result, marks, replied, troubled>>

\* The socket died: connect again and drain again, keeping room and worker.
Reconnect ==
  /\ Running /\ ~draining
  /\ draining' = TRUE /\ served' = {}
  /\ UNCHANGED <<status, pushes, lives, msgs, ctx, pc, cur, dedup, memory, turn,
                 result, marks, replied, troubles>>
-----------------------------------------------------------------------------
(***************************************************************************)
(* The worker: serveRoom takes a message and Handle works on it.            *)
(***************************************************************************)
\* How a call to the platform or the tracer ends: done, done but the answer is
\* lost, or refused; a cancelled context refuses everything.
CallResults(kind) ==
  IF ctx = "cancelled" THEN {"refused"}
  ELSE {"done"} \cup (IF kind \in Faults THEN {"lost", "refused"} ELSE {})

\* mutant: forgets one id too many
RememberOneLess(q, m) ==
  LET longer == Append(q, m)
  IN  IF Len(longer) >= SeenLimit THEN Tail(longer) ELSE longer
Remember(q, m) ==
  LET longer == Append(q, m)
  IN  IF Len(longer) > SeenLimit THEN Tail(longer) ELSE longer

Forgotten(q, m) == IF Len(q) + 1 > SeenLimit THEN {Append(q, m)[1]} ELSE {}

NeverSeen(m) == FALSE                                          \* mutant
AlreadySeen(m) == m \in Seen

\* seenMessage at the start of Handle: a known id returns at once.
Take ==
  /\ pc = "idle" /\ msgs # <<>>
  /\ msgs' = Tail(msgs)
  /\ LET m == Head(msgs) IN
       \/ AlreadySeen(m) /\ UNCHANGED <<pc, cur, dedup>>
       \/ /\ ~AlreadySeen(m)
          /\ pc' = "claim" /\ cur' = m
          /\ seenQ' = Remember(seenQ, m)
          /\ evicted' = evicted \cup Forgotten(seenQ, m)
  /\ UNCHANGED <<platform, lives, draining, ctx, memory, turn, result, marks,
                 replied, troubles>>

Return(r) ==
  /\ pc' = "idle" /\ cur' = 0
  /\ result' = [result EXCEPT ![cur] = r]

\* History: what went wrong for a message while this process handled it.
Note(r) == troubled' = IF r = "done" THEN troubled ELSE troubled \cup {cur}

Goto(l) == pc' = l /\ UNCHANGED <<cur, result>>

Mark(new, r) ==
  IF r = "refused" THEN UNCHANGED <<status, marks>>
  ELSE /\ status' = [status EXCEPT ![cur] = new]
       /\ marks' = [marks EXCEPT ![cur] = Append(@, new)]

MarkProcessing ==
  /\ pc = "claim"
  /\ \/ /\ status[cur] = "gone" /\ ctx = "live"   \* 404
        /\ Return("nil") /\ UNCHANGED <<status, marks, troubled>>
     \/ \E r \in CallResults("claim") :
          /\ status[cur] = "gone" => r = "refused"
          /\ Mark("processing", r) /\ Note(r)
          /\ \/ r = "done" /\ Goto(IF bootstrapped THEN "begin" ELSE "seed")
             \/ r # "done" /\ Return("error")
  /\ UNCHANGED <<pushes, served, lives, feed, ctx, dedup, memory, turn,
                 replied, missed>>

\* mutant: the whole context
SeedsAll(m) ==
  [k \in Messages |-> IF status[k] \notin {"absent", "gone"} THEN 1 ELSE 0]
\* The room's context up to the message being handled.
Seeds(m) == [k \in Messages |-> IF k < m /\ status[k] # "gone" THEN 1 ELSE 0]

SeedHistory ==
  /\ pc = "seed"
  /\ \E r \in CallResults("seed") :
     /\ Note(r)
     /\ \/ /\ r = "done"
           /\ history' = Seeds(cur) /\ bootstrapped' = TRUE
           /\ Goto("begin")
        \/ r # "done" /\ Return("error") /\ UNCHANGED <<history, bootstrapped>>
  /\ UNCHANGED <<platform, lives, feed, ctx, dedup, session, turn, marks,
                 replied, missed>>

\* How a tracing call ends; the platform may answer that it terminated the session.
TraceResults ==
  {IF r = "done" THEN "none" ELSE "error" : r \in CallResults("trace")}
    \cup (IF "terminate" \in Faults /\ ctx = "live" THEN {"terminated"} ELSE {})

\* traceSession.start remembers its first result for good.
Session(err) == IF session # "new" THEN session
                ELSE IF err = "none" THEN "open" ELSE "broken"

SentBefore == sentThisTurn                                     \* mutant
SentAtStart == FALSE

\* Open the turn's span; a failure is settled like a failed turn (failTracing).
Begin ==
  /\ pc = "begin"
  /\ \E started, span \in TraceResults :
       /\ session' = IF Traced THEN Session(started) ELSE session
       /\ turnErr' = IF ~Traced THEN "none"
                     ELSE IF session = "broken" THEN "error"
                     ELSE IF session = "new" /\ started # "none" THEN started
                     ELSE span
  /\ IF turnErr' = "none"
     THEN sentThisTurn' = SentAtStart /\ final' = FALSE /\ Goto("turn")
     ELSE UNCHANGED <<sentThisTurn, final>> /\ Goto("untraced")
  /\ UNCHANGED <<platform, lives, feed, ctx, dedup, bootstrapped, history, marks,
                 replied, troubles>>

\* The model calls band_send_message.
ToolSends ==
  /\ pc = "turn"
  /\ \E r \in CallResults("send") :
       /\ sentThisTurn' = (sentThisTurn \/ r = "done") /\ Note(r)
       /\ replied' = IF r = "refused" THEN replied ELSE replied \cup {cur}
  /\ UNCHANGED <<platform, lives, feed, ctx, pc, cur, dedup, memory, turnErr, final,
                 result, marks, missed>>

TurnErrors ==
  (IF "turn" \in Faults \/ ctx = "cancelled" THEN {"error"} ELSE {})
    \cup (IF Traced THEN TraceResults \ {"none"} ELSE {})

\* The engine's turn commits the exchange or leaves no trace (Conversation).
EndTurn ==
  /\ pc = "turn"
  /\ \/ /\ turnErr' = "none" /\ final' \in BOOLEAN
        /\ history' = [history EXCEPT ![cur] = @ + 1]
     \/ turnErr' \in TurnErrors /\ UNCHANGED <<final, history>>
  /\ Goto("ended")
  /\ UNCHANGED <<platform, lives, feed, ctx, dedup, bootstrapped, session,
                 sentThisTurn, marks, replied, troubles>>

\* A turn cut short is not marked; else its span is finished (finishTurn).
FinishTurn ==
  /\ pc = "ended"
  /\ \/ /\ ctx = "cancelled"
        /\ Return("cancelled") /\ UNCHANGED turnErr
     \/ /\ ctx = "live"
        /\ turnErr' \in IF ~Traced \/ turnErr = "terminated" THEN {turnErr}
                        ELSE IF turnErr = "none" THEN TraceResults
                        ELSE {turnErr} \cup (TraceResults \cap {"terminated"})
        /\ Goto("settle")
  /\ UNCHANGED <<platform, lives, feed, ctx, dedup, memory, sentThisTurn, final, marks,
                 replied, troubles>>

\* mutant: the message is failed before the stop
StopFailing ==
  /\ pc \in {"untraced", "settle"} /\ turnErr = "terminated"
  /\ ctx' = "cancelled"
  /\ Mark("failed", "done")
  /\ Return("terminated")
  /\ UNCHANGED <<pushes, served, lives, feed, dedup, memory, turn, replied, troubles>>
\* A terminated session stops the process and leaves the message claimed.
StopTerminated ==
  /\ pc \in {"untraced", "settle"} /\ turnErr = "terminated"
  /\ ctx' = "cancelled"
  /\ Return("terminated")
  /\ UNCHANGED <<platform, lives, feed, dedup, memory, turn, marks, replied, troubles>>

\* A failed turn goes to the judges too; one that never started does not.
MarkFailed ==
  /\ pc \in {"untraced", "settle"} /\ turnErr = "error"
  /\ \E r \in CallResults("mark") : Mark("failed", r) /\ Note(r)
  /\ IF pc = "settle" THEN Goto("judging") ELSE Return("error")
  /\ UNCHANGED <<pushes, served, lives, feed, ctx, dedup, memory, turn,
                 replied, missed>>

\* A plain text answer nobody sent is sent for the model; a failure is logged.
FallbackSend ==
  /\ pc = "settle" /\ turnErr = "none"
  /\ IF final /\ ~sentThisTurn
     THEN \E r \in CallResults("send") :
            /\ replied' = IF r = "refused" THEN replied ELSE replied \cup {cur}
            /\ Note(r)
     ELSE UNCHANGED <<replied, troubled>>
  /\ Goto("answered")
  /\ UNCHANGED <<platform, lives, feed, ctx, dedup, memory, turn, marks, missed>>

MarkProcessed ==
  /\ pc = "answered"
  /\ \E r \in CallResults("mark") :
       /\ Mark("processed", r) /\ Note(r)
       /\ \/ r = "done" /\ Goto("judging")
          \/ r # "done" /\ Return("error")
  /\ UNCHANGED <<pushes, served, lives, feed, ctx, dedup, memory, turn,
                 replied, missed>>

\* Judges read the transcript; whatever they do, the outcome stands.
RunJudges ==
  /\ pc = "judging"
  /\ Return(IF turnErr = "error" THEN "error" ELSE "nil")
  /\ UNCHANGED <<platform, lives, feed, ctx, dedup, memory, turn, marks,
                 replied, troubles>>
-----------------------------------------------------------------------------
(***************************************************************************)
(* Stopping: Ctrl-C or a terminate cancels the context, and a worker leaves *)
(* once Handle has returned; a process may also die anywhere.               *)
(***************************************************************************)
Stop ==
  /\ Running /\ lives < MaxLives
  /\ ctx' = "cancelled"
  /\ UNCHANGED <<platform, lives, feed, pc, cur, dedup, memory, turn, result, marks,
                 replied, troubles>>

Leave ==
  /\ pc = "idle" /\ ctx = "cancelled"
  /\ pc' = "stopped"
  /\ UNCHANGED <<platform, lives, feed, ctx, cur, dedup, memory, turn, result, marks,
                 replied, troubles>>

\* A new process after the old one left or died: only the platform remembers.
Restart ==
  /\ lives < MaxLives
  /\ lives' = lives + 1
  /\ served' = {}
  /\ draining' = TRUE /\ msgs' = <<>>
  /\ ctx' = "live" /\ pc' = "idle" /\ cur' = 0
  /\ seenQ' = <<>> /\ evicted' = {} /\ missed' = {} /\ troubled' = {}
  /\ bootstrapped' = FALSE /\ history' = [m \in Messages |-> 0] /\ session' = "new"
  /\ sentThisTurn' = FALSE /\ turnErr' = "none" /\ final' = FALSE
  /\ result' = [m \in Messages |-> "none"]
  /\ marks' = [m \in Messages |-> <<>>]
  /\ UNCHANGED <<status, pushes, replied>>
-----------------------------------------------------------------------------
Handle ==
  \/ MarkProcessing \/ SeedHistory \/ Begin \/ EndTurn \/ FinishTurn
  \/ StopTerminated \/ MarkFailed \/ FallbackSend \/ MarkProcessed \/ RunJudges

Worker == Take \/ Handle \/ Leave

Next ==
  \/ \E m \in Messages : Post(m) \/ Withdraw(m) \/ Drain(m) \/ Push(m) \/ PushLost(m)
  \/ DrainEnds \/ DrainFails \/ Reconnect
  \/ Worker \/ ToolSends
  \/ Stop \/ Restart

Spec == Init /\ [][Next]_vars

\* The worker and the runner are goroutines that run when they can; a stopped
\* process is started again; the platform gets through what it owes when there is a
\* connection again and again.
FairSpec ==
  /\ Spec
  /\ WF_vars(Worker) /\ WF_vars(DrainEnds)
  /\ \A m \in Messages : WF_vars(Drain(m)) /\ SF_vars(Push(m) /\ pushes[m] = 0)
  /\ WF_vars(Restart /\ pc = "stopped")
-----------------------------------------------------------------------------
TypeOK ==
  /\ status \in [Messages -> {"absent", "queued", "processing", "processed",
                              "failed", "gone"}]
  /\ pushes \in [Messages -> Nat]
  /\ served \subseteq Messages /\ replied \subseteq Messages
  /\ evicted \subseteq Messages /\ missed \subseteq Messages
  /\ troubled \subseteq Messages
  /\ lives \in Nat
  /\ draining \in BOOLEAN /\ bootstrapped \in BOOLEAN
  /\ sentThisTurn \in BOOLEAN /\ final \in BOOLEAN
  /\ msgs \in Seq(Messages) /\ seenQ \in Seq(Messages)
  /\ history \in [Messages -> Nat]
  /\ ctx \in {"live", "cancelled"}
  /\ pc \in {"idle", "claim", "seed", "begin", "untraced", "turn", "ended", "settle",
             "answered", "judging", "stopped"}
  /\ cur \in Messages \cup {0}
  /\ session \in {"new", "open", "broken"}
  /\ turnErr \in {"none", "error", "terminated"}
  /\ result \in [Messages -> {"none", "nil", "error", "cancelled", "terminated"}]
  /\ marks \in [Messages -> Seq({"processing", "processed", "failed"})]

\* This process marks a message by the protocol, and at most once through it, as
\* long as it remembers the message: no second turn for a duplicate, never both
\* processed and failed (room.go Handle, seenMessage).
MarkProtocol ==
  \A m \in Messages \ evicted :
    marks[m] \in {<<>>, <<"processing">>, <<"processing", "processed">>,
                  <<"processing", "failed">>}

\* The model sees each message once, as context or as a prompt, whatever else fails, with
\* four exceptions: a message whose push was lost, one that was queued behind a message
\* this process had handled when a drain met it, one that was queued when a drain after
\* room_added failed, all of which may come after a later one was handled, and one this
\* process has forgotten, which may come again (room.go seedHistory, run.go drainRoom).
ShownOnce == \A m \in Messages \ (missed \cup evicted) : history[m] <= 1

\* What Handle returned and what the platform shows agree, until a message this process
\* has forgotten is handled again.  A message whose turn a stop or a terminate cut short
\* is still claimed, so that the next process is served it again.  Unless one of the
\* calls for it went wrong, "a returned error means the message failed and the platform
\* is told so", and nil that it was processed or is gone (Handle's contract).
PlatformTold ==
  \A m \in Messages \ {cur} :
    /\ result[m] \in {"cancelled", "terminated"} => status[m] = "processing"
    /\ result[m] = "error" /\ m \notin troubled => status[m] = "failed"
    /\ result[m] = "nil" /\ m \notin troubled => status[m] \in {"processed", "gone"}

\* "a plain-text answer is delivered as a fallback" (README.md): a message that was
\* answered with text and marked processed got a reply, unless a send failed.
AnswerDelivered ==
  pc = "judging" /\ turnErr = "none" /\ final /\ cur \notin troubled => cur \in replied

\* The room follows the platform's life of a mention; an answered one stays answered.
Lifecycle == INSTANCE Mentions
FollowsLifecycle == Lifecycle!Spec

\* Every mention is answered, reported as failed or withdrawn, over crashes too.
EveryMentionSettles ==
  \A m \in Messages : (status[m] = "queued") ~> Lifecycle!Settled(m)
=============================================================================

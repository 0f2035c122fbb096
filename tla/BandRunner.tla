----------------------------- MODULE BandRunner -----------------------------
(***************************************************************************)
(* The process behind blorb band (internal/band/run.go): one goroutine, the *)
(* pump, keeps a socket, joins the rooms, drains their queues and hands     *)
(* pushed messages to one worker per room, over outages of the socket,      *)
(* rooms the agent enters and leaves, turns that never end, Ctrl-C and a    *)
(* platform that terminates the session. What a worker does with a message  *)
(* is BandRoom's; here a turn runs, counts its usage and ends.              *)
(***************************************************************************)
EXTENDS Naturals, Sequences, FiniteSets

CONSTANTS
  Rooms,         \* room ids
  PerRoom,       \* bound: messages posted to each room
  MaxPosts,      \* bound: messages posted
  QueueSize,     \* roomMsgBuffer
  EventsSize,    \* capacity of Socket.events
  Traced,        \* is a Prefactor tracer configured
  Faults,        \* kinds of calls that may fail on a live connection
  MaxWorkers,    \* bound: workers started
  MaxDowns,      \* bound: outages
  MaxMoves,      \* bound: times the agent enters or leaves a room
  MaxInterrupts  \* bound: times Ctrl-C is pressed

ASSUME BandRunnerAssumption ==
  /\ PerRoom \in Nat /\ MaxPosts \in Nat
  /\ QueueSize \in Nat \ {0} /\ EventsSize \in Nat \ {0}
  /\ Traced \in BOOLEAN
  /\ Faults \subseteq {"me", "rest", "build", "terminate"}
  /\ MaxWorkers \in Nat \ {0} /\ MaxDowns \in Nat /\ MaxMoves \in Nat
  /\ MaxInterrupts \in Nat

Messages == Rooms \X (1..PerRoom)
RoomOf(m) == m[1]
Workers == 1..MaxWorkers
Events == [kind : {"added", "removed"}, on : Rooms] \cup [kind : {"message"}, on : Messages]
NoMessage == <<>>
NoRoom == "no room"

VARIABLES
  member,      \* external: the rooms the agent is in
  status,      \* external: the platform's view of each message
  moves,       \* external: times a membership changed
  downs,       \* external: outages so far
  socket,      \* "none", "up", or "dead" before the pump has noticed
  joined,      \* topics joined on the socket: rooms, and "rooms"
  events,      \* Socket.events
  dropped,     \* has the socket thrown an event away
  pc,          \* where the pump stands
  todo,        \* rooms of connectAndServe's round still to sync
  room,        \* the room being joined or drained
  back,        \* where the pump returns to after a drain: "next" or "pump"
  served,      \* external: what /next handed out in this pass
  held,        \* the message enqueue is sending
  cause,       \* why the last connectAndServe returned an error
  synced,      \* has a join round succeeded
  interrupts,  \* Ctrl-C so far
  ctx,         \* Run's context: "live" or "cancelled"
  terminated,  \* Runner.terminated
  observed,    \* Tracer.terminated: has any call been told that the session is over
  rooms,       \* Runner.rooms: the worker of each room, 0 without one
  started,     \* workers started so far
  of,          \* the room of each worker
  msgs,        \* roomState.msgs
  cancelled,   \* workers whose own context was cancelled
  wpc,         \* where each worker stands
  cur,         \* the message it works on
  seen,        \* Room.seen
  session      \* traceSession: "new", "open", "broken" or "finished"

platform == <<member, status, moves>>
wire == <<downs, socket, joined, events, dropped>>
sync == <<todo, room, back, served, held>>
signals == <<interrupts, ctx, terminated, observed>>
registry == <<rooms, started, of, cancelled>>
worker == <<wpc, cur, seen>>
rest == <<signals, registry, msgs, worker, session>>
vars == <<platform, wire, pc, sync, cause, synced, rest>>

Init ==
  /\ member \in SUBSET Rooms
  /\ status = [m \in Messages |-> "absent"]
  /\ moves = 0 /\ downs = 0
  /\ socket = "none" /\ joined = {} /\ events = <<>> /\ dropped = FALSE
  /\ pc = "me"
  /\ todo = {} /\ room = NoRoom /\ back = "next" /\ served = {} /\ held = NoMessage
  /\ cause = "none" /\ synced = FALSE
  /\ interrupts = 0 /\ ctx = "live" /\ terminated = FALSE /\ observed = FALSE
  /\ rooms = [r \in Rooms |-> 0]
  /\ started = 0
  /\ of = [w \in Workers |-> NoRoom]
  /\ msgs = [w \in Workers |-> <<>>]
  /\ cancelled = {}
  /\ wpc = [w \in Workers |-> "unstarted"]
  /\ cur = [w \in Workers |-> NoMessage]
  /\ seen = [w \in Workers |-> {}]
  /\ session = "new"
-----------------------------------------------------------------------------
(***************************************************************************)
(* External: the platform and the network.                                   *)
(***************************************************************************)
\* readLoop hands a push to the events channel, or throws it away.
Pushed(topic, e) ==
  IF socket # "up" \/ topic \notin joined THEN UNCHANGED <<events, dropped>>
  ELSE IF Len(events) < EventsSize
       THEN events' = Append(events, e) /\ UNCHANGED dropped
       ELSE dropped' = TRUE /\ UNCHANGED events

Move(r, event) ==
  /\ moves < MaxMoves /\ moves' = moves + 1
  /\ Pushed("rooms", [kind |-> event, on |-> r])
  /\ joined' = joined \ {r}
  /\ UNCHANGED <<status, downs, socket, pc, sync, cause, synced, rest>>

Enter(r) == r \notin member /\ member' = member \cup {r} /\ Move(r, "added")
Exit(r) == r \in member /\ member' = member \ {r} /\ Move(r, "removed")

Post(m) ==
  /\ RoomOf(m) \in member
  /\ status[m] = "absent"
  /\ Cardinality({k \in Messages : status[k] # "absent"}) < MaxPosts
  /\ \A k \in Messages : RoomOf(k) = RoomOf(m) /\ k[2] < m[2] => status[k] # "absent"
  /\ status' = [status EXCEPT ![m] = "queued"]
  /\ Pushed(RoomOf(m), [kind |-> "message", on |-> m])
  /\ UNCHANGED <<member, moves, downs, socket, joined, pc, sync, cause, synced, rest>>

SocketDies ==
  /\ socket = "up" /\ downs < MaxDowns
  /\ socket' = "dead" /\ downs' = downs + 1
  /\ UNCHANGED <<platform, joined, events, dropped, pc, sync, cause, synced, rest>>

\* The first Ctrl-C cancels the context signal.NotifyContext made (main.go); it keeps
\* catching the next ones.
Interrupt ==
  /\ interrupts < MaxInterrupts
  /\ interrupts' = interrupts + 1
  /\ ctx' = "cancelled"
  /\ UNCHANGED <<platform, wire, pc, sync, cause, synced, terminated, observed, registry,
                 msgs, worker, session>>
-----------------------------------------------------------------------------
(***************************************************************************)
(* The pump: Run and connectAndServe.                                        *)
(***************************************************************************)
\* Does a REST call, or one over the socket, get through.
Rest(kind) == IF ctx = "cancelled" THEN {FALSE} ELSE {TRUE} \cup {kind \notin Faults}
OverSocket == ctx = "live" /\ socket = "up"

Me ==
  /\ pc = "me"
  /\ \E ok \in Rest("me") : pc' = IF ok THEN "connect" ELSE "returned"
  /\ UNCHANGED <<platform, wire, sync, cause, synced, rest>>

\* connectAndServe returns: its socket is closed, and Run finishes or backs off.
Leave(why) ==
  /\ socket' = "none" /\ joined' = {} /\ events' = <<>> /\ UNCHANGED <<downs, dropped>>
  /\ todo' = {} /\ room' = NoRoom /\ back' = "next" /\ served' = {} /\ held' = NoMessage
  /\ cause' = why
  /\ pc' = IF why = "none" \/ ctx = "cancelled" THEN "finish" ELSE "backoff"

Stay(l) == pc' = l /\ UNCHANGED <<wire, cause>>

Connect ==
  /\ pc = "connect"
  /\ \/ /\ ctx = "live"
        /\ socket' = "up" /\ pc' = "topic"
        /\ UNCHANGED <<downs, joined, events, dropped, cause, sync>>
     \/ ctx = "cancelled" /\ Leave("socket")
     \/ /\ ctx = "live" /\ downs < MaxDowns
        /\ downs' = downs + 1
        /\ pc' = "backoff" /\ cause' = "socket"
        /\ UNCHANGED <<socket, joined, events, dropped, sync>>
  /\ UNCHANGED <<platform, synced, rest>>

JoinRoomsTopic ==
  /\ pc = "topic"
  /\ \/ /\ OverSocket
        /\ joined' = joined \cup {"rooms"} /\ pc' = "list"
        /\ UNCHANGED <<downs, socket, events, dropped, cause, sync>>
     \/ ~OverSocket /\ Leave("socket")
  /\ UNCHANGED <<platform, synced, rest>>

ListChats ==
  /\ pc = "list"
  /\ \E ok \in Rest("rest") :
       \/ ok /\ todo' = member /\ Stay("next") /\ UNCHANGED <<room, back, served, held>>
       \/ ~ok /\ Leave("rest")
  /\ UNCHANGED <<platform, synced, rest>>

NextRoom ==
  /\ pc = "next"
  /\ \/ \E r \in todo : /\ todo' = todo \ {r} /\ room' = r /\ Stay("join")
                        /\ UNCHANGED <<back, synced>>
     \/ /\ todo = {} /\ Stay("pump")
        /\ back' = "pump" /\ synced' = TRUE
        /\ UNCHANGED <<todo, room>>
  /\ UNCHANGED <<platform, served, held, rest>>

RoomDone ==
  /\ Stay(back) /\ room' = NoRoom /\ served' = {}
  /\ UNCHANGED <<todo, back, held>>

\* An error while joining or draining ends the round; in the live loop it is logged.
GiveUp(why) == IF back = "next" THEN Leave(why) ELSE RoomDone

\* connectRoom: join the topic; the platform may refuse a room the agent has left.
JoinFails ==
  /\ pc = "join" /\ (~OverSocket \/ room \notin member)
  /\ GiveUp("socket")
  /\ UNCHANGED <<platform, synced, rest>>

Join ==
  /\ pc = "join" /\ OverSocket
  /\ joined' = joined \cup {room} /\ pc' = "drain"
  /\ UNCHANGED <<platform, downs, socket, events, dropped, sync, cause, synced, signals,
                 cancelled, msgs, cur, seen, session>>

\* mutant: a reconnect rebuilds the room
HasNoState(r) == FALSE
HasState(r) == rooms[r] # 0

Rejoin == Join /\ HasState(room) /\ UNCHANGED <<started, rooms, of, wpc>>

StartWorker ==
  /\ Join /\ ~HasState(room)
  /\ started < MaxWorkers
  /\ started' = started + 1
  /\ rooms' = [rooms EXCEPT ![room] = started']
  /\ of' = [of EXCEPT ![started'] = room]
  /\ wpc' = [wpc EXCEPT ![started'] = "idle"]

BuildFails ==
  /\ pc = "join" /\ "build" \in Faults /\ OverSocket /\ ~HasState(room)
  /\ GiveUp("build")
  /\ UNCHANGED <<platform, synced, rest>>
-----------------------------------------------------------------------------
(***************************************************************************)
(* The pump: drainRoom, enqueue and dispatch.                                *)
(***************************************************************************)
\* /next hands out, once in a pass, what is queued or was left claimed.
Servable(r) ==
  {m \in Messages : /\ RoomOf(m) = r /\ r \in member /\ m \notin served
                    /\ status[m] \in {"queued", "processing"}}

HasSeen(m) == m \in seen[rooms[RoomOf(m)]]

Drain ==
  /\ pc = "drain" /\ ctx = "live"
  /\ \E m \in Servable(room) :
       /\ ~HasSeen(m)
       /\ served' = served \cup {m} /\ held' = m
  /\ Stay("enqueue")
  /\ UNCHANGED <<platform, todo, room, back, synced, rest>>

\* mutant: a room that was added is joined and not drained
DrainSkipped ==
  pc = "drain" /\ ctx = "live" /\ RoomDone /\ UNCHANGED <<platform, synced, rest>>
DrainEnds ==
  /\ pc = "drain" /\ ctx = "live"
  /\ Servable(room) = {} \/ \E m \in Servable(room) : HasSeen(m)
  /\ RoomDone
  /\ UNCHANGED <<platform, synced, rest>>

DrainFails ==
  /\ pc = "drain" /\ (FALSE \in Rest("rest") \/ room \notin member)
  /\ GiveUp("rest")
  /\ UNCHANGED <<platform, synced, rest>>

Held == rooms[RoomOf(held)]

\* A drained message returns to the drain, a pushed one to the pump.
Handed ==
  /\ held' = NoMessage
  /\ Stay(IF held \in served THEN "drain" ELSE "pump")
  /\ UNCHANGED <<platform, todo, room, back, served, synced>>

\* mutant: the queue grows
EnqueueUnbounded ==
  /\ pc = "enqueue"
  /\ msgs' = [msgs EXCEPT ![Held] = Append(@, held)]
  /\ Handed
  /\ UNCHANGED <<signals, registry, worker, session>>
Enqueue ==
  /\ pc = "enqueue"
  /\ Len(msgs[Held]) < QueueSize
  /\ msgs' = [msgs EXCEPT ![Held] = Append(@, held)]
  /\ Handed
  /\ UNCHANGED <<signals, registry, worker, session>>

\* mutant: the send does not watch Run's context
NeverReleased == FALSE
Released == ctx = "cancelled"

EnqueueReleased == pc = "enqueue" /\ Released /\ Handed /\ UNCHANGED rest

\* pumpUntilDead chooses among what is ready.
PumpStops ==
  /\ pc = "pump" /\ ctx = "cancelled"
  /\ Leave("none")
  /\ UNCHANGED <<platform, synced, rest>>

\* mutant: Run takes a socket's death for the end
PumpGivesUp ==
  /\ pc = "pump" /\ socket = "dead"
  /\ Leave("none")
  /\ UNCHANGED <<platform, synced, rest>>
PumpDies ==
  /\ pc = "pump" /\ socket = "dead"
  /\ Leave("socket")
  /\ UNCHANGED <<platform, synced, rest>>

Event(kind) == pc = "pump" /\ events # <<>> /\ Head(events).kind = kind

Take(l) ==
  /\ events' = Tail(events) /\ pc' = l
  /\ UNCHANGED <<platform, downs, socket, joined, dropped, cause, todo, back, served,
                 synced>>

RoomAdded ==
  /\ Event("added") /\ Take("join")
  /\ room' = Head(events).on
  /\ UNCHANGED <<held, rest>>

\* mutant: the worker is forgotten but not stopped
ForgetRoom(r) == UNCHANGED cancelled
StopRoom(r) ==
  cancelled' = IF rooms[r] = 0 THEN cancelled ELSE cancelled \cup {rooms[r]}

\* dropRoom.
RoomRemoved ==
  /\ Event("removed") /\ Take("pump")
  /\ LET r == Head(events).on IN rooms' = [rooms EXCEPT ![r] = 0] /\ StopRoom(r)
  /\ UNCHANGED <<room, held, signals, started, of, msgs, worker, session>>

MessageCreated ==
  /\ Event("message")
  /\ LET m == Head(events).on IN
       IF HasState(RoomOf(m)) THEN held' = m /\ Take("enqueue")
       ELSE UNCHANGED held /\ Take("pump")
  /\ UNCHANGED <<room, rest>>

\* Run's backoff; its waits are not timed here.
Backoff ==
  /\ pc = "backoff" /\ cause' = "none"
  /\ \/ pc' = "connect"
     \/ ctx = "cancelled" /\ pc' = "finish"
  /\ UNCHANGED <<platform, wire, sync, synced, rest>>
-----------------------------------------------------------------------------
(***************************************************************************)
(* The workers: serveRoom, and Handle around one turn.                       *)
(***************************************************************************)
Live(w) == ctx = "live" /\ w \notin cancelled

At(w, l) == wpc[w] = l
Goto(w, l) == wpc' = [wpc EXCEPT ![w] = l] /\ UNCHANGED cur
Return(w) ==
  /\ wpc' = [wpc EXCEPT ![w] = "idle"] /\ cur' = [cur EXCEPT ![w] = NoMessage]

\* Dedup and claim; a cancelled context or a known id returns at once.
Begin(w) ==
  /\ At(w, "idle") /\ msgs[w] # <<>>
  /\ msgs' = [msgs EXCEPT ![w] = Tail(@)]
  /\ LET m == Head(msgs[w]) IN
       /\ seen' = [seen EXCEPT ![w] = @ \cup {m}]
       /\ IF m \notin seen[w] /\ Live(w)
          THEN /\ status' = [status EXCEPT ![m] = "processing"]
               /\ cur' = [cur EXCEPT ![w] = m]
               /\ wpc' = [wpc EXCEPT ![w] = IF Traced THEN "claimed" ELSE "turn"]
          ELSE UNCHANGED <<status, cur, wpc>>
  /\ UNCHANGED <<member, moves, wire, pc, sync, cause, synced, signals, registry, session>>

\* Settled on the platform, unless the worker's context was cancelled.
Settled(w) ==
  status' = IF Live(w) THEN [status EXCEPT ![cur[w]] = "settled"] ELSE status

\* What traceSession.start leaves: its first result stands for good, and a cancelled
\* context breaks the session unless the answer was there already.
Sessions(w) ==
  IF session # "new" THEN {session} ELSE IF Live(w) THEN {"open"} ELSE {"open", "broken"}

\* traceSession.start and StartTurn's look at Tracer.terminated, with failTracing; other
\* failures are BandRoom's.
StartTurn(w) ==
  /\ Traced /\ At(w, "claimed")
  /\ IF observed THEN Goto(w, "verdict") /\ UNCHANGED <<status, session>>
     ELSE IF session = "broken" THEN Settled(w) /\ Return(w) /\ UNCHANGED session
     ELSE /\ session' \in Sessions(w)
          /\ IF Live(w) THEN Goto(w, "starting") ELSE Return(w)
          /\ UNCHANGED status
  /\ UNCHANGED <<member, moves, wire, pc, sync, cause, synced, signals, registry, msgs,
                 seen>>

\* The spans are created, unless the context was cancelled before the answers.
TurnStarts(w) ==
  /\ At(w, "starting")
  /\ Goto(w, "turn") \/ (~Live(w) /\ Return(w))
  /\ UNCHANGED <<platform, wire, pc, sync, cause, synced, signals, registry, msgs, seen,
                 session>>

\* The platform ends the session in the answer to a tracing call: of start or StartTurn,
\* in the turn, and, even when its context is cancelled by then, as its span is finished.
SeesVerdict(w) ==
  /\ "terminate" \in Faults /\ Traced /\ wpc[w] \in {"claimed", "starting", "turn", "ended"}
  /\ At(w, "claimed") => session = "new"
  /\ observed' = TRUE
  /\ session' = IF session = "new" THEN "broken" ELSE session
  /\ Goto(w, IF At(w, "turn") THEN "cut" ELSE "verdict")
  /\ UNCHANGED <<platform, wire, pc, sync, cause, synced, interrupts, ctx, terminated,
                 registry, msgs, seen>>

\* RunTurn has returned: Handle looks at its context, before the turn's span is finished.
EndTurn(w) ==
  /\ At(w, "turn") /\ Traced /\ Live(w)
  /\ Goto(w, "ended")
  /\ UNCHANGED <<platform, wire, pc, sync, cause, synced, signals, registry, msgs, seen,
                 session>>

CutShort(w) ==
  /\ At(w, "cut")
  /\ IF Live(w) THEN Goto(w, "verdict") ELSE Return(w)
  /\ UNCHANGED <<platform, wire, pc, sync, cause, synced, signals, registry, msgs, seen,
                 session>>

Settle(w) ==
  /\ At(w, "ended") \/ (At(w, "turn") /\ ~(Traced /\ Live(w)))
  /\ Settled(w) /\ Return(w)
  /\ UNCHANGED <<member, moves, wire, pc, sync, cause, synced, signals, registry, msgs,
                 seen, session>>

\* signalTerminate: onTerminate stops the run, whatever has become of it meanwhile.
Terminate(w) ==
  /\ At(w, "verdict")
  /\ terminated' = TRUE /\ ctx' = "cancelled"
  /\ Return(w)
  /\ UNCHANGED <<platform, wire, pc, sync, cause, synced, interrupts, observed, registry,
                 msgs, seen, session>>

StopWorker(w) ==
  /\ At(w, "idle") /\ ~Live(w)
  /\ wpc' = [wpc EXCEPT ![w] = "stopped"]
  /\ msgs' = [msgs EXCEPT ![w] = <<>>] /\ seen' = [seen EXCEPT ![w] = {}]
  /\ UNCHANGED <<platform, wire, pc, sync, cause, synced, signals, registry, cur,
                 session>>
-----------------------------------------------------------------------------
(***************************************************************************)
(* The end of Run: finishSession, then the deferred shutdownRooms.           *)
(***************************************************************************)
Finishes == Traced /\ session = "open" /\ ~terminated

\* finishSession looks at Runner.terminated ...
FinishSession ==
  /\ pc = "finish" /\ pc' = IF Finishes THEN "finishing" ELSE "shutdown"
  /\ UNCHANGED <<platform, wire, sync, cause, synced, rest>>

\* ... and Tracer.FinishSession at Tracer.terminated, after it.
RecordFinish ==
  /\ pc = "finishing" /\ pc' = "shutdown"
  /\ session' = IF observed THEN session ELSE "finished"
  /\ UNCHANGED <<platform, wire, sync, cause, synced, signals, registry, msgs, worker>>

ShutdownRooms ==
  /\ pc = "shutdown" /\ pc' = "grace"
  /\ rooms' = [r \in Rooms |-> 0]
  /\ cancelled' = cancelled \cup ({rooms[r] : r \in Rooms} \ {0})
  /\ UNCHANGED <<platform, wire, sync, cause, synced, signals, started, of, msgs, worker,
                 session>>

Busy(w) == wpc[w] \notin {"unstarted", "stopped"}

AllDone ==
  /\ pc = "grace" /\ pc' = "returned"
  /\ \A w \in Workers : ~Busy(w)
  /\ UNCHANGED <<platform, wire, sync, cause, synced, rest>>

\* The 5 seconds of shutdownGrace are over.
Abandon ==
  /\ pc = "grace" /\ pc' = "returned"
  /\ \E w \in Workers : Busy(w)
  /\ UNCHANGED <<platform, wire, sync, cause, synced, rest>>
-----------------------------------------------------------------------------
Round == Me \/ Connect \/ JoinRoomsTopic \/ ListChats \/ NextRoom
Rooming == JoinFails \/ Rejoin \/ StartWorker \/ BuildFails
Draining == Drain \/ DrainEnds \/ DrainFails \/ Enqueue \/ EnqueueReleased
Pumping ==
  PumpStops \/ PumpDies \/ RoomAdded \/ RoomRemoved \/ MessageCreated \/ Backoff
Ending == FinishSession \/ RecordFinish \/ ShutdownRooms \/ AllDone \/ Abandon

Pump == Round \/ Rooming \/ Draining \/ Pumping \/ Ending

Turn(w) ==
  \/ StartTurn(w) \/ TurnStarts(w) \/ SeesVerdict(w)
  \/ EndTurn(w) \/ CutShort(w) \/ Settle(w) \/ Terminate(w)
Worker(w) == Begin(w) \/ StopWorker(w)

Outside ==
  \/ \E r \in Rooms : Enter(r) \/ Exit(r)
  \/ \E m \in Messages : Post(m)
  \/ SocketDies \/ Interrupt

\* A process that has returned is gone, with what its workers were doing.
Next ==
  /\ pc # "returned"
  /\ Outside \/ Pump \/ \E w \in Workers : Worker(w) \/ Turn(w)

Spec == Init /\ [][Next]_vars

\* The pump and the workers are goroutines that run when they can; a turn may never
\* end, unless TurnsEnd holds.
FairSpec ==
  Spec /\ WF_vars(Pump) /\ \A w \in Workers : WF_vars(pc # "returned" /\ Worker(w))

TurnsEnd == \A w \in Workers : WF_vars(pc # "returned" /\ Turn(w))
-----------------------------------------------------------------------------
TypeOK ==
  /\ member \subseteq Rooms
  /\ status \in [Messages -> {"absent", "queued", "processing", "settled"}]
  /\ moves \in Nat /\ downs \in Nat /\ interrupts \in Nat
  /\ socket \in {"none", "up", "dead"}
  /\ joined \subseteq Rooms \cup {"rooms"}
  /\ events \in Seq(Events)
  /\ pc \in {"me", "connect", "topic", "list", "next", "join", "drain", "enqueue",
             "pump", "backoff", "finish", "finishing", "shutdown", "grace", "returned"}
  /\ todo \subseteq Rooms /\ room \in Rooms \cup {NoRoom} /\ back \in {"next", "pump"}
  /\ served \subseteq Messages /\ held \in Messages \cup {NoMessage}
  /\ cause \in {"none", "socket", "rest", "build"}
  /\ ctx \in {"live", "cancelled"}
  /\ synced \in BOOLEAN /\ dropped \in BOOLEAN
  /\ terminated \in BOOLEAN /\ observed \in BOOLEAN
  /\ rooms \in [Rooms -> 0..started] /\ started \in 0..MaxWorkers
  /\ of \in [Workers -> Rooms \cup {NoRoom}]
  /\ cancelled \subseteq Workers
  /\ msgs \in [Workers -> Seq(Messages)]
  /\ \A w \in Workers : Len(msgs[w]) <= QueueSize
  /\ wpc \in [Workers -> {"unstarted", "idle", "claimed", "starting", "turn", "cut", "ended",
                         "verdict", "stopped"}]
  /\ cur \in [Workers -> Messages \cup {NoMessage}]
  /\ seen \in [Workers -> SUBSET Messages]
  /\ session \in {"new", "open", "broken", "finished"}

InTurn(w) == wpc[w] = "turn"

\* Until the process shuts down, the workers that take messages are those the room
\* map holds: a reconnect starts no second one and a room that was dropped keeps none
\* (connectRoom, dropRoom).
LiveWorkersHeld ==
  \A w \in 1..started : Live(w) => rooms[of[w]] = w

\* From StartTurn's first request to the last of the turn's span.
Tracing(w) == wpc[w] \in {"starting", "turn", "cut", "ended"}

\* A session that is over stays as it is: once it was finished, or a call in any room was
\* told that the platform ended it, no room opens a turn in it and it is not finished
\* (again): "a second finish would be rejected" (finishSession, Tracer.checkLocked).
\* Turns that were being traced by then go on to their end, which may come after it.
SessionStaysOver ==
  [][session = "finished" \/ observed =>
       session' = session /\ \A w \in Workers : Tracing(w)' => Tracing(w)]_vars

\* "Methods are not safe for concurrent use; a session's turns run sequentially"
\* (usage.Account): the turns that add to sessionAccount, whose Add is an unlocked
\* append, run one at a time.
TurnsSequential == \A v, w \in Workers : InTurn(v) /\ InTurn(w) => v = w

\* A stop is never held up, by a full queue or a turn that does not end (enqueue,
\* shutdownRooms).
StopReturns == ctx = "cancelled" ~> pc = "returned"

\* When turns end, on a connection that lasts and drops nothing, every message of a
\* room the agent stays in is served, whether it came before the join, through it or
\* after it, and whatever other rooms come and go.
ServedOnConnection ==
  TurnsEnd /\ [](cause = "none" /\ ~dropped) =>
    \A m \in Messages :
      status[m] = "queued"
        ~> status[m] = "settled" \/ RoomOf(m) \notin member \/ ctx = "cancelled"
=============================================================================

-------------------------- MODULE BandRunnerProofs --------------------------
(***************************************************************************)
(* Proofs about BandRunner, for every set of rooms, every queue size and    *)
(* every number of messages, moves, outages and interrupts: typing, one     *)
(* live worker per room, and the end of the traced session.                 *)
(***************************************************************************)
EXTENDS BandRunner, TLAPS

(***************************************************************************)
(* The inductive invariant.  The room map and the workers agree on who      *)
(* serves which room; while the pump joins or drains a room it knows one;   *)
(* and the pump only finishes under a cancelled context.                    *)
(***************************************************************************)
Registry ==
  /\ \A w \in 1..started : of[w] \in Rooms
  /\ \A r \in Rooms : rooms[r] # 0 => of[rooms[r]] = r

RoomKnown ==
  /\ pc \in {"join", "drain"} => room \in Rooms
  /\ served # {} => room \in Rooms
  /\ pc = "enqueue" => held \in Messages

Cancelled ==
  /\ pc \in {"finish", "finishing", "shutdown", "grace"} => ctx = "cancelled"
  /\ session = "finished" => ctx = "cancelled"
  /\ observed => session # "new"
  /\ session # "new" \/ pc = "finishing" => Traced

IInv == TypeOK /\ Registry /\ LiveWorkersHeld /\ RoomKnown /\ Cancelled
-----------------------------------------------------------------------------
USE BandRunnerAssumption

(***************************************************************************)
(* What a turn changes.                                                      *)
(***************************************************************************)
Progress(w) ==
  /\ UNCHANGED <<member, moves, wire, pc, sync, cause, synced, interrupts, registry, msgs, seen>>
  /\ status' = status \/ status' = [status EXCEPT ![cur[w]] = "settled"]
  /\ \/ ctx' = ctx /\ terminated' = terminated
     \/ ctx' = "cancelled" /\ terminated' = TRUE
  /\ observed' = observed \/ (observed' = TRUE /\ session' # "new")
  /\ \E l \in {"idle", "starting", "turn", "cut", "ended", "verdict"} : wpc' = [wpc EXCEPT ![w] = l]
  /\ cur' = cur \/ cur' = [cur EXCEPT ![w] = NoMessage]
  /\ \/ session' = session
     \/ session = "new" /\ Traced /\ session' \in {"open", "broken"}

LEMMA TurnProgresses ==
  ASSUME NEW w, Turn(w)
  PROVE  Progress(w)
<1>1. CASE StartTurn(w)
  BY <1>1 DEF Progress, StartTurn, Sessions, Settled, Goto, Return, signals
<1>2. CASE SeesVerdict(w)
  <2>1. \E l \in {"idle", "starting", "turn", "cut", "ended", "verdict"} : wpc' = [wpc EXCEPT ![w] = l]
    BY <1>2 DEF SeesVerdict, Goto
  <2> QED BY <1>2, <2>1 DEF Progress, SeesVerdict, Goto, platform
<1>3. CASE TurnStarts(w) \/ EndTurn(w) \/ CutShort(w)
  BY <1>3 DEF Progress, TurnStarts, EndTurn, CutShort, Goto, Return, signals, platform
<1>4. CASE Settle(w)
  BY <1>4 DEF Progress, Settle, Settled, Return, signals
<1>5. CASE Terminate(w)
  BY <1>5 DEF Progress, Terminate, Return, platform
<1> QED BY <1>1, <1>2, <1>3, <1>4, <1>5 DEF Turn
-----------------------------------------------------------------------------
(***************************************************************************)
(* What the pump changes.                                                    *)
(***************************************************************************)
\* A worker of the registry has a room, and the room map names workers.
LEMMA RegistryKept ==
  ASSUME Registry, LiveWorkersHeld, UNCHANGED <<registry, ctx>>
  PROVE  Registry' /\ LiveWorkersHeld'
BY DEF Registry, LiveWorkersHeld, registry, Live

\* A cancelled context has no live worker.
LEMMA RegistryCancelled ==
  ASSUME Registry, UNCHANGED registry, ctx' = "cancelled"
  PROVE  Registry' /\ LiveWorkersHeld'
BY DEF Registry, LiveWorkersHeld, registry, Live

\* connectRoom starts a worker only for a room that has none.
LEMMA StartWorkerRegistry ==
  ASSUME IInv, StartWorker
  PROVE  Registry' /\ LiveWorkersHeld'
<1>1. /\ room \in Rooms /\ rooms[room] = 0
      /\ rooms \in [Rooms -> 0..started] /\ started \in 0..MaxWorkers
      /\ of \in [Workers -> Rooms \cup {NoRoom}]
      /\ started' = started + 1 /\ started < MaxWorkers
      /\ rooms' = [rooms EXCEPT ![room] = started + 1]
      /\ of' = [of EXCEPT ![started + 1] = room]
      /\ UNCHANGED <<ctx, cancelled>>
  BY DEF IInv, TypeOK, RoomKnown, StartWorker, Join, HasState, signals
<1>2. started + 1 \in Workers /\ \A w \in 1..started : w \in Workers /\ w # started + 1
  BY <1>1 DEF Workers
<1>3. /\ of'[started + 1] = room /\ rooms'[room] = started + 1
      /\ \A w \in 1..started : of'[w] = of[w] /\ of[w] \in Rooms
      /\ \A r \in Rooms \ {room} : rooms'[r] = rooms[r]
  BY <1>1, <1>2 DEF IInv, Registry
<1>4. Registry'
  <2>1. ASSUME NEW w \in 1..(started + 1)
        PROVE  of'[w] \in Rooms
    BY <1>1, <1>3
  <2>2. ASSUME NEW r \in Rooms, rooms'[r] # 0
        PROVE  of'[rooms'[r]] = r
    <3>1. CASE r = room
      BY <1>3, <3>1
    <3>2. CASE r # room
      BY <1>1, <1>3, <2>2, <3>2 DEF IInv, Registry
    <3> QED BY <3>1, <3>2
  <2> QED BY <1>1, <2>1, <2>2 DEF Registry
<1>5. LiveWorkersHeld'
  <2> SUFFICES ASSUME NEW w \in 1..(started + 1), Live(w)'
               PROVE  rooms'[of'[w]] = w
    BY <1>1 DEF LiveWorkersHeld
  <2>1. CASE w = started + 1
    BY <1>3, <2>1
  <2>2. CASE w \in 1..started
    <3>1. Live(w)
      BY <1>1 DEF Live
    <3>2. rooms[of[w]] = w
      BY <2>2, <3>1 DEF IInv, LiveWorkersHeld
    <3> QED BY <1>1, <1>3, <2>2, <3>2
  <2> QED BY <1>1, <2>1, <2>2
<1> QED BY <1>4, <1>5

\* dropRoom cancels the worker it forgets.
LEMMA RoomRemovedRegistry ==
  ASSUME IInv, RoomRemoved
  PROVE  Registry' /\ LiveWorkersHeld'
<1> DEFINE r == Head(events).on
<1>1. /\ rooms \in [Rooms -> 0..started] /\ started \in 0..MaxWorkers
      /\ rooms' = [rooms EXCEPT ![r] = 0]
      /\ cancelled' = IF rooms[r] = 0 THEN cancelled ELSE cancelled \cup {rooms[r]}
      /\ UNCHANGED <<ctx, started, of>>
  BY DEF IInv, TypeOK, RoomRemoved, StopRoom, signals
<1>2. Registry'
  BY <1>1 DEF IInv, Registry
<1>3. LiveWorkersHeld'
  <2> SUFFICES ASSUME NEW w \in 1..started, Live(w)'
               PROVE  rooms'[of[w]] = w
    BY <1>1 DEF LiveWorkersHeld
  <2>1. Live(w) /\ of[w] \in Rooms /\ rooms[of[w]] = w
    BY <1>1 DEF IInv, Live, LiveWorkersHeld, Registry
  <2>2. of[w] # r
    BY <1>1, <2>1 DEF Live
  <2> QED BY <1>1, <2>1, <2>2
<1> QED BY <1>2, <1>3

\* shutdownRooms cancels every worker the map holds.
LEMMA ShutdownRegistry ==
  ASSUME IInv, ShutdownRooms
  PROVE  Registry' /\ LiveWorkersHeld'
<1>1. /\ rooms' = [r \in Rooms |-> 0]
      /\ cancelled' = cancelled \cup ({rooms[r] : r \in Rooms} \ {0})
      /\ UNCHANGED <<ctx, started, of>>
      /\ started \in 0..MaxWorkers
  BY DEF ShutdownRooms, signals, IInv, TypeOK
<1>2. Registry'
  BY <1>1 DEF IInv, Registry
<1>3. LiveWorkersHeld'
  BY <1>1 DEF IInv, Live, LiveWorkersHeld, Registry
<1> QED BY <1>2, <1>3

\* Every other step leaves the registry alone.
LEMMA RegistryStep ==
  ASSUME IInv, [Next]_vars
  PROVE  Registry' /\ LiveWorkersHeld'
<1> USE DEF IInv
<1>1. CASE UNCHANGED vars
  BY <1>1, RegistryKept DEF vars, rest, signals
<1>2. CASE Outside
  <2>1. CASE Interrupt
    BY <2>1, RegistryCancelled DEF Interrupt
  <2>2. CASE \/ \E r \in Rooms : Enter(r) \/ Exit(r)
             \/ \E m \in Messages : Post(m)
             \/ SocketDies
    <3>1. UNCHANGED <<registry, ctx>>
      BY <2>2 DEF Enter, Exit, Move, Post, SocketDies, rest, signals
    <3> QED BY <3>1, RegistryKept
  <2> QED BY <1>2, <2>1, <2>2 DEF Outside
<1>3. CASE Round
  <2>1. UNCHANGED <<registry, ctx>>
    BY <1>3 DEF Round, Me, Connect, JoinRoomsTopic, ListChats, NextRoom, rest, signals
  <2> QED BY <2>1, RegistryKept
<1>4. CASE JoinFails \/ Rejoin \/ BuildFails
  <2>1. UNCHANGED <<registry, ctx>>
    BY <1>4 DEF JoinFails, Rejoin, BuildFails, Join, rest, signals, registry
  <2> QED BY <2>1, RegistryKept
<1>5. CASE StartWorker
  BY <1>5, StartWorkerRegistry
<1>6. CASE Draining
  <2>1. UNCHANGED <<registry, ctx>>
    BY <1>6 DEF Draining, Drain, DrainEnds, DrainFails, Enqueue, EnqueueReleased, rest, signals
  <2> QED BY <2>1, RegistryKept
<1>7. CASE RoomRemoved
  BY <1>7, RoomRemovedRegistry
<1>8. CASE PumpStops \/ PumpDies \/ RoomAdded \/ MessageCreated \/ Backoff
  <2>1. UNCHANGED <<registry, ctx>>
    BY <1>8 DEF PumpStops, PumpDies, RoomAdded, MessageCreated, Backoff, rest, signals
  <2> QED BY <2>1, RegistryKept
<1>9. CASE ShutdownRooms
  BY <1>9, ShutdownRegistry
<1>10. CASE FinishSession \/ RecordFinish \/ AllDone \/ Abandon
  <2>1. UNCHANGED <<registry, ctx>>
    BY <1>10 DEF FinishSession, RecordFinish, AllDone, Abandon, rest, signals
  <2> QED BY <2>1, RegistryKept
<1>11. ASSUME NEW w \in Workers, Turn(w)
       PROVE  Registry' /\ LiveWorkersHeld'
  <2>1. UNCHANGED registry /\ (UNCHANGED ctx \/ ctx' = "cancelled")
    BY <1>11, TurnProgresses DEF Progress
  <2> QED BY <2>1, RegistryKept, RegistryCancelled
<1>12. ASSUME NEW w \in Workers, Worker(w)
       PROVE  Registry' /\ LiveWorkersHeld'
  <2>1. UNCHANGED <<registry, ctx>>
    BY <1>12 DEF Worker, Begin, StopWorker, signals
  <2> QED BY <2>1, RegistryKept
<1> QED
  BY <1>1, <1>2, <1>3, <1>4, <1>5, <1>6, <1>7, <1>8, <1>9, <1>10, <1>11, <1>12
  DEF Next, Pump, Rooming, Pumping, Ending
-----------------------------------------------------------------------------
(***************************************************************************)
(* Where the pump stands.                                                    *)
(***************************************************************************)
LEMMA HeadEvent ==
  ASSUME events \in Seq(Events), events # <<>>
  PROVE  /\ Head(events) \in Events /\ Tail(events) \in Seq(Events)
         /\ Head(events).kind \in {"added", "removed"} => Head(events).on \in Rooms
         /\ Head(events).kind = "message" => Head(events).on \in Messages
<1>1. Head(events) \in Events /\ Tail(events) \in Seq(Events)
  OBVIOUS
<1> QED BY <1>1 DEF Events

\* An error while joining or draining leaves the pump with no room to join or drain.
LEMMA GiveUpRoomKnown ==
  ASSUME NEW why, RoomKnown, back \in {"next", "pump"}, GiveUp(why)
  PROVE  RoomKnown'
<1>1. CASE Leave(why)
  BY <1>1 DEF RoomKnown, Leave
<1>2. CASE RoomDone
  BY <1>2 DEF RoomKnown, RoomDone, Stay
<1> QED BY <1>1, <1>2 DEF GiveUp

\* What joins or drains, and what was drained, belongs to a room.
LEMMA RoomKnownStep ==
  ASSUME IInv, [Next]_vars
  PROVE  RoomKnown'
<1>0. /\ RoomKnown /\ back \in {"next", "pump"} /\ todo \subseteq Rooms
      /\ events \in Seq(Events)
  BY DEF IInv, TypeOK
<1>1. CASE UNCHANGED vars
  BY <1>0, <1>1 DEF RoomKnown, vars, sync
<1>2. CASE Outside
  BY <1>0, <1>2 DEF RoomKnown, Outside, Enter, Exit, Move, Post, SocketDies, Interrupt, sync
<1>3. CASE Round
  BY <1>0, <1>3 DEF RoomKnown, Round, Me, Connect, JoinRoomsTopic, ListChats, NextRoom,
                    Leave, Stay, sync
<1>4. CASE Rejoin \/ StartWorker
  BY <1>0, <1>4 DEF RoomKnown, Rejoin, StartWorker, Join, sync
<1>5. CASE JoinFails \/ BuildFails \/ DrainFails
  BY <1>0, <1>5, GiveUpRoomKnown DEF JoinFails, BuildFails, DrainFails
<1>6. CASE Drain
  BY <1>0, <1>6 DEF RoomKnown, Drain, Servable, Stay
<1>7. CASE DrainEnds
  BY <1>0, <1>7 DEF RoomKnown, DrainEnds, RoomDone, Stay
<1>8. CASE Enqueue \/ EnqueueReleased
  BY <1>0, <1>8 DEF RoomKnown, Enqueue, EnqueueReleased, Handed, Stay
<1>9. CASE PumpStops \/ PumpDies \/ Backoff
  BY <1>0, <1>9 DEF RoomKnown, PumpStops, PumpDies, Backoff, Leave, sync
<1>10. CASE RoomAdded
  BY <1>0, <1>10, HeadEvent DEF RoomKnown, RoomAdded, Event, Take
<1>11. CASE RoomRemoved \/ MessageCreated
  BY <1>0, <1>11, HeadEvent DEF RoomKnown, RoomRemoved, MessageCreated, Event, Take
<1>12. CASE Ending
  BY <1>0, <1>12 DEF RoomKnown, Ending, FinishSession, RecordFinish, ShutdownRooms, AllDone,
                     Abandon, sync
<1>13. ASSUME NEW w \in Workers, Worker(w) \/ Turn(w)
       PROVE  RoomKnown'
  <2>1. UNCHANGED <<pc, sync>>
    BY <1>13, TurnProgresses DEF Progress, Worker, Begin, StopWorker
  <2> QED BY <1>0, <2>1 DEF RoomKnown, sync
<1> QED
  BY <1>1, <1>2, <1>3, <1>4, <1>5, <1>6, <1>7, <1>8, <1>9, <1>10, <1>11, <1>12, <1>13
  DEF Next, Pump, Rooming, Draining, Pumping

\* The pump finishes only when it was stopped, and then the session is the last thing.
LEMMA GiveUpCancelled ==
  ASSUME NEW why, why # "none", Cancelled, back \in {"next", "pump"}, GiveUp(why),
         UNCHANGED <<ctx, session, observed>>
  PROVE  Cancelled'
<1>1. CASE Leave(why)
  BY <1>1 DEF Cancelled, Leave
<1>2. CASE RoomDone
  BY <1>2 DEF Cancelled, RoomDone, Stay
<1> QED BY <1>1, <1>2 DEF GiveUp

LEMMA CancelledStep ==
  ASSUME IInv, [Next]_vars
  PROVE  Cancelled'
<1>0. Cancelled /\ back \in {"next", "pump"} /\ ctx \in {"live", "cancelled"}
  BY DEF IInv, TypeOK
<1>1. CASE UNCHANGED <<pc, ctx, session, observed>>
  BY <1>0, <1>1 DEF Cancelled
<1>2. CASE Interrupt
  BY <1>0, <1>2 DEF Cancelled, Interrupt
<1>3. CASE \/ \E r \in Rooms : Enter(r) \/ Exit(r)
           \/ \E m \in Messages : Post(m)
           \/ SocketDies
  BY <1>1, <1>3 DEF Enter, Exit, Move, Post, SocketDies, rest, signals
<1>4. CASE Round
  <2>1. UNCHANGED <<ctx, session, observed>>
    BY <1>4 DEF Round, Me, Connect, JoinRoomsTopic, ListChats, NextRoom, rest, signals
  <2>2. /\ pc' \in {"finish", "shutdown", "grace"} => ctx = "cancelled"
        /\ pc' # "finishing"
    BY <1>4 DEF Round, Me, Connect, JoinRoomsTopic, ListChats, NextRoom, Leave, Stay
  <2> QED BY <1>0, <2>1, <2>2 DEF Cancelled
<1>5. CASE Rejoin \/ StartWorker
  BY <1>0, <1>5 DEF Cancelled, Rejoin, StartWorker, Join, signals
<1>6. CASE JoinFails \/ BuildFails \/ DrainFails
  BY <1>0, <1>6, GiveUpCancelled DEF JoinFails, BuildFails, DrainFails, rest, signals
<1>7. CASE Drain
  BY <1>0, <1>7 DEF Cancelled, Drain, Stay, rest, signals
<1>8. CASE DrainEnds
  BY <1>0, <1>8 DEF Cancelled, DrainEnds, RoomDone, Stay, rest, signals
<1>9. CASE Enqueue \/ EnqueueReleased
  BY <1>0, <1>9 DEF Cancelled, Enqueue, EnqueueReleased, Handed, Stay, rest, signals
<1>10. CASE Pumping
  BY <1>0, <1>10 DEF Cancelled, Pumping, PumpStops, PumpDies, RoomAdded, RoomRemoved,
              MessageCreated, Backoff, Event, Take, Leave, rest, signals
<1>11. CASE Ending
  BY <1>0, <1>11 DEF Cancelled, Ending, FinishSession, RecordFinish, ShutdownRooms, AllDone,
                     Abandon, Finishes, rest, signals
<1>12. ASSUME NEW w \in Workers, Worker(w)
       PROVE  Cancelled'
  BY <1>1, <1>12 DEF Worker, Begin, StopWorker, signals
<1>13. ASSUME NEW w \in Workers, Turn(w)
       PROVE  Cancelled'
  <2>1. Progress(w)
    BY <1>13, TurnProgresses
  <2>2. /\ pc' = pc /\ (ctx' = ctx \/ ctx' = "cancelled")
        /\ observed' = observed \/ session' # "new"
        /\ session' = session \/ (Traced /\ session' \in {"open", "broken"})
    BY <2>1 DEF Progress
  <2> QED BY <1>0, <2>2 DEF Cancelled
<1> QED
  BY <1>1, <1>2, <1>3, <1>4, <1>5, <1>6, <1>7, <1>8, <1>9, <1>10, <1>11, <1>12,
     <1>13
  DEF Next, Outside, Pump, Rooming, Draining, vars, rest, signals
-----------------------------------------------------------------------------
(***************************************************************************)
(* Typing, a group of variables at a time.                                   *)
(***************************************************************************)
PlatformTyped ==
  /\ member \subseteq Rooms
  /\ status \in [Messages -> {"absent", "queued", "processing", "settled"}]
  /\ moves \in Nat
WireTyped ==
  /\ downs \in Nat /\ socket \in {"none", "up", "dead"}
  /\ joined \subseteq Rooms \cup {"rooms"}
  /\ events \in Seq(Events) /\ dropped \in BOOLEAN
PumpTyped ==
  /\ pc \in {"me", "connect", "topic", "list", "next", "join", "drain", "enqueue",
             "pump", "backoff", "finish", "finishing", "shutdown", "grace", "returned"}
  /\ todo \subseteq Rooms /\ room \in Rooms \cup {NoRoom} /\ back \in {"next", "pump"}
  /\ served \subseteq Messages /\ held \in Messages \cup {NoMessage}
  /\ cause \in {"none", "socket", "rest", "build"} /\ synced \in BOOLEAN
SignalsTyped ==
  /\ interrupts \in Nat /\ ctx \in {"live", "cancelled"}
  /\ terminated \in BOOLEAN /\ observed \in BOOLEAN
RegistryTyped ==
  /\ rooms \in [Rooms -> 0..started] /\ started \in 0..MaxWorkers
  /\ of \in [Workers -> Rooms \cup {NoRoom}]
  /\ cancelled \subseteq Workers
QueuesTyped ==
  /\ msgs \in [Workers -> Seq(Messages)]
  /\ \A w \in Workers : Len(msgs[w]) <= QueueSize
WorkersTyped ==
  /\ wpc \in [Workers -> {"unstarted", "idle", "claimed", "starting", "turn", "cut", "ended", "verdict",
                         "stopped"}]
  /\ cur \in [Workers -> Messages \cup {NoMessage}]
  /\ seen \in [Workers -> SUBSET Messages]
  /\ session \in {"new", "open", "broken", "finished"}

LEMMA TypedGroups ==
  TypeOK <=> /\ PlatformTyped /\ WireTyped /\ PumpTyped /\ SignalsTyped
             /\ RegistryTyped /\ QueuesTyped /\ WorkersTyped
BY DEF TypeOK, PlatformTyped, WireTyped, PumpTyped, SignalsTyped, RegistryTyped,
       QueuesTyped, WorkersTyped

LEMMA PlatformStep ==
  ASSUME PlatformTyped, [Next]_vars
  PROVE  PlatformTyped'
<1>1. CASE UNCHANGED platform
  BY <1>1 DEF platform, PlatformTyped
<1>2. ASSUME NEW r \in Rooms, Enter(r) \/ Exit(r)
      PROVE  PlatformTyped'
  BY <1>2 DEF PlatformTyped, Enter, Exit, Move
<1>3. ASSUME NEW m \in Messages, Post(m)
      PROVE  PlatformTyped'
  BY <1>3 DEF PlatformTyped, Post
<1>4. CASE SocketDies \/ Interrupt
  BY <1>1, <1>4 DEF SocketDies, Interrupt
<1>5. CASE Round
  BY <1>1, <1>5 DEF Round, Me, Connect, JoinRoomsTopic, ListChats, NextRoom
<1>6. CASE Rooming
  BY <1>1, <1>6 DEF Rooming, JoinFails, Rejoin, StartWorker, BuildFails, Join
<1>7. CASE Draining
  BY <1>1, <1>7 DEF Draining, Drain, DrainEnds, DrainFails, Enqueue, EnqueueReleased, Handed
<1>8. CASE Pumping
  BY <1>1, <1>8 DEF Pumping, PumpStops, PumpDies, RoomAdded, RoomRemoved, MessageCreated,
                    Backoff, Take
<1>9. CASE Ending
  BY <1>1, <1>9 DEF Ending, FinishSession, RecordFinish, ShutdownRooms, AllDone, Abandon
<1>10. ASSUME NEW w \in Workers, StopWorker(w) \/ Begin(w)
       PROVE  PlatformTyped'
  BY <1>1, <1>10 DEF PlatformTyped, StopWorker, Begin
<1>11. ASSUME NEW w \in Workers, Turn(w)
       PROVE  PlatformTyped'
  <2>1. /\ UNCHANGED <<member, moves>>
        /\ UNCHANGED status \/ status' = [status EXCEPT ![cur[w]] = "settled"]
    BY <1>11, TurnProgresses DEF Progress
  <2> QED BY <2>1 DEF PlatformTyped
<1> QED
  BY <1>1, <1>2, <1>3, <1>4, <1>5, <1>6, <1>7, <1>8, <1>9, <1>10, <1>11
  DEF Next, Outside, Pump, Worker, vars

LEMMA SignalsStep ==
  ASSUME SignalsTyped, [Next]_vars
  PROVE  SignalsTyped'
<1>1. CASE UNCHANGED signals
  BY <1>1 DEF signals, SignalsTyped
<1>2. CASE Interrupt
  BY <1>2 DEF SignalsTyped, Interrupt
<1>3. CASE \/ \E r \in Rooms : Enter(r) \/ Exit(r)
           \/ \E m \in Messages : Post(m)
           \/ SocketDies
  BY <1>1, <1>3 DEF Enter, Exit, Move, Post, SocketDies, rest
<1>4. CASE Round
  BY <1>1, <1>4 DEF Round, Me, Connect, JoinRoomsTopic, ListChats, NextRoom, rest
<1>5. CASE Rooming
  BY <1>1, <1>5 DEF Rooming, JoinFails, Rejoin, StartWorker, BuildFails, Join, rest
<1>6. CASE Draining
  BY <1>1, <1>6 DEF Draining, Drain, DrainEnds, DrainFails, Enqueue, EnqueueReleased, rest
<1>7. CASE Pumping
  BY <1>1, <1>7 DEF Pumping, PumpStops, PumpDies, RoomAdded, RoomRemoved, MessageCreated,
                    Backoff, rest
<1>8. CASE Ending
  BY <1>1, <1>8 DEF Ending, FinishSession, RecordFinish, ShutdownRooms, AllDone, Abandon, rest
<1>9. ASSUME NEW w \in Workers, Worker(w)
      PROVE  SignalsTyped'
  BY <1>1, <1>9 DEF Worker, Begin, StopWorker
<1>10. ASSUME NEW w \in Workers, Turn(w)
       PROVE  SignalsTyped'
  BY <1>10, TurnProgresses DEF SignalsTyped, Progress
<1> QED
  BY <1>1, <1>2, <1>3, <1>4, <1>5, <1>6, <1>7, <1>8, <1>9, <1>10
  DEF Next, Outside, Pump, vars, rest

LEMMA RegistryTypedStep ==
  ASSUME RegistryTyped, RoomKnown, events \in Seq(Events), [Next]_vars
  PROVE  RegistryTyped'
<1>1. CASE UNCHANGED registry
  BY <1>1 DEF registry, RegistryTyped
<1>2. CASE Outside
  BY <1>1, <1>2 DEF Outside, Enter, Exit, Move, Post, SocketDies, Interrupt, rest
<1>3. CASE Round
  BY <1>1, <1>3 DEF Round, Me, Connect, JoinRoomsTopic, ListChats, NextRoom, rest
<1>4. CASE JoinFails \/ Rejoin \/ BuildFails
  BY <1>1, <1>4 DEF JoinFails, Rejoin, BuildFails, Join, rest, registry
<1>5. CASE StartWorker
  <2>1. /\ room \in Rooms /\ started < MaxWorkers /\ started' = started + 1
        /\ rooms' = [rooms EXCEPT ![room] = started + 1]
        /\ of' = [of EXCEPT ![started + 1] = room]
        /\ UNCHANGED cancelled
    BY <1>5 DEF RoomKnown, StartWorker, Join
  <2>2. /\ started' \in 0..MaxWorkers /\ started' \in 0..started'
        /\ 0..started \subseteq 0..started'
    BY <2>1 DEF RegistryTyped
  <2> QED BY <2>1, <2>2 DEF RegistryTyped
<1>6. CASE Draining
  BY <1>1, <1>6 DEF Draining, Drain, DrainEnds, DrainFails, Enqueue, EnqueueReleased, rest
<1>7. CASE RoomRemoved
  <2> DEFINE r == Head(events).on
  <2>1. /\ r \in Rooms /\ rooms' = [rooms EXCEPT ![r] = 0] /\ UNCHANGED <<started, of>>
        /\ cancelled' = IF rooms[r] = 0 THEN cancelled ELSE cancelled \cup {rooms[r]}
    BY <1>7, HeadEvent DEF RoomRemoved, Event, StopRoom
  <2>2. rooms[r] = 0 \/ rooms[r] \in Workers
    BY <2>1 DEF RegistryTyped, Workers
  <2> QED BY <2>1, <2>2 DEF RegistryTyped
<1>8. CASE PumpStops \/ PumpDies \/ RoomAdded \/ MessageCreated \/ Backoff
  BY <1>1, <1>8 DEF PumpStops, PumpDies, RoomAdded, MessageCreated, Backoff, rest
<1>9. CASE ShutdownRooms
  <2>1. {rooms[r] : r \in Rooms} \ {0} \subseteq Workers
    BY DEF RegistryTyped, Workers
  <2> QED BY <1>9, <2>1 DEF RegistryTyped, ShutdownRooms
<1>10. CASE FinishSession \/ RecordFinish \/ AllDone \/ Abandon
  BY <1>1, <1>10 DEF FinishSession, RecordFinish, AllDone, Abandon, rest
<1>11. ASSUME NEW w \in Workers, Worker(w) \/ Turn(w)
       PROVE  RegistryTyped'
  BY <1>1, <1>11, TurnProgresses DEF Progress, Worker, Begin, StopWorker
<1> QED
  BY <1>1, <1>2, <1>3, <1>4, <1>5, <1>6, <1>7, <1>8, <1>9, <1>10, <1>11
  DEF Next, Pump, Rooming, Pumping, Ending, vars, rest

\* enqueue blocks while a room's queue is full.
LEMMA QueuesStep ==
  ASSUME QueuesTyped, RoomKnown, [Next]_vars
  PROVE  QueuesTyped'
<1>1. CASE UNCHANGED msgs
  BY <1>1 DEF QueuesTyped
<1>2. CASE Outside
  BY <1>1, <1>2 DEF Outside, Enter, Exit, Move, Post, SocketDies, Interrupt, rest
<1>3. CASE Round
  BY <1>1, <1>3 DEF Round, Me, Connect, JoinRoomsTopic, ListChats, NextRoom, rest
<1>4. CASE Rooming
  BY <1>1, <1>4 DEF Rooming, JoinFails, Rejoin, StartWorker, BuildFails, Join, rest
<1>5. CASE Drain \/ DrainEnds \/ DrainFails \/ EnqueueReleased
  BY <1>1, <1>5 DEF Drain, DrainEnds, DrainFails, EnqueueReleased, rest
<1>6. CASE Enqueue
  <2>1. /\ held \in Messages /\ Len(msgs[Held]) < QueueSize
        /\ msgs' = [msgs EXCEPT ![Held] = Append(@, held)]
    BY <1>6 DEF RoomKnown, Enqueue
  <2>2. ASSUME NEW w \in Workers
        PROVE  msgs'[w] \in Seq(Messages) /\ Len(msgs'[w]) <= QueueSize
    <3> DEFINE q == msgs[w]
    <3>1. q \in Seq(Messages) /\ Len(q) \in Nat /\ Len(q) <= QueueSize
      BY DEF QueuesTyped
    <3>2. CASE w = Held
      <4>1. msgs'[w] = Append(q, held) /\ Len(q) < QueueSize
        BY <2>1, <3>2 DEF QueuesTyped
      <4> HIDE DEF q
      <4>2. Append(q, held) \in Seq(Messages) /\ Len(Append(q, held)) = Len(q) + 1
        BY <2>1, <3>1
      <4> QED BY <3>1, <4>1, <4>2
    <3>3. CASE w # Held
      BY <2>1, <3>1, <3>3 DEF QueuesTyped
    <3> QED BY <3>2, <3>3
  <2>3. DOMAIN msgs' = Workers /\ msgs' = [w \in Workers |-> msgs'[w]]
    BY <2>1 DEF QueuesTyped
  <2> QED BY <2>2, <2>3 DEF QueuesTyped
<1>7. CASE Pumping
  BY <1>1, <1>7 DEF Pumping, PumpStops, PumpDies, RoomAdded, RoomRemoved, MessageCreated,
                    Backoff, rest
<1>8. CASE Ending
  BY <1>1, <1>8 DEF Ending, FinishSession, RecordFinish, ShutdownRooms, AllDone, Abandon, rest
<1>9. ASSUME NEW w \in Workers, Begin(w)
      PROVE  QueuesTyped'
  <2>1. msgs[w] # <<>> /\ msgs' = [msgs EXCEPT ![w] = Tail(@)]
    BY <1>9 DEF Begin
  <2>2. Tail(msgs[w]) \in Seq(Messages) /\ Len(Tail(msgs[w])) <= QueueSize
    <3> DEFINE q == msgs[w]
    <3>1. q \in Seq(Messages) /\ q # <<>> /\ Len(q) <= QueueSize
      BY <2>1 DEF QueuesTyped
    <3> HIDE DEF q
    <3>2. Tail(q) \in Seq(Messages) /\ Len(Tail(q)) = Len(q) - 1 /\ Len(q) \in Nat
      BY <3>1
    <3>3. Len(Tail(q)) <= QueueSize
      BY <3>1, <3>2
    <3> QED BY <3>2, <3>3 DEF q
  <2> QED BY <2>1, <2>2 DEF QueuesTyped
<1>10. ASSUME NEW w \in Workers, StopWorker(w)
       PROVE  QueuesTyped'
  BY <1>10 DEF StopWorker, QueuesTyped
<1>11. ASSUME NEW w \in Workers, Turn(w)
       PROVE  QueuesTyped'
  BY <1>1, <1>11, TurnProgresses DEF Progress
<1> QED
  BY <1>1, <1>2, <1>3, <1>4, <1>5, <1>6, <1>7, <1>8, <1>9, <1>10, <1>11
  DEF Next, Pump, Draining, Worker, vars, rest

LEMMA WorkersStep ==
  ASSUME WorkersTyped, QueuesTyped, [Next]_vars
  PROVE  WorkersTyped'
<1>1. CASE UNCHANGED <<worker, session>>
  BY <1>1 DEF worker, WorkersTyped
<1>2. CASE Outside
  BY <1>1, <1>2 DEF Outside, Enter, Exit, Move, Post, SocketDies, Interrupt, rest
<1>3. CASE Round
  BY <1>1, <1>3 DEF Round, Me, Connect, JoinRoomsTopic, ListChats, NextRoom, rest
<1>4. CASE JoinFails \/ Rejoin \/ BuildFails
  BY <1>1, <1>4 DEF JoinFails, Rejoin, BuildFails, Join, rest, worker
<1>5. CASE StartWorker
  BY <1>5 DEF WorkersTyped, StartWorker, Join
<1>6. CASE Draining
  BY <1>1, <1>6 DEF Draining, Drain, DrainEnds, DrainFails, Enqueue, EnqueueReleased, rest
<1>7. CASE Pumping
  BY <1>1, <1>7 DEF Pumping, PumpStops, PumpDies, RoomAdded, RoomRemoved, MessageCreated,
                    Backoff, rest
<1>8. CASE RecordFinish
  BY <1>8 DEF WorkersTyped, RecordFinish, worker
<1>9. CASE FinishSession \/ ShutdownRooms \/ AllDone \/ Abandon
  BY <1>1, <1>9 DEF FinishSession, ShutdownRooms, AllDone, Abandon, rest
<1>10. ASSUME NEW w \in Workers, Begin(w)
       PROVE  WorkersTyped'
  <2> DEFINE m == Head(msgs[w])
  <2>1. m \in Messages
    BY <1>10 DEF QueuesTyped, Begin
  <2>2. /\ seen' = [seen EXCEPT ![w] = @ \cup {m}]
        /\ cur' = cur \/ cur' = [cur EXCEPT ![w] = m]
        /\ session' = session
        /\ wpc' = wpc \/ wpc' = [wpc EXCEPT ![w] = "turn"] \/ wpc' = [wpc EXCEPT ![w] = "claimed"]
    BY <1>10 DEF Begin
  <2> QED BY <2>1, <2>2 DEF WorkersTyped
<1>11. ASSUME NEW w \in Workers, StopWorker(w) \/ Turn(w)
       PROVE  WorkersTyped'
  <2>1. CASE StopWorker(w)
    BY <2>1 DEF WorkersTyped, StopWorker
  <2>2. CASE Turn(w)
    BY <2>2, TurnProgresses DEF WorkersTyped, Progress
  <2> QED BY <1>11, <2>1, <2>2
<1> QED
  BY <1>1, <1>2, <1>3, <1>4, <1>5, <1>6, <1>7, <1>8, <1>9, <1>10, <1>11
  DEF Next, Pump, Rooming, Ending, Worker, vars, rest

LEMMA LeaveWire ==
  ASSUME NEW why, WireTyped, Leave(why)
  PROVE  WireTyped'
<1>1. <<>> \in Seq(Events) /\ {} \subseteq Rooms \cup {"rooms"}
  OBVIOUS
<1> QED BY <1>1 DEF WireTyped, Leave

LEMMA GiveUpWire ==
  ASSUME NEW why, WireTyped, GiveUp(why)
  PROVE  WireTyped'
<1>1. CASE Leave(why)
  BY <1>1, LeaveWire
<1>2. CASE RoomDone
  BY <1>2 DEF WireTyped, RoomDone, Stay, wire
<1> QED BY <1>1, <1>2 DEF GiveUp

\* A push is appended to the events or thrown away.
LEMMA PushedTyped ==
  ASSUME events \in Seq(Events), dropped \in BOOLEAN, NEW topic, NEW e \in Events,
         Pushed(topic, e)
  PROVE  events' \in Seq(Events) /\ dropped' \in BOOLEAN
<1>1. Append(events, e) \in Seq(Events)
  OBVIOUS
<1> QED BY <1>1 DEF Pushed

LEMMA WireStep ==
  ASSUME WireTyped, RoomKnown, [Next]_vars
  PROVE  WireTyped'
<1>1. CASE UNCHANGED wire
  BY <1>1 DEF wire, WireTyped
<1>2. ASSUME NEW r \in Rooms, Enter(r) \/ Exit(r)
      PROVE  WireTyped'
  <2>1. PICK kind \in {"added", "removed"} : Pushed("rooms", [kind |-> kind, on |-> r])
    BY <1>2 DEF Enter, Exit, Move
  <2>2. [kind |-> kind, on |-> r] \in Events
    BY DEF Events
  <2>3. events' \in Seq(Events) /\ dropped' \in BOOLEAN
    BY <2>1, <2>2, PushedTyped DEF WireTyped
  <2> QED BY <1>2, <2>3 DEF WireTyped, Enter, Exit, Move
<1>3. ASSUME NEW m \in Messages, Post(m)
      PROVE  WireTyped'
  <2>1. [kind |-> "message", on |-> m] \in Events
    BY DEF Events
  <2>2. events' \in Seq(Events) /\ dropped' \in BOOLEAN
    BY <1>3, <2>1, PushedTyped DEF WireTyped, Post
  <2> QED BY <1>3, <2>2 DEF WireTyped, Post
<1>4. CASE SocketDies
  BY <1>4 DEF WireTyped, SocketDies
<1>5. CASE Interrupt \/ Me
  BY <1>1, <1>5 DEF Interrupt, Me
<1>6. CASE Connect
  <2>1. CASE Leave("socket")
    BY <2>1, LeaveWire
  <2>2. CASE /\ socket' = "up" \/ UNCHANGED socket
             /\ downs' = downs \/ downs' = downs + 1
             /\ UNCHANGED <<joined, events, dropped>>
    BY <2>2 DEF WireTyped
  <2> QED BY <1>6, <2>1, <2>2 DEF Connect
<1>7. CASE JoinRoomsTopic
  <2>1. CASE Leave("socket")
    BY <2>1, LeaveWire
  <2>2. CASE joined' = joined \cup {"rooms"} /\ UNCHANGED <<downs, socket, events, dropped>>
    BY <2>2 DEF WireTyped
  <2> QED BY <1>7, <2>1, <2>2 DEF JoinRoomsTopic
<1>8. CASE ListChats \/ NextRoom
  BY <1>1, <1>8, LeaveWire DEF ListChats, NextRoom, Stay
<1>9. CASE JoinFails \/ BuildFails \/ DrainFails
  BY <1>9, GiveUpWire DEF JoinFails, BuildFails, DrainFails
<1>10. CASE Rejoin \/ StartWorker
  BY <1>10 DEF WireTyped, RoomKnown, Rejoin, StartWorker, Join
<1>11. CASE Drain \/ DrainEnds \/ Enqueue \/ EnqueueReleased
  BY <1>1, <1>11 DEF Drain, DrainEnds, RoomDone, Enqueue, EnqueueReleased, Handed, Stay
<1>12. CASE PumpStops \/ PumpDies
  BY <1>12, LeaveWire DEF PumpStops, PumpDies
<1>13. CASE RoomAdded \/ RoomRemoved \/ MessageCreated
  <2>1. events # <<>> /\ events' = Tail(events) /\ UNCHANGED <<downs, socket, joined, dropped>>
    BY <1>13 DEF RoomAdded, RoomRemoved, MessageCreated, Event, Take
  <2> QED BY <2>1, HeadEvent DEF WireTyped
<1>14. CASE Backoff \/ Ending
  BY <1>1, <1>14 DEF Backoff, Ending, FinishSession, RecordFinish, ShutdownRooms, AllDone, Abandon
<1>15. ASSUME NEW w \in Workers, Worker(w) \/ Turn(w)
       PROVE  WireTyped'
  BY <1>1, <1>15, TurnProgresses DEF Progress, Worker, Begin, StopWorker
<1> QED
  BY <1>1, <1>2, <1>3, <1>4, <1>5, <1>6, <1>7, <1>8, <1>9, <1>10, <1>11, <1>12, <1>13,
     <1>14, <1>15
  DEF Next, Outside, Pump, Round, Rooming, Draining, Pumping, vars

LEMMA LeavePump ==
  ASSUME NEW why \in {"none", "socket", "rest", "build"}, PumpTyped, Leave(why),
         UNCHANGED synced
  PROVE  PumpTyped'
<1>1. pc' \in {"finish", "backoff"}
  BY DEF Leave
<1> QED BY <1>1 DEF PumpTyped, Leave

LEMMA GiveUpPump ==
  ASSUME NEW why \in {"socket", "rest", "build"}, PumpTyped, GiveUp(why), UNCHANGED synced
  PROVE  PumpTyped'
<1>1. CASE Leave(why)
  BY <1>1, LeavePump
<1>2. CASE RoomDone
  BY <1>2 DEF PumpTyped, RoomDone, Stay
<1> QED BY <1>1, <1>2 DEF GiveUp

LEMMA PumpStep ==
  ASSUME PumpTyped, PlatformTyped, events \in Seq(Events), [Next]_vars
  PROVE  PumpTyped'
<1>1. CASE UNCHANGED <<pc, sync, cause, synced>>
  BY <1>1 DEF sync, PumpTyped
<1>2. CASE Outside
  BY <1>1, <1>2 DEF Outside, Enter, Exit, Move, Post, SocketDies, Interrupt
<1>3. CASE Me
  BY <1>3 DEF PumpTyped, Me, sync
<1>4. CASE Connect
  <2>1. CASE Leave("socket")
    BY <1>4, <2>1, LeavePump DEF Connect
  <2>2. CASE pc' \in {"topic", "backoff"} /\ cause' \in {cause, "socket"} /\ UNCHANGED sync
    BY <1>4, <2>2 DEF PumpTyped, Connect, sync
  <2> QED BY <1>4, <2>1, <2>2 DEF Connect
<1>5. CASE JoinRoomsTopic
  <2>1. CASE Leave("socket")
    BY <1>5, <2>1, LeavePump DEF JoinRoomsTopic
  <2>2. CASE pc' = "list" /\ UNCHANGED <<cause, sync>>
    BY <1>5, <2>2 DEF PumpTyped, JoinRoomsTopic, sync
  <2> QED BY <1>5, <2>1, <2>2 DEF JoinRoomsTopic
<1>6. CASE ListChats
  <2>1. CASE Leave("rest")
    BY <1>6, <2>1, LeavePump DEF ListChats
  <2>2. CASE todo' = member /\ Stay("next") /\ UNCHANGED <<room, back, served, held>>
    BY <1>6, <2>2 DEF PumpTyped, PlatformTyped, ListChats, Stay
  <2> QED BY <1>6, <2>1, <2>2 DEF ListChats
<1>7. CASE NextRoom
  BY <1>7 DEF PumpTyped, NextRoom, Stay
<1>8. CASE JoinFails \/ BuildFails \/ DrainFails
  BY <1>8, GiveUpPump DEF JoinFails, BuildFails, DrainFails
<1>9. CASE Rejoin \/ StartWorker
  BY <1>9 DEF PumpTyped, Rejoin, StartWorker, Join, sync
<1>10. CASE Drain
  BY <1>10 DEF PumpTyped, Drain, Servable, Stay
<1>11. CASE DrainEnds
  BY <1>11 DEF PumpTyped, DrainEnds, RoomDone, Stay
<1>12. CASE Enqueue \/ EnqueueReleased
  BY <1>12 DEF PumpTyped, Enqueue, EnqueueReleased, Handed, Stay
<1>13. CASE PumpStops \/ PumpDies
  BY <1>13, LeavePump DEF PumpStops, PumpDies
<1>14. CASE RoomAdded
  BY <1>14, HeadEvent DEF PumpTyped, RoomAdded, Event, Take
<1>15. CASE RoomRemoved \/ MessageCreated
  BY <1>15, HeadEvent DEF PumpTyped, RoomRemoved, MessageCreated, Event, Take
<1>16. CASE Backoff
  BY <1>16 DEF PumpTyped, Backoff, sync
<1>17. CASE Ending
  BY <1>17 DEF PumpTyped, Ending, FinishSession, RecordFinish, ShutdownRooms, AllDone, Abandon,
              sync
<1>18. ASSUME NEW w \in Workers, Worker(w) \/ Turn(w)
       PROVE  PumpTyped'
  BY <1>1, <1>18, TurnProgresses DEF Progress, Worker, Begin, StopWorker
<1> QED
  BY <1>1, <1>2, <1>3, <1>4, <1>5, <1>6, <1>7, <1>8, <1>9, <1>10, <1>11, <1>12, <1>13,
     <1>14, <1>15, <1>16, <1>17, <1>18
  DEF Next, Pump, Round, Rooming, Draining, Pumping, vars
-----------------------------------------------------------------------------
(***************************************************************************)
(* The theorems.                                                             *)
(***************************************************************************)
LEMMA InitIInv == Init => IInv
<1> SUFFICES ASSUME Init PROVE IInv
  OBVIOUS
<1>1. TypeOK
  <2>1. <<>> \in Seq(Events) /\ <<>> \in Seq(Messages) /\ Len(<<>>) <= QueueSize
    BY DEF BandRunnerAssumption
  <2>2. PlatformTyped /\ WireTyped /\ PumpTyped /\ SignalsTyped
    BY <2>1 DEF Init, PlatformTyped, WireTyped, PumpTyped, SignalsTyped
  <2>3. RegistryTyped
    BY DEF Init, RegistryTyped, BandRunnerAssumption
  <2>4. QueuesTyped /\ WorkersTyped
    BY <2>1 DEF Init, QueuesTyped, WorkersTyped
  <2> QED BY <2>2, <2>3, <2>4, TypedGroups
<1>2. Registry /\ LiveWorkersHeld
  BY DEF Init, Registry, LiveWorkersHeld
<1>3. RoomKnown /\ Cancelled
  BY DEF Init, RoomKnown, Cancelled
<1> QED BY <1>1, <1>2, <1>3 DEF IInv

LEMMA StepIInv == IInv /\ [Next]_vars => IInv'
<1> SUFFICES ASSUME IInv, [Next]_vars PROVE IInv'
  OBVIOUS
<1>1. /\ PlatformTyped /\ WireTyped /\ PumpTyped /\ SignalsTyped
      /\ RegistryTyped /\ QueuesTyped /\ WorkersTyped /\ RoomKnown
  BY TypedGroups DEF IInv
<1>2. events \in Seq(Events)
  BY <1>1 DEF WireTyped
<1>3. PlatformTyped' /\ WireTyped' /\ PumpTyped' /\ SignalsTyped'
  BY <1>1, <1>2, PlatformStep, WireStep, PumpStep, SignalsStep
<1>4. RegistryTyped' /\ QueuesTyped' /\ WorkersTyped'
  BY <1>1, <1>2, RegistryTypedStep, QueuesStep, WorkersStep
<1>5. TypeOK'
  BY <1>3, <1>4 DEF TypeOK, PlatformTyped, WireTyped, PumpTyped, SignalsTyped,
                    RegistryTyped, QueuesTyped, WorkersTyped
<1> QED BY <1>5, RegistryStep, RoomKnownStep, CancelledStep DEF IInv

\* The invariant the theorems rest on holds of every run of the runner.
THEOREM RunnerInvariant == Spec => []IInv
BY InitIInv, StepIInv, PTL DEF Spec

\* Every variable of the runner has its type; no queue outgrows roomMsgBuffer.
THEOREM RunnerTypeCorrect == Spec => []TypeOK
<1>1. IInv => TypeOK
  BY DEF IInv
<1> QED BY <1>1, RunnerInvariant, PTL

\* Whatever rooms the agent enters and leaves, and over every outage, the workers that
\* take messages are those the room map holds (connectRoom, dropRoom).
THEOREM LiveWorkersAreHeld == Spec => []LiveWorkersHeld
<1>1. IInv => LiveWorkersHeld
  BY DEF IInv
<1> QED BY <1>1, RunnerInvariant, PTL

\* No room ever has two workers that take messages: a reconnect finds the one it has,
\* a room dropped and added again gets a new one after the old was stopped.
THEOREM OneLiveWorkerPerRoom ==
  Spec => [](\A v, w \in 1..started : Live(v) /\ Live(w) /\ of[v] = of[w] => v = w)
<1>1. LiveWorkersHeld
        => \A v, w \in 1..started : Live(v) /\ Live(w) /\ of[v] = of[w] => v = w
  BY DEF LiveWorkersHeld
<1> QED BY <1>1, LiveWorkersAreHeld, PTL

\* In a session that is over no step begins a turn, and none changes the session.
LEMMA OverStep ==
  ASSUME IInv, [Next]_vars, session = "finished" \/ observed
  PROVE  session' = session /\ \A w \in Workers : Tracing(w)' => Tracing(w)
<1>0. /\ wpc \in [Workers -> {"unstarted", "idle", "claimed", "starting", "turn", "cut", "ended", "verdict",
                             "stopped"}]
      /\ Cancelled /\ Traced /\ session # "new"
  BY DEF IInv, TypeOK, Cancelled
<1>1. CASE UNCHANGED <<wpc, session>>
  BY <1>1 DEF Tracing
<1>2. CASE /\ UNCHANGED session
           /\ \E w \in Workers, l \in {"idle", "claimed", "starting", "turn", "cut", "ended",
                                      "verdict", "stopped"} :
                /\ wpc' = [wpc EXCEPT ![w] = l]
                /\ l \in {"starting", "turn", "cut", "ended"} => Tracing(w)
  BY <1>0, <1>2 DEF Tracing
<1>3. CASE Outside
  BY <1>1, <1>3 DEF Outside, Enter, Exit, Move, Post, SocketDies, Interrupt, rest, worker
<1>4. CASE Round
  BY <1>1, <1>4 DEF Round, Me, Connect, JoinRoomsTopic, ListChats, NextRoom, rest, worker
<1>5. CASE JoinFails \/ Rejoin \/ BuildFails
  BY <1>1, <1>5 DEF JoinFails, Rejoin, BuildFails, Join, rest, worker
<1>6. CASE StartWorker
  <2>1. started + 1 \in Workers
    BY <1>6 DEF IInv, TypeOK, StartWorker, Workers
  <2>2. wpc' = [wpc EXCEPT ![started + 1] = "idle"] /\ UNCHANGED session
    BY <1>6 DEF StartWorker, Join
  <2> QED BY <1>2, <2>1, <2>2
<1>7. CASE Draining
  BY <1>1, <1>7 DEF Draining, Drain, DrainEnds, DrainFails, Enqueue, EnqueueReleased, rest, worker
<1>8. CASE Pumping
  BY <1>1, <1>8 DEF Pumping, PumpStops, PumpDies, RoomAdded, RoomRemoved, MessageCreated,
                    Backoff, rest, worker
<1>9. CASE Ending
  BY <1>1, <1>9 DEF Ending, FinishSession, RecordFinish, ShutdownRooms, AllDone, Abandon, rest,
                    worker
<1>10. ASSUME NEW w \in Workers, Worker(w)
       PROVE  session' = session /\ \A v \in Workers : Tracing(v)' => Tracing(v)
  <2>1. UNCHANGED session
    BY <1>10 DEF Worker, Begin, StopWorker
  <2>2. \/ UNCHANGED wpc
        \/ wpc' = [wpc EXCEPT ![w] = "claimed"] \/ wpc' = [wpc EXCEPT ![w] = "stopped"]
    BY <1>0, <1>10 DEF Worker, Begin, StopWorker
  <2> QED BY <1>1, <1>2, <2>1, <2>2
<1>11. ASSUME NEW w \in Workers, Turn(w)
       PROVE  session' = session /\ \A v \in Workers : Tracing(v)' => Tracing(v)
  <2>1. UNCHANGED session
    BY <1>0, <1>11, TurnProgresses DEF Progress
  <2>2. CASE StartTurn(w)
    <3>1. observed \/ ~Live(w)
      BY <1>0 DEF Cancelled, Live
    <3>2. wpc' = [wpc EXCEPT ![w] = "verdict"] \/ wpc' = [wpc EXCEPT ![w] = "idle"]
      BY <2>2, <3>1 DEF StartTurn, Goto, Return
    <3> QED BY <1>2, <2>1, <3>2
  <2>3. CASE SeesVerdict(w)
    <3>1. \/ wpc' = [wpc EXCEPT ![w] = "verdict"]
          \/ wpc' = [wpc EXCEPT ![w] = "cut"] /\ Tracing(w)
      BY <2>3 DEF SeesVerdict, Goto, At, Tracing
    <3> QED BY <1>2, <2>1, <3>1
  <2>4. CASE TurnStarts(w)
    <3>1. /\ Tracing(w)
          /\ wpc' = [wpc EXCEPT ![w] = "turn"] \/ wpc' = [wpc EXCEPT ![w] = "idle"]
      BY <2>4 DEF TurnStarts, Goto, Return, At, Tracing
    <3> QED BY <1>2, <2>1, <3>1
  <2>5. CASE EndTurn(w)
    <3>1. Tracing(w) /\ wpc' = [wpc EXCEPT ![w] = "ended"]
      BY <2>5 DEF EndTurn, Goto, At, Tracing
    <3> QED BY <1>2, <2>1, <3>1
  <2>6. CASE CutShort(w) \/ Settle(w) \/ Terminate(w)
    <3>1. wpc' = [wpc EXCEPT ![w] = "verdict"] \/ wpc' = [wpc EXCEPT ![w] = "idle"]
      BY <2>6 DEF CutShort, Settle, Terminate, Goto, Return
    <3> QED BY <1>2, <2>1, <3>1
  <2> QED BY <1>11, <2>2, <2>3, <2>4, <2>5, <2>6 DEF Turn
<1> QED
  BY <1>1, <1>3, <1>4, <1>5, <1>6, <1>7, <1>8, <1>9, <1>10, <1>11
  DEF Next, Pump, Rooming, vars, rest, worker

\* A session that was finished, or that the platform was seen to have ended, stays as it
\* is: no room opens a turn in it any more and it is not finished again, over any number of
\* rooms, outages and interrupts (finishSession, Tracer.checkLocked).
THEOREM SessionsStayOver == Spec => SessionStaysOver
<1>1. IInv /\ [Next]_vars
        => [session = "finished" \/ observed =>
              session' = session /\ \A w \in Workers : Tracing(w)' => Tracing(w)]_vars
  BY OverStep
<1> QED BY <1>1, RunnerInvariant, PTL DEF Spec, SessionStaysOver
=============================================================================

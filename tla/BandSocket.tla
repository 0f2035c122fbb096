----------------------------- MODULE BandSocket -----------------------------
(***************************************************************************)
(* The Phoenix socket of the Band agent (internal/band/socket.go) over a     *)
(* websocket, with the runner's pump as its one user (connectAndServe and    *)
(* pumpUntilDead of run.go): Dial, join the rooms topic and the rooms, then  *)
(* follow the pushes, a join for every room added, until the context or the  *)
(* socket ends.  Three goroutines: the pump, the heartbeat, the read loop.   *)
(*                                                                           *)
(* The platform is external: it answers a request once or twice, pushes,     *)
(* closes a channel, sends something that is no envelope.                    *)
(***************************************************************************)
EXTENDS WsConn, FiniteSets

CONSTANTS
  Rooms,        \* rooms the agent is in when it connects, joined one by one
  EventsSize,   \* capacity of the events channel
  MaxBeats,     \* heartbeats sent
  MaxReplies,   \* answers to one request
  MaxSent       \* bursts of pushes, split messages and oddities, together

ASSUME SocketAssumption ==
  /\ EventsSize \in Nat \ {0}
  /\ {MaxBeats, MaxReplies, MaxSent} \subseteq Nat
  /\ Writers = {"pump", "heart", "reader"} /\ Reader = "reader"

VARIABLES
  nextRef,      \* Socket.nextRef
  mu,           \* holder of Socket.writeMu, or Nobody
  joinRefs,     \* Socket.joinRefs, 0 for an unknown topic
  pending,      \* Socket.pending: the channel a pending ref's caller waits on, "empty"
                \* or the reply it holds
  target,       \* the reply routeReply is about to send: <<ref, status>>
  events,       \* Socket.events
  ended,        \* is events closed?
  done,         \* Socket.done: why the socket is dead, "none" before: "lost" (an error of
                \* the connection), "closed" (by either side), "garbage" (it received)
  hpc,          \* heartbeatLoop: "tick", "send", "exit"
  beat, beats,  \* ref of the heartbeat being sent; how many there were
  ppc,          \* the pump
  todo,         \* topics still to join
  topic, ref,   \* the round trip it is in
  heard,        \* how its last round trip ended
  synced,       \* every topic was joined: the live loop
  ctx,          \* the run's context
  wire,         \* requests the platform received: [ref, topic, join]
  replies,      \* its answers: [to, n, status], the n-th to that request
  sent,         \* of the things MaxSent bounds
  garbled       \* did it send something that is no envelope or no frame?

session == <<nextRef, mu, joinRefs, pending>>
signal == <<ended, done>>
heart == <<hpc, beat, beats>>
pump == <<ppc, todo, topic, ref, heard, synced>>
platform == <<wire, replies, sent, garbled>>
vars == <<conn, session, target, events, signal, heart, pump, ctx, platform>>

RoomsTopic == "rooms"
Topics == {RoomsTopic} \cup Rooms

Init ==
  /\ ConnInit
  /\ nextRef = 0 /\ mu = Nobody
  /\ joinRefs = [t \in Topics |-> 0]
  /\ pending = <<>>
  /\ target = <<>>
  /\ events = <<>> /\ ended = FALSE /\ done = "none"
  /\ hpc = "tick" /\ beat = 0 /\ beats = 0
  /\ ppc = "dial" /\ todo = {} /\ topic = RoomsTopic /\ ref = 0 /\ heard = "none"
  /\ synced = FALSE
  /\ ctx = "live"
  /\ wire = {} /\ replies = {} /\ sent = 0
  /\ garbled = FALSE

Dead == done # "none"
\* shutdown: the first error stays.
ShutDown(err) == done' = IF Dead THEN done ELSE err
-----------------------------------------------------------------------------
(***************************************************************************)
(* External: the platform.                                                  *)
(***************************************************************************)
Envelope(event, about, what) == [event |-> event, about |-> about, what |-> what]

CanSend == raw = "up" /\ ~Dead /\ Len(inq) < 2

Sends(m) ==
  /\ CanSend
  /\ \/ Arrives(Whole(m)) /\ UNCHANGED sent
     \/ sent < MaxSent /\ sent' = sent + 1 /\ Arrives(Split(m))

AnswersTo(q) == {a \in replies : a.to = q}

\* It answers a request it received: the reply carries the request's ref.
Answer ==
  /\ \E q \in wire, status \in {"ok", "rejected"} :
       /\ q.topic = "phoenix" => status = "ok"
       /\ Cardinality(AnswersTo(q)) < MaxReplies
       /\ replies' = replies \cup
            {[to |-> q, n |-> Cardinality(AnswersTo(q)), status |-> status]}
       /\ Sends(Envelope("reply", q.ref, status))
  /\ UNCHANGED <<session, target, events, signal, heart, pump, ctx, wire, garbled>>

\* It pushes to a joined topic: a room was added, for good or again, alone or after
\* something else.
PushEvent ==
  /\ CanSend /\ sent < MaxSent /\ sent' = sent + 1
  /\ \E a \in replies : a.to.topic # "phoenix" /\ a.status = "ok"
  /\ \E r \in Rooms :
       LET added == Whole(Envelope("push", r, "room_added"))
           other == Whole(Envelope("push", RoomsTopic, "other"))
       IN  Arrives(added) \/ Arrives(other \o added)
  /\ UNCHANGED <<session, target, events, signal, heart, pump, ctx, wire, replies, garbled>>

\* phx_close or phx_error, a close frame, a message that is no envelope, a frame that
\* is none.
Oddity ==
  /\ sent < MaxSent /\ sent' = sent + 1
  /\ CanSend
  /\ \/ Arrives(Whole(Envelope("phx_close", 0, "none")))
        /\ UNCHANGED garbled
     \/ Arrives(<<Frame("text", TRUE, <<>>)>>) /\ garbled' = TRUE
     \/ Arrives(<<Frame("close", TRUE, <<>>)>>) /\ UNCHANGED garbled
     \/ Arrives(<<Frame("invalid", TRUE, <<>>)>>) /\ garbled' = TRUE
  /\ UNCHANGED <<session, target, events, signal, heart, pump, ctx, wire, replies>>

CtxEnds ==
  /\ ctx = "live" /\ ppc \notin {"closing", "returned"}
  /\ ctx' = "cancelled"
  /\ UNCHANGED <<conn, session, target, events, signal, heart, pump, platform>>

Unobserved == UNCHANGED <<session, target, events, signal, heart, pump, ctx, platform>>

ConnectionDrops == Drop /\ Unobserved
PeerResumes == Resume /\ Unobserved
DeadlinePasses == Expire /\ Unobserved
-----------------------------------------------------------------------------
(***************************************************************************)
(* Writing: what roundTrip and heartbeatLoop have in common.                *)
(***************************************************************************)
Op(w) == IF w = "pump" /\ ppc = "closing" THEN "close"
         ELSE IF w = "reader" THEN "pong" ELSE "text"

Blocked(w) ==
  /\ TakesTurn(w)
  /\ UNCHANGED <<session, target, events, signal, heart, pump, ctx, platform>>

\* The platform has a request as soon as its frame is through.
Received(req, w) ==
  wire' = IF wpc'[w] = "done" /\ wres'[w] = "ok" /\ wpc[w] # "done" THEN wire \cup {req}
          ELSE wire

Request(w) ==
  IF w = "heart" THEN [ref |-> beat, topic |-> "phoenix", join |-> 0]
  ELSE [ref |-> ref, topic |-> topic, join |-> joinRefs[topic]]

Unblocked(w) ==
  /\ WriteEnds(w, Op(w))
  /\ IF Op(w) = "text" THEN Received(Request(w), w) ELSE UNCHANGED wire
  /\ UNCHANGED <<session, target, events, signal, heart, pump, ctx, replies, sent, garbled>>
-----------------------------------------------------------------------------
(***************************************************************************)
(* heartbeatLoop                                                            *)
(***************************************************************************)
\* mutant: the heartbeat goes out under the last ref
BeatsOnOldRef ==
  /\ hpc = "tick" /\ raw # "none" /\ mu = Nobody /\ nextRef > 0
  /\ beats < MaxBeats /\ beats' = beats + 1
  /\ mu' = "heart"
  /\ beat' = nextRef /\ UNCHANGED nextRef
  /\ hpc' = "send" /\ Call("heart", "text")
  /\ Received([ref |-> beat', topic |-> "phoenix", join |-> 0], "heart")
  /\ UNCHANGED <<inq, reader, joinRefs, pending, target,
                 events, signal, pump, ctx, replies, sent, garbled>>
Beat ==
  /\ hpc = "tick" /\ raw # "none" /\ mu = Nobody
  /\ beats < MaxBeats /\ beats' = beats + 1
  /\ mu' = "heart"
  /\ nextRef' = nextRef + 1 /\ beat' = nextRef'
  /\ hpc' = "send" /\ Call("heart", "text")
  /\ Received([ref |-> beat', topic |-> "phoenix", join |-> 0], "heart")
  /\ UNCHANGED <<inq, reader, joinRefs, pending, target,
                 events, signal, pump, ctx, replies, sent, garbled>>

\* Its write is over: a failure ends the socket and the loop.
BeatSent ==
  /\ hpc = "send" /\ Collect("heart", "text")
  /\ mu' = Nobody
  /\ \/ wres["heart"] = "ok" /\ hpc' = "tick" /\ UNCHANGED signal
     \/ /\ wres["heart"] = "error" /\ hpc' = "exit"
        /\ ShutDown("lost") /\ UNCHANGED ended
  /\ beat' = 0 /\ UNCHANGED beats
  /\ UNCHANGED <<inq, reader, peer, nextRef, joinRefs, pending,
                 target, events, pump, ctx, platform>>

BeatsEnd ==
  /\ hpc = "tick" /\ Dead
  /\ hpc' = "exit"
  /\ UNCHANGED <<conn, session, target, events, signal, beat, beats, pump, ctx, platform>>

Heart == Beat \/ BeatSent \/ BeatsEnd
-----------------------------------------------------------------------------
(***************************************************************************)
(* readLoop                                                                 *)
(***************************************************************************)
Reads ==
  /\ raw # "none"
  /\ ReadPart \/ ReadPing \/ ReadPong \/ PongWritten
  /\ UNCHANGED <<session, target, events, signal, heart, pump, ctx, platform>>

\* A read error ends the socket; the events channel closes with the loop.
ReadEnds ==
  /\ raw # "none"
  /\ \/ \E err \in ReadErrors : ReadFails(err) /\ ShutDown(err)
     \/ PongFails /\ ShutDown("lost")
  /\ rpc' = "exit" /\ ended' = TRUE
  /\ UNCHANGED <<session, target, events, heart, pump, ctx, platform>>

\* decodeEnvelope: the envelope m is, if it is one.
Decodes(m) == m # <<>> /\ m = Pieces(m[1][1])
Decoded(m) == m[1][1]

Hangs(err) ==
  /\ ShutDown(err)
  /\ rpc' = "exit" /\ ended' = TRUE
  /\ UNCHANGED <<target, events>>

\* mutant: the loop waits for room in the events channel
BlocksOnEvents(e) ==
  /\ Len(events) < EventsSize
  /\ events' = Append(events, e)
  /\ rpc' = "read" /\ UNCHANGED <<signal, target>>
\* A push goes to the events channel, or nowhere when that is full.
TakePush(e) ==
  /\ events' = IF Len(events) < EventsSize THEN Append(events, e) ELSE events
  /\ rpc' = "read" /\ UNCHANGED <<signal, target>>

\* routeReply: look the caller up; a reply nobody waits for is dropped.
TakeReply(e) ==
  /\ \/ e.about \in DOMAIN pending /\ target' = <<e.about, e.what>> /\ rpc' = "deliver"
     \/ e.about \notin DOMAIN pending /\ rpc' = "read" /\ UNCHANGED target
  /\ UNCHANGED <<signal, events>>

TakeMessage ==
  /\ inq # <<>>
  /\ LET m == payload \o Head(inq).pieces IN
       /\ ReadLast(m)
       /\ \/ ~Decodes(m) /\ Hangs("garbage")
          \/ Decodes(m) /\ Decoded(m).event = "phx_close" /\ Hangs("closed")
          \/ Decodes(m) /\ Decoded(m).event = "push" /\ TakePush(Decoded(m))
          \/ Decodes(m) /\ Decoded(m).event = "reply" /\ TakeReply(Decoded(m))
  /\ UNCHANGED <<session, heart, pump, ctx, platform>>

\* The reply is sent after pendingMu was released: into the caller's channel of
\* capacity one, or, when the caller has left, into a channel nobody reads.
Deliver ==
  /\ rpc = "deliver"
  /\ \/ target[1] \notin DOMAIN pending /\ UNCHANGED pending
     \/ /\ target[1] \in DOMAIN pending /\ pending[target[1]] = "empty"
        /\ pending' = [pending EXCEPT ![target[1]] = target[2]]
  /\ target' = <<>> /\ rpc' = "read"
  /\ UNCHANGED <<raw, inq, fragment, payload, writing, peer, nextRef, mu, joinRefs, events,
                 signal, heart, pump, ctx, platform>>

ReadLoop == Reads \/ ReadEnds \/ TakeMessage \/ Deliver
-----------------------------------------------------------------------------
(***************************************************************************)
(* The pump: Connect, Join, pumpUntilDead, Close.                           *)
(***************************************************************************)
Connect ==
  /\ ppc = "dial"
  /\ \/ /\ ctx = "live" /\ Dial(TRUE)
        /\ ppc' = "next" /\ todo' = Topics
     \/ Dial(FALSE) /\ ppc' = "returned" /\ UNCHANGED todo
  /\ UNCHANGED <<session, target, events, signal, heart, topic, ref, heard, synced, ctx,
                 platform>>

\* "everything else on a joined topic reuses that join ref": a topic joined before
\* keeps the first one, for a join as well.
JoinRefOf(t, r) == IF joinRefs[t] = 0 THEN r ELSE joinRefs[t]

\* The channel roundTrip puts into pending, and takes out when it returns.
Awaits(r) ==
  pending' = [k \in DOMAIN pending \cup {r} |-> IF k = r THEN "empty" ELSE pending[k]]
Abandons(r) == pending' = [k \in DOMAIN pending \ {r} |-> pending[k]]

\* roundTrip up to its send: the ref is taken under writeMu, which a heartbeat
\* holds while it writes.
Join ==
  /\ ppc = "next" /\ todo # {} /\ ctx = "live" /\ mu = Nobody
  /\ topic' \in IF RoomsTopic \in todo THEN {RoomsTopic} ELSE todo
  /\ todo' = todo \ {topic'}
  /\ nextRef' = nextRef + 1 /\ ref' = nextRef'
  /\ joinRefs' = [joinRefs EXCEPT ![topic'] = JoinRefOf(topic', ref')]
  /\ Awaits(ref')
  /\ ppc' = "send" /\ Call("pump", "text") /\ heard' = "none"
  /\ Received([ref |-> ref', topic |-> topic', join |-> joinRefs'[topic']], "pump")
  /\ UNCHANGED <<inq, reader, mu, target, events, signal,
                 heart, synced, ctx, replies, sent, garbled>>

\* A round trip failed: during the start that ends the connection, in the live loop
\* it is only reported.
Failed == ppc' = IF synced THEN "live" ELSE "close"

JoinRefused ==
  /\ ppc = "next" /\ todo # {} /\ ctx = "cancelled"
  /\ Failed /\ todo' = {}
  /\ UNCHANGED <<conn, session, target, events, signal, heart, topic, ref, heard, synced,
                 ctx, platform>>

JoinSent ==
  /\ ppc = "send" /\ Collect("pump", "text")
  /\ \/ /\ wres["pump"] = "ok" /\ ppc' = "wait"
        /\ UNCHANGED <<pending, signal, heard, todo>>
     \/ /\ wres["pump"] = "error"
        /\ ShutDown("lost") /\ UNCHANGED ended
        /\ Abandons(ref)
        /\ heard' = "error" /\ Failed /\ todo' = {}
  /\ UNCHANGED <<inq, reader, peer, nextRef, mu, joinRefs, target,
                 events, heart, topic, ref, synced, ctx, platform>>

\* The select of roundTrip, and its deferred delete.  After the last topic the live
\* loop begins.
JoinEnds ==
  /\ ppc = "wait"
  /\ \/ ctx = "cancelled" /\ heard' = "error"
     \/ Dead /\ heard' = "error"
     \/ pending[ref] # "empty" /\ heard' = pending[ref]
  /\ Abandons(ref)
  /\ \/ /\ heard' = "ok"
        /\ ppc' = IF todo = {} THEN "live" ELSE "next"
        /\ synced' = (synced \/ todo = {}) /\ UNCHANGED todo
     \/ heard' # "ok" /\ Failed /\ todo' = {} /\ UNCHANGED synced
  /\ UNCHANGED <<conn, nextRef, mu, joinRefs, target, events, signal, heart, topic, ref,
                 ctx, platform>>

\* mutant: only the context and the events are watched
ServeBlindly ==
  /\ ppc = "live"
  /\ \/ /\ ctx = "cancelled"
        /\ ppc' = "close" /\ UNCHANGED <<events, todo>>
     \/ /\ events # <<>>
        /\ events' = Tail(events)
        /\ IF Head(events).what = "room_added"
           THEN ppc' = "next" /\ todo' = {Head(events).about}
           ELSE UNCHANGED <<ppc, todo>>
  /\ UNCHANGED <<conn, session, target, signal, heart, topic, ref, heard, synced, ctx,
                 platform>>
\* pumpUntilDead: one select over the context, Done and Events.
Serve ==
  /\ ppc = "live"
  /\ \/ /\ ctx = "cancelled" \/ Dead \/ (events = <<>> /\ ended)
        /\ ppc' = "close" /\ UNCHANGED <<events, todo>>
     \/ /\ events # <<>>
        /\ events' = Tail(events)
        /\ IF Head(events).what = "room_added"
           THEN ppc' = "next" /\ todo' = {Head(events).about}
           ELSE UNCHANGED <<ppc, todo>>
  /\ UNCHANGED <<conn, session, target, signal, heart, topic, ref, heard, synced, ctx,
                 platform>>

\* Socket.Close: shutdown, then the connection's Close; what the connection kept, and
\* whether the context ends, matters no more.
CloseBegins ==
  /\ ppc = "close"
  /\ ShutDown("closed") /\ UNCHANGED ended
  /\ ppc' = "closing" /\ Call("pump", "close")
  /\ events' = <<>>
  /\ topic' = RoomsTopic /\ ref' = 0 /\ heard' = "none" /\ synced' = FALSE /\ todo' = {}
  /\ joinRefs' = [t \in Topics |-> 0] /\ wire' = {} /\ replies' = {}
  /\ ctx' = "cancelled" /\ sent' = MaxSent
  /\ UNCHANGED <<inq, reader, nextRef, mu, pending, target, heart, garbled>>

CloseEnds ==
  /\ ppc = "closing" /\ Collect("pump", "close")
  /\ ppc' = "returned"
  /\ UNCHANGED <<inq, reader, peer, session, target, events,
                 signal, heart, todo, topic, ref, heard, synced, ctx, platform>>

Pump ==
  \/ Connect \/ Join \/ JoinRefused \/ JoinSent \/ JoinEnds \/ Serve
  \/ CloseBegins \/ CloseEnds
-----------------------------------------------------------------------------
Writes(w) == Blocked(w) \/ Unblocked(w)

Next ==
  \/ Answer \/ PushEvent \/ Oddity \/ CtxEnds
  \/ ConnectionDrops \/ PeerResumes \/ DeadlinePasses
  \/ \E w \in Writers : Writes(w)
  \/ Heart \/ ReadLoop \/ Pump

Spec == Init /\ [][Next]_vars

\* The goroutines run when they can, time passes, and a peer that stopped reading
\* starts again.
FairSpec ==
  /\ Spec
  /\ WF_vars(Pump \/ Writes("pump"))
  /\ WF_vars(Heart \/ Writes("heart"))
  /\ WF_vars(ReadLoop \/ Writes("reader"))
  /\ WF_vars(PeerResumes) /\ WF_vars(DeadlinePasses)
-----------------------------------------------------------------------------
TypeOK ==
  /\ ConnTypeOK
  /\ nextRef \in Nat /\ mu \in {Nobody, "heart"}
  /\ joinRefs \in [Topics -> Nat]
  /\ DOMAIN pending \subseteq {ref}
  /\ \A r \in DOMAIN pending : pending[r] \in {"empty", "ok", "rejected"}
  /\ Len(events) <= EventsSize
  /\ ended \in BOOLEAN /\ synced \in BOOLEAN
  /\ done \in {"none", "lost", "closed", "garbage"}
  /\ hpc \in {"tick", "send", "exit"}
  /\ ppc \in {"dial", "next", "send", "wait", "live", "close", "closing", "returned"}
  /\ heard \in {"none", "ok", "rejected", "error"}
  /\ ctx \in {"live", "cancelled"}

\* "waits for the matching reply" (Join): what a join returns is what the platform
\* answered to that join, not to a heartbeat or to an earlier join (roundTrip,
\* routeReply).
OwnAnswer ==
  heard \in {"ok", "rejected"} =>
    \E a \in replies : a.to.ref = ref /\ a.to.topic = topic /\ a.status = heard

\* "Events closed; Done carries the reason": whoever finds the events channel closed
\* finds the terminal error too, and a peer that keeps to the protocol is never hung up
\* on: the socket dies of what it could not decode only when it was sent that, however
\* the messages were cut into frames and wherever the pings came (readLoop, shutdown,
\* ReadMessage).
EndJustified ==
  /\ ended => Dead
  /\ done = "garbage" => garbled

\* "a stalled readLoop would deadlock round-trips": a reply on its way gets to the
\* join that waits for it, although the pump that waits is the one that empties the
\* events channel (readLoop, roundTrip).
JoinAnswered ==
  (ppc = "wait" /\ \E a \in replies : a.to.ref = ref /\ a.to.topic = topic) ~> ppc # "wait"

\* Once the context ends or the socket is dead, connectAndServe returns, its
\* connection closed (roundTrip, pumpUntilDead, heartbeatLoop, Close).
ConnectionEnds == (ctx = "cancelled" \/ Dead) ~> ppc = "returned"
=============================================================================

------------------------------- MODULE WsConn -------------------------------
(***************************************************************************)
(* A client websocket connection (internal/ws): one goroutine reads, several *)
(* write.  ReadMessage puts fragments together and answers pings; writers    *)
(* take turns under writeMu but share one write deadline, which they set     *)
(* before they take the lock and clear after they have released it.          *)
(*                                                                           *)
(* A message is two pieces of text, sent in one frame or in two.  The peer   *)
(* and the network are external: it stops taking what we write for a while,  *)
(* and the connection may drop at any moment.                                *)
(***************************************************************************)
EXTENDS Naturals, Sequences

CONSTANTS
  Writers,     \* the goroutines that write, the reader (with its pongs) among them
  Reader,
  MaxStalls    \* how often the peer stops reading

ASSUME WritersAssumption == Reader \in Writers /\ MaxStalls \in Nat

VARIABLES
  raw,         \* the net.Conn: "none", "up", "down" (lost), "closed" (by us)
  inq,         \* frames on their way to the reader
  rpc,         \* the reader: "read", "pong", or where its owner puts it
  fragment,    \* ReadMessage: a fragmented message was begun
  payload,     \* its pieces so far
  lock,        \* holder of writeMu, or Nobody
  deadline,    \* the connection's write deadline: "none", "running", "past"
  wpc,         \* writers: "idle", "waits" for the lock, "blocks" holding it, "done"
  wres,        \* how the write that is done ended
  accepting,   \* does the peer take what we write?
  stalls

Nobody == "nobody"

reader == <<rpc, fragment, payload>>
writing == <<lock, deadline, wpc, wres>>
peer == <<accepting, stalls>>
conn == <<raw, inq, reader, writing, peer>>

Pieces(m) == <<<<m, 1>>, <<m, 2>>>>
Frame(op, fin, pieces) == [op |-> op, fin |-> fin, pieces |-> pieces]

\* A peer may send a message in one frame, or in two with control frames between them.
Whole(m) == <<Frame("text", TRUE, Pieces(m))>>
Split(m) ==
  <<Frame("text", FALSE, SubSeq(Pieces(m), 1, 1)), Frame("ping", TRUE, <<>>),
    Frame("pong", TRUE, <<>>), Frame("continuation", TRUE, SubSeq(Pieces(m), 2, 2))>>

ConnInit ==
  /\ raw = "none" /\ inq = <<>>
  /\ rpc = "read" /\ fragment = FALSE /\ payload = <<>>
  /\ lock = Nobody /\ deadline = "none"
  /\ wpc = [w \in Writers |-> "idle"]
  /\ wres = [w \in Writers |-> "none"]
  /\ accepting = TRUE /\ stalls = 0
-----------------------------------------------------------------------------
(***************************************************************************)
(* The network and the peer.                                                *)
(***************************************************************************)
\* The peer takes nothing for a while; it starts doing so as something is written.
MayStall == raw = "up" /\ accepting /\ stalls < MaxStalls

Stalls == accepting' = FALSE /\ stalls' = stalls + 1

Resume ==
  /\ ~accepting
  /\ accepting' = TRUE
  /\ UNCHANGED <<raw, inq, reader, writing, stalls>>

\* What has arrived can still be read.
Drop ==
  /\ raw = "up"
  /\ raw' = "down"
  /\ UNCHANGED <<inq, reader, writing, peer>>

\* Time passes for a write that does not get through.
Expire ==
  /\ deadline = "running"
  /\ raw = "up" /\ ~accepting /\ \E w \in Writers : wpc[w] = "blocks"
  /\ deadline' = "past"
  /\ UNCHANGED <<raw, inq, reader, lock, wpc, wres, peer>>

Arrives(frames) ==
  /\ raw = "up"
  /\ inq' = inq \o frames
  /\ UNCHANGED <<raw, reader, writing, peer>>
-----------------------------------------------------------------------------
(***************************************************************************)
(* Dial: the handshake succeeds, or fails and leaves no connection.          *)
(***************************************************************************)
Dial(ok) ==
  /\ raw = "none"
  /\ raw' = IF ok THEN "up" ELSE "closed"
  /\ UNCHANGED <<inq, reader, writing, peer>>
-----------------------------------------------------------------------------
(***************************************************************************)
(* WriteText, writeControl, Close.                                          *)
(***************************************************************************)
\* How a write may end now: not at all while the peer takes nothing and no deadline
\* has passed.
WriteResults(dl) ==
  (IF raw = "up" /\ accepting /\ dl # "past" THEN {"ok"} ELSE {})
    \cup (IF raw # "up" \/ dl = "past" THEN {"error"} ELSE {})

\* A frame gets through, or fails; Close also closes the connection.
Wrote(w, op, r) ==
  /\ wpc' = [wpc EXCEPT ![w] = "done"]
  /\ wres' = [wres EXCEPT ![w] = r]
  /\ lock' = Nobody
  /\ raw' = IF op = "close" THEN "closed" ELSE raw

\* The deadline a call sets before it takes the lock; a control frame sets none.
DeadlineOf(op) == IF op = "pong" THEN deadline ELSE "running"

\* Goroutine w writes: at once, or holding the lock while the peer takes nothing, or
\* after whoever holds it.  WriteText gives up on a connection we closed.
Call(w, op) ==
  \/ /\ op = "text" /\ raw = "closed"
     /\ Wrote(w, op, "error") /\ UNCHANGED <<deadline, peer>>
  \/ /\ op # "text" \/ raw # "closed"
     /\ deadline' = DeadlineOf(op)
     /\ \/ /\ lock = Nobody /\ \E r \in WriteResults(deadline') : Wrote(w, op, r)
           /\ UNCHANGED peer
        \/ /\ lock = Nobody
           /\ \/ WriteResults(deadline') = {} /\ UNCHANGED peer
              \/ MayStall /\ Stalls
           /\ lock' = w /\ wpc' = [wpc EXCEPT ![w] = "blocks"]
           /\ UNCHANGED <<raw, wres>>
        \/ /\ lock # Nobody
           /\ wpc' = [wpc EXCEPT ![w] = "waits"]
           /\ UNCHANGED <<raw, lock, wres, peer>>

\* The lock is free again: the next writer has its turn.
TakesTurn(w) ==
  /\ wpc[w] = "waits" /\ lock = Nobody /\ WriteResults(deadline) = {}
  /\ lock' = w /\ wpc' = [wpc EXCEPT ![w] = "blocks"]
  /\ UNCHANGED <<raw, inq, reader, deadline, wres, peer>>

WriteEnds(w, op) ==
  /\ wpc[w] = "blocks" \/ (wpc[w] = "waits" /\ lock = Nobody)
  /\ \E r \in WriteResults(deadline) : Wrote(w, op, r)
  /\ UNCHANGED <<inq, reader, deadline, peer>>

\* The caller goes on; WriteText has cleared the deadline before, be it that of
\* whoever writes now.
Collect(w, op) ==
  /\ wpc[w] = "done"
  /\ wpc' = [wpc EXCEPT ![w] = "idle"]
  /\ wres' = [wres EXCEPT ![w] = "none"]
  /\ deadline' = IF op = "text" /\ raw # "closed" THEN "none" ELSE deadline
  /\ UNCHANGED <<raw, lock>>
-----------------------------------------------------------------------------
(***************************************************************************)
(* ReadMessage.                                                             *)
(***************************************************************************)
\* mutant: a control frame between two fragments starts the message over
ForgetsFragments(f) ==
  IF f.op = "ping" THEN [begun |-> FALSE, pieces |-> <<>>]
  ELSE [begun |-> fragment, pieces |-> payload]
\* What ReadMessage has put together once a control frame was seen to.
Kept(f) == [begun |-> fragment, pieces |-> payload]

\* What readFrame refuses: reserved bits, a frame over the limit, a control frame
\* that is fragmented or too long.
Invalid(f) == f.op = "invalid"

\* What ReadMessage refuses: a new message inside a fragmented one, a continuation
\* without a beginning.
Misplaced(f) ==
  \/ f.op = "text" /\ fragment
  \/ f.op = "continuation" /\ ~fragment

Arrived == rpc = "read" /\ inq # <<>> /\ raw \in {"up", "down"} /\ inq' = Tail(inq)

\* Part of a message.
ReadPart ==
  /\ Arrived
  /\ LET f == Head(inq)
     IN  /\ f.op = "text" /\ ~fragment /\ ~f.fin
         /\ payload' = f.pieces /\ fragment' = TRUE
  /\ UNCHANGED <<raw, rpc, writing, peer>>

\* The frame that completes a message: m is what ReadMessage returns.
ReadLast(m) ==
  /\ Arrived
  /\ LET f == Head(inq)
     IN  /\ f.op \in {"text", "continuation"} /\ f.fin /\ ~Misplaced(f)
         /\ m = payload \o f.pieces
  /\ payload' = <<>> /\ fragment' = FALSE
  /\ UNCHANGED <<raw, writing, peer>>

ReadPing ==
  /\ Arrived
  /\ Head(inq).op = "ping"
  /\ rpc' = "pong"
  /\ fragment' = Kept(Head(inq)).begun /\ payload' = Kept(Head(inq)).pieces
  /\ Call(Reader, "pong")

ReadPong ==
  /\ Arrived
  /\ Head(inq).op = "pong"
  /\ fragment' = Kept(Head(inq)).begun /\ payload' = Kept(Head(inq)).pieces
  /\ UNCHANGED <<raw, rpc, writing, peer>>

\* Why ReadMessage returns an error: the connection is gone, silent for readWait,
\* closed by the peer, or sends what does not fit.
ReadErrors ==
  (IF raw \in {"closed", "down"} /\ (raw = "closed" \/ inq = <<>>) THEN {"lost"} ELSE {})
    \cup (IF raw = "up" /\ inq = <<>> THEN {"lost"} ELSE {})
    \cup (IF raw # "closed" /\ inq # <<>> /\ Head(inq).op = "close" THEN {"closed"} ELSE {})
    \cup (IF raw # "closed" /\ inq # <<>> /\ (Misplaced(Head(inq)) \/ Invalid(Head(inq)))
          THEN {"garbage"} ELSE {})

\* ReadMessage fails; on a close frame the connection is closed with it.
ReadFails(err) ==
  /\ rpc = "read" /\ err \in ReadErrors
  /\ raw' = IF err = "closed" THEN "closed" ELSE raw
  /\ UNCHANGED <<inq, fragment, payload, writing, peer>>

\* The pong is written: read on, or fail with its error.
PongWritten ==
  /\ rpc = "pong" /\ wres[Reader] = "ok" /\ Collect(Reader, "pong")
  /\ rpc' = "read"
  /\ UNCHANGED <<inq, fragment, payload, peer>>

PongFails ==
  /\ rpc = "pong" /\ wres[Reader] = "error" /\ Collect(Reader, "pong")
  /\ UNCHANGED <<inq, fragment, payload, peer>>
-----------------------------------------------------------------------------
ConnTypeOK ==
  /\ raw \in {"none", "up", "down", "closed"}
  /\ rpc \in {"read", "pong", "deliver", "exit"}
  /\ fragment \in BOOLEAN /\ accepting \in BOOLEAN
  /\ lock \in Writers \cup {Nobody}
  /\ deadline \in {"none", "running", "past"}
  /\ wpc \in [Writers -> {"idle", "waits", "blocks", "done"}]
  /\ wres \in [Writers -> {"none", "ok", "error"}]
  /\ stalls \in 0..MaxStalls
  /\ \A i \in DOMAIN inq :
       inq[i].op \in {"text", "continuation", "ping", "pong", "close", "invalid"}
=============================================================================

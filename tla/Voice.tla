------------------------------- MODULE Voice --------------------------------
(***************************************************************************)
(* A voice session (internal/voice/client.go and session.go): the client's  *)
(* read loop runs tools and plays audio, the microphone streams up, the     *)
(* session loop renders events and hangs up on Ctrl-C.  The read loop holds *)
(* the console for a whole tool call.  What a write or a read of the socket *)
(* does inside is WsConn's; here it is done or fails.                       *)
(***************************************************************************)
EXTENDS Naturals, Sequences, FiniteSets

CONSTANTS
  EventsSize,  \* capacity of Client.events
  MaxEvents,   \* bound: messages the server sends after the handshake
  MaxCalls,    \* bound: tool calls among them
  MaxPresses,  \* bound: Ctrl-C presses
  EchoGate,    \* is ClientConfig.EchoGate set
  Faults       \* what may go wrong outside: see the assumption

ASSUME VoiceAssumption ==
  /\ EventsSize \in Nat \ {0}
  /\ MaxEvents \in Nat /\ MaxCalls \in Nat /\ MaxPresses \in Nat
  /\ EchoGate \in BOOLEAN
  /\ Faults \subseteq {"handshake", "drop", "player"}

VARIABLES
  conn,      \* "none", "up", "lost" (the server went away) or "shut"
  closed,    \* Client.closed, and with it the client's own context
  done,      \* the terminal error in Client.done: "none", "clean" or "failed"
  ended,     \* is Client.ended closed
  events,    \* Client.events
  reader,    \* where readLoop stands
  event,     \* the event it handles
  lastEvent, \* Client.lastEvent: did a reply end last
  pending,   \* Client.pending: numbers of the calls, in order of arrival
  loop,      \* where Run stands
  ending,    \* sessionLoop's ending
  totals,    \* has the session loop taken session.ended from Events (its ended)
  ender,     \* the goroutine that calls End
  endedBy,   \* what End's wait ended by
  ret,       \* what Run returned
  sigint,    \* is a signal in the channel
  mic,       \* where micLoop stands
  gate,      \* how long the gate stays closed: gateUntil less now, in chunks
  unplayed,  \* external: chunks of reply audio not heard yet
  reads,     \* messages read
  calls,     \* tool calls read
  results,   \* history: results sent, in order
  dropped,   \* history: results an interrupted reply dropped
  presses    \* Ctrl-C presses so far

client == <<closed, done>>
handling == <<reader, event, lastEvent, pending>>
session == <<loop, ending, totals, ret>>
hangup == <<ender, endedBy>>
audio == <<gate, unplayed>>
history == <<reads, calls, results, dropped>>
vars == <<conn, client, ended, events, handling, session, hangup, sigint, mic,
          audio, history, presses>>

Init ==
  /\ conn = "none"
  /\ closed = FALSE /\ done = "none" /\ ended = FALSE /\ events = <<>>
  /\ reader = "off" /\ event = "none" /\ lastEvent = "none" /\ pending = <<>>
  /\ loop = "dial" /\ ending = FALSE /\ totals = FALSE /\ ret = "none"
  /\ ender = "off" /\ endedBy = "none"
  /\ sigint = FALSE /\ mic = "off"
  /\ gate = 0 /\ unplayed = 0
  /\ reads = 0 /\ calls = 0 /\ results = <<>> /\ dropped = {}
  /\ presses = 0
-----------------------------------------------------------------------------
Alive == loop \notin {"dial", "update", "ready", "returned"}

\* How a write ends: refused once the client or the connection is shut.
Sends ==
  (IF closed \/ conn = "shut" THEN {} ELSE {"done"})
    \cup (IF closed \/ conn # "up" THEN {"failed"} ELSE {})

\* shutdown: the first caller records its error, cancels and closes.
Shutdown(err) ==
  /\ closed' = TRUE
  /\ done' = IF closed THEN done ELSE err

ReturnWith(r) == loop' = "returned" /\ ret' = r
-----------------------------------------------------------------------------
(***************************************************************************)
(* Connect.                                                                 *)
(***************************************************************************)
ConnectFails ==
  /\ loop \in {"dial", "update", "ready"} /\ "handshake" \in Faults
  /\ ReturnWith("error")
  /\ conn' = IF loop = "dial" THEN "none" ELSE "shut"
  /\ UNCHANGED <<client, ended, events, handling, ending, totals, hangup, sigint,
                 mic, audio, history, presses>>

\* Dial, send session.update, then read until session.ready.
ConnectSteps ==
  /\ \/ loop = "dial" /\ conn' = "up" /\ loop' = "update"
     \/ loop = "update" /\ loop' = "ready" /\ UNCHANGED conn
     \/ loop = "ready" /\ loop' = "select" /\ UNCHANGED conn
  /\ IF loop = "ready" THEN reader' = "read" /\ mic' = "read"
                       ELSE UNCHANGED <<reader, mic>>
  /\ UNCHANGED <<client, ended, events, event, lastEvent, pending, ending, totals,
                 ret, hangup, sigint, audio, history, presses>>
-----------------------------------------------------------------------------
(***************************************************************************)
(* readLoop and handleEvent.                                                *)
(***************************************************************************)
\* The server ends the session once; calls come while the bound allows.
ServerEvents ==
  {"audio", "started", "done", "interrupted", "other", "bad"}
    \cup (IF calls < MaxCalls THEN {"tool"} ELSE {})
    \cup (IF ended THEN {} ELSE {"ended"})

ReadStops(err) ==
  /\ Shutdown(err)
  /\ reader' = "gone" /\ event' = "none"

StillHeld(q) == q                                              \* mutant
\* What an interrupted reply leaves of the results that are held.
Interrupted(q) == <<>>

\* What each event does before it is forwarded, and where that leaves the reader.
Handle(e) ==
  CASE e = "started" ->
         /\ lastEvent' = "started" /\ reader' = "forward"
         /\ UNCHANGED <<pending, calls, dropped>>
    [] e = "done" ->
         /\ lastEvent' = "done" /\ reader' = "flush"
         /\ UNCHANGED <<pending, calls, dropped>>
    [] e = "interrupted" ->
         /\ lastEvent' = "done" /\ reader' = "forward"
         /\ dropped' = dropped \cup {pending[i] : i \in 1..Len(pending)}
         /\ pending' = Interrupted(pending)
         /\ UNCHANGED calls
    [] e = "tool" ->
         /\ calls' = calls + 1 /\ reader' = "tool"
         /\ UNCHANGED <<lastEvent, pending, dropped>>
    [] e = "audio" ->
         /\ reader' = "play"
         /\ UNCHANGED <<lastEvent, pending, calls, dropped>>
    [] OTHER ->
         /\ reader' = "forward"
         /\ UNCHANGED <<lastEvent, pending, calls, dropped>>

\* What came before the connection was lost can still be read.
Read ==
  /\ Alive /\ reader = "read" /\ conn # "shut" /\ reads < MaxEvents
  /\ \E e \in ServerEvents :
       /\ reads' = reads + 1
       /\ IF e = "bad"
          THEN ReadStops("failed") /\ UNCHANGED <<lastEvent, pending, calls, dropped>>
          ELSE Handle(e) /\ event' = e /\ UNCHANGED client
  /\ UNCHANGED <<conn, ended, events, session, hangup, sigint, mic, audio,
                 results, presses>>

ReadFails ==
  /\ Alive /\ reader = "read" /\ (closed \/ conn # "up")
  /\ ReadStops("failed")
  /\ UNCHANGED <<conn, ended, events, lastEvent, pending, session, hangup, sigint,
                 mic, audio, history, presses>>

\* playback.Write; the gate is moved only after it.
Play ==
  /\ Alive /\ reader = "play"
  /\ \/ unplayed' = unplayed + 1 /\ reader' = "gate" /\ UNCHANGED <<client, event>>
     \/ "player" \in Faults /\ ReadStops("failed") /\ UNCHANGED unplayed
  /\ UNCHANGED <<conn, ended, events, lastEvent, pending, session, hangup, sigint,
                 mic, gate, history, presses>>

FromNow(g) == 1                                                \* mutant
\* The later of now and the deadline, plus the chunk.
Advanced(g) == g + 1

AdvanceGate ==
  /\ Alive /\ reader = "gate"
  /\ gate' = IF EchoGate THEN Advanced(gate) ELSE gate
  /\ reader' = "read" /\ event' = "none"
  /\ UNCHANGED <<conn, client, ended, events, lastEvent, pending, session, hangup,
                 sigint, mic, unplayed, history, presses>>

\* The tool ends: a failure is a result too; after a reply's end it is sent at once.
ToolEnds ==
  /\ Alive /\ reader = "tool"
  /\ pending' = Append(pending, calls)
  /\ IF lastEvent = "done" THEN reader' = "flush" /\ UNCHANGED event
                           ELSE reader' = "read" /\ event' = "none"
  /\ UNCHANGED <<conn, client, ended, events, lastEvent, session, hangup, sigint,
                 mic, audio, history, presses>>

\* flushPending: one result after the other, then on; a failed send ends the loop.
FlushPending ==
  /\ Alive /\ reader = "flush"
  /\ \/ /\ pending = <<>>
        /\ IF event = "tool" THEN reader' = "read" /\ event' = "none"
                             ELSE reader' = "forward" /\ UNCHANGED event
        /\ UNCHANGED <<client, pending, results>>
     \/ /\ pending # <<>> /\ "done" \in Sends
        /\ results' = Append(results, Head(pending)) /\ pending' = Tail(pending)
        /\ UNCHANGED <<client, reader, event>>
     \/ /\ pending # <<>> /\ "failed" \in Sends
        /\ ReadStops("failed")
        /\ UNCHANGED <<pending, results>>
  /\ UNCHANGED <<conn, ended, events, lastEvent, session, hangup, sigint, mic,
                 audio, reads, calls, dropped, presses>>

\* mutant: End's waiter is signalled before the event is queued
SignalsFirst == reader \in {"forward", "signal"} /\ event = "ended" /\ ~ended
\* session.ended is queued before End's waiter is signalled.
SignalsEnded == reader = "signal"

Forward ==
  /\ Alive /\ reader = "forward" /\ ~(SignalsEnded /\ ~ended)
  /\ \/ Len(events) < EventsSize /\ events' = Append(events, event)
     \/ closed /\ UNCHANGED events
  /\ IF event = "ended" /\ ~ended THEN reader' = "signal" /\ UNCHANGED event
                                  ELSE reader' = "read" /\ event' = "none"
  /\ UNCHANGED <<conn, client, ended, lastEvent, pending, session, hangup, sigint,
                 mic, audio, history, presses>>

SignalEnded ==
  /\ Alive /\ SignalsEnded
  /\ ended' = TRUE
  /\ IF reader = "signal" THEN reader' = "read" /\ event' = "none"
                          ELSE UNCHANGED <<reader, event>>
  /\ UNCHANGED <<conn, client, events, lastEvent, pending, session, hangup, sigint,
                 mic, audio, history, presses>>
-----------------------------------------------------------------------------
(***************************************************************************)
(* micLoop and the player.                                                  *)
(***************************************************************************)
\* ReadFull fills a chunk, or the microphone ended.
MicReads ==
  /\ Alive /\ mic = "read"
  /\ mic' \in {"check", "off"}
  /\ UNCHANGED <<conn, client, ended, events, handling, session, hangup, sigint,
                 audio, history, presses>>

\* A chunk the gate holds back is dropped.
MicChecks ==
  /\ Alive /\ mic = "check"
  /\ \/ (~EchoGate \/ gate = 0) /\ mic' = "send"
     \/ EchoGate /\ gate > 0 /\ mic' = "read"
  /\ UNCHANGED <<conn, client, ended, events, handling, session, hangup, sigint,
                 audio, history, presses>>

\* The write waits for its turn on the socket: the gate may have moved meanwhile.
MicSends ==
  /\ Alive /\ mic = "send" /\ "done" \in Sends
  /\ mic' = "read"
  /\ UNCHANGED <<conn, client, ended, events, handling, session, hangup, sigint,
                 audio, history, presses>>

\* A refused chunk ends the loop.
MicFails ==
  /\ Alive /\ mic = "send" /\ "failed" \in Sends
  /\ Shutdown("failed") /\ mic' = "off"
  /\ UNCHANGED <<conn, ended, events, handling, session, hangup, sigint, audio,
                 history, presses>>

\* External: audio plays in real time.
Tick ==
  /\ Alive /\ ~closed /\ (gate > 0 \/ unplayed > 0)
  /\ gate' = IF gate > 0 THEN gate - 1 ELSE 0
  /\ unplayed' = IF unplayed > 0 THEN unplayed - 1 ELSE 0
  /\ UNCHANGED <<conn, client, ended, events, handling, session, hangup, sigint,
                 mic, history, presses>>
-----------------------------------------------------------------------------
(***************************************************************************)
(* sessionLoop and finish.  The command never cancels the context it gives   *)
(* Run, so endSession is never reached.                                     *)
(***************************************************************************)
\* Everything the loop prints waits for the console.
ConsoleFree == reader # "tool"

\* The first Ctrl-C announces the hang-up, the second closes at once.
TakeSignal ==
  /\ loop = "select" /\ sigint
  /\ sigint' = FALSE
  /\ \/ /\ ~ending
        /\ ending' = TRUE /\ loop' = "announce"
        /\ UNCHANGED <<client, conn, ret>>
     \/ /\ ending
        /\ Shutdown("clean") /\ conn' = "shut"
        /\ ReturnWith("nil") /\ UNCHANGED ending
  /\ UNCHANGED <<ended, events, handling, totals, hangup, mic, audio, history,
                 presses>>

Announce ==
  /\ loop = "announce" /\ ConsoleFree
  /\ loop' = "select" /\ ender' = "send"
  /\ UNCHANGED <<conn, client, ended, events, handling, ending, totals, ret,
                 endedBy, sigint, mic, audio, history, presses>>

TakeEvent ==
  /\ loop = "select" /\ events # <<>>
  /\ events' = Tail(events)
  /\ totals' = (totals \/ Head(events) = "ended")
  /\ loop' = "render"
  /\ UNCHANGED <<conn, client, ended, handling, ending, ret, hangup, sigint, mic,
                 audio, history, presses>>

Render ==
  /\ loop = "render" /\ ConsoleFree
  /\ loop' = "select"
  /\ UNCHANGED <<conn, client, ended, events, handling, ending, totals, ret, hangup,
                 sigint, mic, audio, history, presses>>

Outcome(err) == IF totals \/ err = "clean" THEN "nil" ELSE "error"

\* Events is closed and drained: the client's terminal error decides.
Finish ==
  /\ loop = "select" /\ events = <<>> /\ reader = "gone"
  /\ ReturnWith(Outcome(done))
  /\ UNCHANGED <<conn, client, ended, events, handling, ending, totals, hangup,
                 sigint, mic, audio, history, presses>>

-----------------------------------------------------------------------------
(***************************************************************************)
(* End, in its goroutine.                                                   *)
(***************************************************************************)
EndSends ==
  /\ Alive /\ ender = "send"
  /\ \/ closed /\ ender' = "over" /\ UNCHANGED client
     \/ ~closed /\ "done" \in Sends /\ ender' = "wait" /\ UNCHANGED client
     \/ ~closed /\ "failed" \in Sends /\ ender' = "over" /\ Shutdown("failed")
  /\ UNCHANGED <<conn, ended, events, handling, session, endedBy, sigint, mic,
                 audio, history, presses>>

WaitsForEver == ended \/ closed                                \* mutant
\* endTimeout may pass at any time.
WaitEnds == TRUE

EndWaits ==
  /\ Alive /\ ender = "wait" /\ WaitEnds
  /\ \/ ended /\ endedBy' = "ended"
     \/ ~ended /\ endedBy' = "other"
  /\ ender' = "over"
  /\ Shutdown("clean") /\ conn' = "shut"
  /\ UNCHANGED <<ended, events, handling, session, sigint, mic, audio, history,
                 presses>>
-----------------------------------------------------------------------------
(***************************************************************************)
(* External: the user, the server's end of the connection.                  *)
(***************************************************************************)
Press ==
  /\ Alive /\ presses < MaxPresses
  /\ presses' = presses + 1 /\ sigint' = TRUE
  /\ UNCHANGED <<conn, client, ended, events, handling, session, hangup, mic, audio,
                 history>>

ConnectionDrops ==
  /\ Alive /\ ~closed /\ "drop" \in Faults /\ conn = "up"
  /\ conn' = "lost"
  /\ UNCHANGED <<client, ended, events, handling, session, hangup, sigint, mic,
                 audio, history, presses>>

-----------------------------------------------------------------------------
\* What readLoop does without waiting for the server.
ReadLoop ==
  \/ ReadFails \/ Play \/ AdvanceGate \/ ToolEnds \/ FlushPending \/ Forward
  \/ SignalEnded

SessionLoop ==
  TakeSignal \/ Announce \/ TakeEvent \/ Render \/ Finish

MicLoop == MicReads \/ MicChecks \/ MicSends \/ MicFails

End == EndSends \/ EndWaits

Next ==
  \/ ConnectFails \/ ConnectSteps
  \/ Read \/ ReadLoop \/ MicLoop \/ Tick
  \/ SessionLoop \/ End
  \/ Press \/ ConnectionDrops

Spec == Init /\ [][Next]_vars

\* The goroutines run when they can, a tool ends (its timeout sees to that; a
\* subagent has none), the player takes what it is given, and the timer of End
\* fires.  The server need not send anything.
FairSpec ==
  /\ Spec
  /\ WF_vars(ReadLoop) /\ WF_vars(SessionLoop) /\ WF_vars(End)
-----------------------------------------------------------------------------
TypeOK ==
  /\ conn \in {"none", "up", "lost", "shut"}
  /\ {closed, ended, ending, totals, sigint} \subseteq BOOLEAN
  /\ done \in {"none", "clean", "failed"} /\ (closed <=> done # "none")
  /\ events \in Seq({"started", "done", "interrupted", "other", "ended"})
  /\ Len(events) <= EventsSize
  /\ reader \in {"off", "read", "play", "gate", "tool", "flush", "forward", "signal",
                 "gone"}
  /\ event \in {"none", "audio", "started", "done", "interrupted", "other", "ended",
                "tool"}
  /\ lastEvent \in {"none", "started", "done"}
  /\ pending \in Seq(1..calls) /\ results \in Seq(1..calls) /\ dropped \subseteq 1..calls
  /\ mic \in {"off", "read", "check", "send"}
  /\ loop \in {"dial", "update", "ready", "select", "announce", "render", "returned"}
  /\ ret \in {"none", "nil", "error"} /\ (ret # "none" <=> loop = "returned")
  /\ ender \in {"off", "send", "wait", "over"}
  /\ endedBy \in {"none", "ended", "other"}
  /\ gate \in Nat /\ unplayed \in Nat /\ reads \in Nat /\ calls \in Nat
  /\ presses \in Nat

\* Every tool result is sent once and in the order of the calls, and none of a reply
\* that was interrupted (handleEvent, handleToolCall, flushPending).
ResultsOnce ==
  /\ \A i, j \in 1..Len(results) : i < j => results[i] < results[j]
  /\ \A i \in 1..Len(results) : results[i] \notin dropped

\* "a concurrent End cannot shut the socket down before the renderer has seen the
\* session totals" (handleEvent): when End's wait saw the session end and nothing
\* had failed, Run returns only after the totals, unless it is forced.
TotalsSeen ==
  endedBy = "ended" /\ done = "clean" /\ loop = "returned"
    /\ presses = 1 => totals

\* With the echo gate set a chunk passes the gate only when all of the reply that the
\* gate was told of has been heard, wherever the read loop stands (advanceGate, micLoop).
GateCoversReply ==
  [][EchoGate /\ mic = "check" /\ mic' = "send" /\ reader # "gate" => unplayed = 0]_vars

\* A Ctrl-C ends the session, whatever the server, the socket and the events still to
\* be rendered do (sessionLoop, End).
HangUpReturns == (presses > 0) ~> (loop = "returned")
=============================================================================

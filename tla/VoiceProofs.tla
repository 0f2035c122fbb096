----------------------------- MODULE VoiceProofs -----------------------------
(***************************************************************************)
(* Proofs about Voice, for every capacity of the events channel, every      *)
(* number of events, calls and presses, and with or without the echo gate:  *)
(* typing, tool results in order and once, the session's totals before the  *)
(* hang-up, and a gate that covers what the agent says.                     *)
(***************************************************************************)
EXTENDS Voice, TLAPS

(***************************************************************************)
(* The inductive invariant.                                                 *)
(***************************************************************************)
Kinds == {"started", "done", "interrupted", "other", "ended"}

\* What the reader holds when it forwards an event, flushes or runs a tool.
InHand ==
  /\ reader \in {"forward", "signal"} => event \in Kinds
  /\ reader = "flush" => event \in {"done", "tool"}
  /\ reader = "tool" => event = "tool"

\* While the client connects, nothing else runs.
Connecting ==
  loop \in {"dial", "update", "ready"} => reader = "off" /\ ender = "off" /\ mic = "off"

\* Results sent, then results held, then the call that runs: numbers only grow, and
\* what an interrupted reply dropped is among neither.
Ordered ==
  /\ \A i, j \in 1..Len(results) : i < j => results[i] < results[j]
  /\ \A i, j \in 1..Len(pending) : i < j => pending[i] < pending[j]
  /\ \A i \in 1..Len(results), j \in 1..Len(pending) : results[i] < pending[j]
Kept ==
  /\ \A i \in 1..Len(results) : results[i] \notin dropped
  /\ \A i \in 1..Len(pending) : pending[i] \notin dropped
CallIsNew ==
  reader = "tool" =>
    /\ calls >= 1
    /\ \A i \in 1..Len(results) : results[i] < calls
    /\ \A i \in 1..Len(pending) : pending[i] < calls
    /\ calls \notin dropped

\* session.ended was rendered or still waits to be.
Totals == totals \/ \E i \in 1..Len(events) : events[i] = "ended"

\* The renderer's view is safe while the client lives; afterwards it was safe when
\* End's wait saw the end, unless a second Ctrl-C closed the client.
EndSeen ==
  /\ ~closed /\ (ended \/ reader = "signal") => Totals
  /\ endedBy = "ended" /\ done = "clean" /\ presses <= 1 => Totals
  /\ endedBy = "ended" /\ done = "clean" /\ presses <= 1 /\ loop = "returned" => totals

\* Who hangs up: a press announces it, End's goroutine follows, only these two close
\* the client without an error.
HangUp ==
  /\ loop = "announce" \/ ender # "off" => ending
  /\ loop = "announce" => ender = "off"
  /\ ending => presses >= 1
  /\ sigint => presses >= 1
  /\ ending /\ sigint => presses >= 2
  /\ endedBy # "none" => ender = "over"
  /\ done = "clean" => endedBy # "none" \/ presses >= 2

\* The gate stays shut as long as there is something to hear, but for the chunk that
\* was just played.
Gated == EchoGate => unplayed <= gate + (IF reader = "gate" THEN 1 ELSE 0)

IInv ==
  /\ TypeOK /\ InHand /\ Connecting /\ Ordered /\ Kept /\ CallIsNew /\ EndSeen /\ HangUp /\ Gated
-----------------------------------------------------------------------------
USE VoiceAssumption

(***************************************************************************)
(* Typing, a group of variables at a time.                                  *)
(***************************************************************************)
PhasesTyped ==
  /\ conn \in {"none", "up", "lost", "shut"}
  /\ done \in {"none", "clean", "failed"}
  /\ reader \in {"off", "read", "play", "gate", "tool", "flush", "forward", "signal",
                 "gone"}
  /\ event \in {"none", "audio", "started", "done", "interrupted", "other", "ended",
                "tool"}
  /\ lastEvent \in {"none", "started", "done"}
  /\ loop \in {"dial", "update", "ready", "select", "announce", "render", "returned"}
  /\ ret \in {"none", "nil", "error"} /\ (ret # "none" <=> loop = "returned")
  /\ mic \in {"off", "read", "check", "send"}
  /\ ender \in {"off", "send", "wait", "over"}
  /\ endedBy \in {"none", "ended", "other"}
FlagsTyped ==
  /\ closed \in BOOLEAN /\ ended \in BOOLEAN /\ ending \in BOOLEAN /\ totals \in BOOLEAN
  /\ sigint \in BOOLEAN
DoneClosed == closed <=> done # "none"
CountsTyped ==
  gate \in Nat /\ unplayed \in Nat /\ reads \in Nat /\ calls \in Nat /\ presses \in Nat
EventsTyped == events \in Seq(Kinds) /\ Len(events) <= EventsSize
ResultsTyped ==
  /\ calls \in Nat
  /\ pending \in Seq(1..calls) /\ results \in Seq(1..calls) /\ dropped \subseteq 1..calls

LEMMA TypedByGroups ==
  TypeOK <=> /\ PhasesTyped /\ FlagsTyped /\ DoneClosed /\ CountsTyped /\ EventsTyped
             /\ ResultsTyped
BY DEF TypeOK, PhasesTyped, FlagsTyped, DoneClosed, CountsTyped, EventsTyped, ResultsTyped, Kinds

LEMMA PhasesStep ==
  ASSUME PhasesTyped, InHand, [Next]_vars
  PROVE  PhasesTyped'
<1>1. CASE UNCHANGED vars
  BY <1>1 DEF PhasesTyped, vars, client, handling, session, hangup
<1>2. CASE ConnectFails \/ ConnectSteps
  BY <1>2 DEF PhasesTyped, ConnectFails, ConnectSteps, ReturnWith, client, handling, hangup
<1>3. CASE Read
  BY <1>3 DEF PhasesTyped, Read, ReadStops, Shutdown, Handle, ServerEvents, client, session,
       hangup
<1>4. CASE ReadFails \/ Play \/ AdvanceGate \/ ToolEnds
  BY <1>4 DEF PhasesTyped, ReadFails, Play, AdvanceGate, ToolEnds, ReadStops, Shutdown, client,
              session, hangup
<1>5. CASE FlushPending \/ Forward \/ SignalEnded
  BY <1>5 DEF PhasesTyped, FlushPending, Forward, SignalEnded, ReadStops, Shutdown, client,
              session, hangup
<1>6. CASE MicLoop \/ Tick
  BY <1>6 DEF PhasesTyped, MicLoop, MicReads, MicChecks, MicSends, MicFails, Tick, Shutdown,
       client, handling, session, hangup
<1>7. CASE SessionLoop
  BY <1>7 DEF PhasesTyped, SessionLoop, TakeSignal, Announce, TakeEvent, Render, Finish, Outcome,
              Shutdown, ReturnWith, client, handling, hangup
<1>8. CASE End
  BY <1>8 DEF PhasesTyped, End, EndSends, EndWaits, Shutdown, client, handling, session
<1>9. CASE Press \/ ConnectionDrops
  BY <1>9 DEF PhasesTyped, Press, ConnectionDrops, client, handling, session, hangup
<1> QED
  BY <1>1, <1>2, <1>3, <1>4, <1>5, <1>6, <1>7, <1>8, <1>9 DEF Next, ReadLoop

LEMMA FlagsStep ==
  ASSUME FlagsTyped, [Next]_vars
  PROVE  FlagsTyped'
<1>1. CASE UNCHANGED vars
  BY <1>1 DEF FlagsTyped, vars, client, session, audio
<1>2. CASE ConnectFails \/ ConnectSteps
  BY <1>2 DEF FlagsTyped, ConnectFails, ConnectSteps, client, audio
<1>3. CASE Read
  BY <1>3 DEF FlagsTyped, Read, ReadStops, Shutdown, client, session, audio
<1>4. CASE ReadFails \/ Play \/ AdvanceGate \/ ToolEnds
  BY <1>4 DEF FlagsTyped, ReadFails, Play, AdvanceGate, ToolEnds, ReadStops, Shutdown, client,
              session, audio
<1>5. CASE FlushPending \/ Forward \/ SignalEnded
  BY <1>5 DEF FlagsTyped, FlushPending, Forward, SignalEnded, ReadStops, Shutdown, client,
              session, audio
<1>6. CASE MicLoop \/ Tick
  BY <1>6 DEF FlagsTyped, MicLoop, MicReads, MicChecks, MicSends, MicFails, Tick, Shutdown,
       client, session, audio
<1>7. CASE SessionLoop
  BY <1>7 DEF FlagsTyped, SessionLoop, TakeSignal, Announce, TakeEvent, Render, Finish,
              Shutdown, client, audio
<1>8. CASE End
  BY <1>8 DEF FlagsTyped, End, EndSends, EndWaits, Shutdown, client, session, audio
<1>9. CASE Press \/ ConnectionDrops
  BY <1>9 DEF FlagsTyped, Press, ConnectionDrops, client, session, audio
<1> QED
  BY <1>1, <1>2, <1>3, <1>4, <1>5, <1>6, <1>7, <1>8, <1>9 DEF Next, ReadLoop

\* Every step keeps the client as it is or shuts it down.
LEMMA ClientStep ==
  ASSUME [Next]_vars
  PROVE  UNCHANGED client \/ Shutdown("failed") \/ Shutdown("clean")
BY DEF vars, Next, ReadLoop, SessionLoop, End, ConnectFails, ConnectSteps, Read, ReadFails,
       Play, AdvanceGate, ToolEnds, FlushPending, Forward, SignalEnded, MicLoop, MicReads,
       MicChecks, MicSends, MicFails, Tick, TakeSignal, Announce, TakeEvent, Render, Finish,
       EndSends, EndWaits, Press, ConnectionDrops, ReadStops

LEMMA ClosedCleanly ==
  ASSUME [Next]_vars, ~TakeSignal, ~EndWaits
  PROVE  UNCHANGED client \/ Shutdown("failed")
BY DEF vars, Next, ReadLoop, SessionLoop, End, ConnectFails, ConnectSteps, Read, ReadFails,
       Play, AdvanceGate, ToolEnds, FlushPending, Forward, SignalEnded, MicLoop, MicReads,
       MicChecks, MicSends, MicFails, Tick, Announce, TakeEvent, Render, Finish, EndSends,
       Press, ConnectionDrops, ReadStops

LEMMA DoneClosedStep ==
  ASSUME DoneClosed, [Next]_vars
  PROVE  DoneClosed'
BY ClientStep DEF DoneClosed, client, Shutdown

LEMMA CountsStep ==
  ASSUME CountsTyped, [Next]_vars
  PROVE  CountsTyped'
<1>1. CASE Read
  BY <1>1 DEF CountsTyped, Read, Handle, ServerEvents, audio
<1>2. CASE Play \/ AdvanceGate \/ Tick \/ Press
  BY <1>2 DEF CountsTyped, Play, AdvanceGate, Advanced, Tick, Press, audio, history
<1>3. CASE ~(Read \/ Play \/ AdvanceGate \/ Tick \/ Press)
  <2>1. UNCHANGED <<gate, unplayed, reads, calls, presses>>
    BY <1>3 DEF vars, audio, history, Next, ReadLoop, SessionLoop, End, ConnectFails,
       ConnectSteps, ReadFails, ToolEnds, FlushPending, Forward, SignalEnded, MicLoop, MicReads,
       MicChecks, MicSends, MicFails, TakeSignal, Announce, TakeEvent, Render, Finish, EndSends,
       EndWaits, ConnectionDrops
  <2> QED BY <2>1 DEF CountsTyped
<1> QED BY <1>1, <1>2, <1>3

LEMMA EventsStep ==
  ASSUME EventsTyped, InHand, [Next]_vars
  PROVE  EventsTyped'
<1>1. CASE Forward
  <2>1. event \in Kinds
    BY <1>1 DEF Forward, InHand
  <2> QED BY <1>1, <2>1 DEF Forward, EventsTyped
<1>2. CASE TakeEvent
  BY <1>2 DEF TakeEvent, EventsTyped
<1>3. CASE ~(Forward \/ TakeEvent)
  <2>1. UNCHANGED events
    BY <1>3 DEF vars, Next, ReadLoop, SessionLoop, End, ConnectFails, ConnectSteps, Read,
       ReadFails, Play, AdvanceGate, ToolEnds, FlushPending, SignalEnded, MicLoop, MicReads,
       MicChecks, MicSends, MicFails, Tick, TakeSignal, Announce, Render, Finish, EndSends,
       EndWaits, Press, ConnectionDrops
  <2> QED BY <2>1 DEF EventsTyped
<1> QED BY <1>1, <1>2, <1>3

\* Only these steps touch the calls and their results.
LEMMA ResultsMovedBy ==
  ASSUME [Next]_vars, ~(Read \/ ToolEnds \/ FlushPending)
  PROVE  UNCHANGED <<pending, calls, results, dropped>>
BY DEF vars, handling, history, Next, ReadLoop, SessionLoop, End, ConnectFails, ConnectSteps,
       ReadFails, Play, AdvanceGate, Forward, SignalEnded, MicLoop, MicReads, MicChecks,
       MicSends, MicFails, Tick, TakeSignal, Announce, TakeEvent, Render, Finish, EndSends,
       EndWaits, Press, ConnectionDrops

LEMMA SeqOfNumbers ==
  ASSUME NEW n \in Nat, NEW s
  PROVE  s \in Seq(1..n) <=> s \in Seq(Nat) /\ \A i \in 1..Len(s) : s[i] \in 1..n
<1>1. ASSUME s \in Seq(Nat), \A i \in 1..Len(s) : s[i] \in 1..n
      PROVE  s \in Seq(1..n)
  <2>1. Len(s) \in Nat /\ s \in [1..Len(s) -> 1..n]
    BY <1>1
  <2> QED BY <2>1
<1>2. ASSUME s \in Seq(1..n)
      PROVE  s \in Seq(Nat) /\ \A i \in 1..Len(s) : s[i] \in 1..n
  <2>1. Len(s) \in Nat /\ s \in [1..Len(s) -> Nat]
    BY <1>2
  <2> QED BY <1>2, <2>1
<1> QED BY <1>1, <1>2

LEMMA HeadMoves ==
  ASSUME NEW p \in Seq(Nat), p # <<>>, NEW r \in Seq(Nat)
  PROVE  /\ Append(r, Head(p)) \in Seq(Nat) /\ Len(Append(r, Head(p))) = Len(r) + 1
         /\ \A i \in 1..Len(r) : Append(r, Head(p))[i] = r[i]
         /\ Append(r, Head(p))[Len(r) + 1] = p[1]
         /\ Tail(p) \in Seq(Nat) /\ Len(Tail(p)) = Len(p) - 1
         /\ \A i \in 1..(Len(p) - 1) : Tail(p)[i] = p[i + 1]
         /\ Len(p) \in Nat \ {0} /\ Len(r) \in Nat
OBVIOUS

LEMMA ResultsStep ==
  ASSUME ResultsTyped, CallIsNew, [Next]_vars
  PROVE  ResultsTyped'
<1>0. /\ calls \in Nat /\ pending \in Seq(Nat) /\ results \in Seq(Nat)
      /\ \A i \in 1..Len(pending) : pending[i] \in 1..calls
      /\ \A i \in 1..Len(results) : results[i] \in 1..calls
      /\ dropped \subseteq 1..calls
  BY SeqOfNumbers DEF ResultsTyped
<1> SUFFICES /\ calls' \in Nat /\ pending' \in Seq(Nat) /\ results' \in Seq(Nat)
             /\ \A i \in 1..Len(pending') : pending'[i] \in 1..calls'
             /\ \A i \in 1..Len(results') : results'[i] \in 1..calls'
             /\ dropped' \subseteq 1..calls'
  BY SeqOfNumbers DEF ResultsTyped
<1>1. CASE Read
  <2>1. /\ calls' \in {calls, calls + 1} /\ UNCHANGED results
        /\ \/ UNCHANGED <<pending, dropped>>
           \/ /\ pending' = <<>>
              /\ dropped' = dropped \cup {pending[i] : i \in 1..Len(pending)}
    BY <1>1 DEF Read, Handle, Interrupted
  <2>2. CASE UNCHANGED <<pending, dropped>>
    BY <1>0, <2>1, <2>2
  <2>3. CASE /\ pending' = <<>>
             /\ dropped' = dropped \cup {pending[i] : i \in 1..Len(pending)}
    <3>1. {pending[i] : i \in 1..Len(pending)} \subseteq 1..calls
      BY <1>0
    <3>2. 1..calls \subseteq 1..calls'
      BY <1>0, <2>1
    <3>3. dropped' \subseteq 1..calls'
      BY <1>0, <2>3, <3>1, <3>2
    <3> QED BY <1>0, <2>1, <2>3, <3>3
  <2> QED BY <2>1, <2>2, <2>3
<1>2. CASE ToolEnds
  BY <1>0, <1>2 DEF CallIsNew, ToolEnds, history
<1>3. CASE FlushPending
  <2>1. UNCHANGED <<calls, dropped>>
    BY <1>3 DEF FlushPending
  <2>2. CASE UNCHANGED <<pending, results>>
    BY <1>0, <2>1, <2>2
  <2>3. CASE /\ pending # <<>>
             /\ results' = Append(results, Head(pending)) /\ pending' = Tail(pending)
    BY <1>0, <2>1, <2>3, HeadMoves
  <2> QED BY <1>3, <2>2, <2>3 DEF FlushPending
<1>4. CASE ~(Read \/ ToolEnds \/ FlushPending)
  BY <1>0, <1>4, ResultsMovedBy
<1> QED BY <1>1, <1>2, <1>3, <1>4

LEMMA InHandStep ==
  ASSUME InHand, [Next]_vars
  PROVE  InHand'
<1>1. CASE Read
  BY <1>1 DEF InHand, Kinds, Read, ReadStops, Handle, ServerEvents
<1>2. CASE ConnectSteps \/ ReadFails \/ Play \/ AdvanceGate \/ ToolEnds
  BY <1>2 DEF InHand, Kinds, ConnectSteps, ReadFails, Play, AdvanceGate, ToolEnds, ReadStops
<1>3. CASE FlushPending \/ Forward \/ SignalEnded
  BY <1>3 DEF InHand, Kinds, FlushPending, Forward, SignalEnded, ReadStops
<1>4. CASE ~(Read \/ ConnectSteps \/ ReadLoop)
  <2>1. UNCHANGED <<reader, event>>
    BY <1>4 DEF vars, handling, Next, ReadLoop, SessionLoop, End, ConnectFails, MicLoop,
       MicReads, MicChecks, MicSends, MicFails, Tick, TakeSignal, Announce, TakeEvent, Render,
       Finish, EndSends, EndWaits, Press, ConnectionDrops
  <2> QED BY <2>1 DEF InHand
<1> QED BY <1>1, <1>2, <1>3, <1>4 DEF ReadLoop

LEMMA ConnectingStep ==
  ASSUME Connecting, [Next]_vars
  PROVE  Connecting'
<1>1. CASE loop \in {"dial", "update", "ready"}
  BY <1>1 DEF Connecting, Alive, vars, client, handling, session, hangup, Next, ReadLoop,
       SessionLoop, End, ConnectFails, ConnectSteps, Read, ReadFails, Play, AdvanceGate,
       ToolEnds, FlushPending, Forward, SignalEnded, MicLoop, MicReads, MicChecks, MicSends,
       MicFails, Tick, TakeSignal, Announce, TakeEvent, Render, Finish, EndSends, EndWaits,
       Press, ConnectionDrops, ReturnWith
<1>2. CASE loop \notin {"dial", "update", "ready"}
  <2>1. loop' \notin {"dial", "update", "ready"}
    BY <1>2 DEF vars, session, Next, ReadLoop, SessionLoop, End, ConnectFails, ConnectSteps,
       Read, ReadFails, Play, AdvanceGate, ToolEnds, FlushPending, Forward, SignalEnded,
       MicLoop, MicReads, MicChecks, MicSends, MicFails, Tick, TakeSignal, Announce, TakeEvent,
       Render, Finish, EndSends, EndWaits, Press, ConnectionDrops, ReturnWith
  <2> QED BY <2>1 DEF Connecting
<1> QED BY <1>1, <1>2
-----------------------------------------------------------------------------
(***************************************************************************)
(* Results.                                                                 *)
(***************************************************************************)
LEMMA OrderStep ==
  ASSUME ResultsTyped, Ordered, Kept, CallIsNew, [Next]_vars
  PROVE  Ordered' /\ Kept'
<1>0. /\ calls \in Nat /\ pending \in Seq(Nat) /\ results \in Seq(Nat)
      /\ \A i \in 1..Len(pending) : pending[i] \in 1..calls
      /\ \A i \in 1..Len(results) : results[i] \in 1..calls
  BY SeqOfNumbers DEF ResultsTyped
<1>1. CASE Read
  <2>1. UNCHANGED results
    BY <1>1 DEF Read
  <2>2. CASE UNCHANGED <<pending, dropped>>
    BY <2>1, <2>2 DEF Ordered, Kept
  <2>3. CASE /\ pending' = <<>>
             /\ dropped' = dropped \cup {pending[i] : i \in 1..Len(pending)}
    BY <1>0, <2>1, <2>3 DEF Ordered, Kept
  <2> QED BY <1>1, <2>2, <2>3 DEF Read, Handle, Interrupted
<1>2. CASE ToolEnds
  <2>1. pending' = Append(pending, calls) /\ UNCHANGED <<results, dropped>> /\ reader = "tool"
    BY <1>2 DEF ToolEnds, history
  <2> QED BY <1>0, <2>1 DEF Ordered, Kept, CallIsNew
<1>3. CASE FlushPending
  <2>1. CASE UNCHANGED <<pending, results, dropped>>
    BY <2>1 DEF Ordered, Kept
  <2>2. CASE /\ pending # <<>> /\ UNCHANGED dropped
             /\ results' = Append(results, Head(pending)) /\ pending' = Tail(pending)
    <3> DEFINE n == Len(results)  m == Len(pending)
    <3>1. /\ Len(results') = n + 1 /\ Len(pending') = m - 1 /\ n \in Nat /\ m \in Nat \ {0}
          /\ \A i \in 1..n : results'[i] = results[i]
          /\ results'[n + 1] = pending[1]
          /\ \A i \in 1..(m - 1) : pending'[i] = pending[i + 1]
      BY <1>0, <2>2, HeadMoves
    <3> HIDE DEF n, m
    <3>2. /\ \A i, j \in 1..n : i < j => results[i] < results[j]
          /\ \A i, j \in 1..m : i < j => pending[i] < pending[j]
          /\ \A i \in 1..n, j \in 1..m : results[i] < pending[j]
          /\ \A i \in 1..n : results[i] \notin dropped
          /\ \A i \in 1..m : pending[i] \notin dropped
      BY DEF Ordered, Kept, n, m
    <3>3. \A i, j \in 1..(n + 1) : i < j => results'[i] < results'[j]
      BY <3>1, <3>2
    <3>4. \A i, j \in 1..(m - 1) : i < j => pending'[i] < pending'[j]
      BY <3>1, <3>2
    <3>5. \A i \in 1..(n + 1), j \in 1..(m - 1) : results'[i] < pending'[j]
      <4> SUFFICES ASSUME NEW i \in 1..(n + 1), NEW j \in 1..(m - 1)
                   PROVE  results'[i] < pending'[j]
        OBVIOUS
      <4>1. 1 \in 1..m /\ j + 1 \in 1..m /\ 1 < j + 1
        BY <3>1
      <4>2. CASE i = n + 1
        BY <3>1, <3>2, <4>1, <4>2
      <4>3. CASE i \in 1..n
        BY <3>1, <3>2, <4>1, <4>3
      <4> QED BY <3>1, <4>2, <4>3
    <3>6. /\ \A i \in 1..(n + 1) : results'[i] \notin dropped
          /\ \A i \in 1..(m - 1) : pending'[i] \notin dropped
      <4>1. ASSUME NEW i \in 1..(n + 1)
            PROVE  results'[i] \notin dropped
        BY <3>1, <3>2 DEF n
      <4>2. ASSUME NEW i \in 1..(m - 1)
            PROVE  pending'[i] \notin dropped
        <5>1. i + 1 \in 1..m /\ pending'[i] = pending[i + 1]
          BY <3>1
        <5> QED BY <3>2, <5>1
      <4> QED BY <4>1, <4>2
    <3> QED BY <2>2, <3>1, <3>3, <3>4, <3>5, <3>6 DEF Ordered, Kept
  <2> QED BY <1>3, <2>1, <2>2 DEF FlushPending
<1>4. CASE ~(Read \/ ToolEnds \/ FlushPending)
  BY <1>4, ResultsMovedBy DEF Ordered, Kept
<1> QED BY <1>1, <1>2, <1>3, <1>4

\* A call's number is new when it arrives, and nothing moves while it runs.
LEMMA CallIsNewStep ==
  ASSUME ResultsTyped, CallIsNew, [Next]_vars
  PROVE  CallIsNew'
<1> SUFFICES ASSUME reader' = "tool"
             PROVE  CallIsNew'
  BY DEF CallIsNew
<1>1. CASE Read
  <2>1. calls' = calls + 1 /\ UNCHANGED <<pending, dropped, results>>
    BY <1>1 DEF Read, ReadStops, Handle
  <2>2. /\ calls \in Nat /\ dropped \subseteq 1..calls
        /\ \A i \in 1..Len(pending) : pending[i] \in 1..calls
        /\ \A i \in 1..Len(results) : results[i] \in 1..calls
    BY SeqOfNumbers DEF ResultsTyped
  <2> QED BY <2>1, <2>2 DEF CallIsNew
<1>2. CASE ~Read
  <2>1. reader = "tool" /\ ~ToolEnds /\ ~FlushPending
    BY <1>2 DEF vars, handling, Next, ReadLoop, SessionLoop, End, ConnectFails, ConnectSteps,
       ReadFails, ReadStops, Play, AdvanceGate, ToolEnds, FlushPending, Forward, SignalEnded,
       MicLoop, MicReads, MicChecks, MicSends, MicFails, Tick, TakeSignal, Announce, TakeEvent,
       Render, Finish, EndSends, EndWaits, Press, ConnectionDrops
  <2> QED BY <1>2, <2>1, ResultsMovedBy DEF CallIsNew
<1> QED BY <1>1, <1>2
-----------------------------------------------------------------------------
(***************************************************************************)
(* The hang-up.                                                             *)
(***************************************************************************)
LEMMA HangUpStep ==
  ASSUME PhasesTyped, CountsTyped, DoneClosed, HangUp, [Next]_vars
  PROVE  HangUp'
<1>0. presses \in Nat
  BY DEF CountsTyped
<1>1. CASE TakeSignal
  BY <1>0, <1>1 DEF HangUp, TakeSignal, Shutdown, ReturnWith, client, hangup
<1>2. CASE Announce \/ TakeEvent \/ Render \/ Finish
  BY <1>0, <1>2 DEF HangUp, Announce, TakeEvent, Render, Finish, ReturnWith, client, hangup
<1>3. CASE EndSends
  BY <1>0, <1>3 DEF HangUp, EndSends, Shutdown, client, session
<1>4. CASE EndWaits
  BY <1>0, <1>4 DEF HangUp, EndWaits, Shutdown, session
<1>5. CASE Press
  BY <1>0, <1>5 DEF HangUp, Press, client, session, hangup
<1>6. CASE UNCHANGED vars \/ MicLoop \/ Tick \/ ConnectionDrops
  BY <1>0, <1>6 DEF HangUp, vars, MicLoop, MicReads, MicChecks, MicSends, MicFails, Tick,
                    ConnectionDrops, Shutdown, client, session, hangup
<1>7. CASE ConnectFails \/ ConnectSteps
  BY <1>0, <1>7 DEF HangUp, ConnectFails, ConnectSteps, ReturnWith, client, session, hangup
<1>8. CASE Read \/ ReadLoop
  <2>1. UNCHANGED <<session, hangup, sigint, presses>>
    BY <1>8 DEF Read, ReadLoop, ReadFails, Play, AdvanceGate, ToolEnds, FlushPending, Forward,
                SignalEnded, history
  <2>2. UNCHANGED done \/ done' = "failed"
    BY <1>8 DEF Read, ReadLoop, ReadFails, Play, AdvanceGate, ToolEnds, FlushPending, Forward,
                SignalEnded, ReadStops, Shutdown, client
  <2> QED BY <1>0, <2>1, <2>2 DEF HangUp, session, hangup
<1> QED
  BY <1>1, <1>2, <1>3, <1>4, <1>5, <1>6, <1>7, <1>8 DEF Next, SessionLoop, End

\* Queueing an event keeps the totals in view, and so does taking one.
LEMMA TotalsForward ==
  ASSUME EventsTyped, Totals, UNCHANGED totals, NEW e \in Kinds, events' = Append(events, e)
  PROVE  Totals'
<1>1. \A i \in 1..Len(events) : i \in 1..Len(events') /\ events'[i] = events[i]
  BY DEF EventsTyped
<1> QED BY <1>1 DEF Totals

LEMMA TotalsTaken ==
  ASSUME EventsTyped, FlagsTyped, Totals, TakeEvent
  PROVE  Totals'
<1>1. /\ events \in Seq(Kinds) /\ events # <<>> /\ events' = Tail(events)
      /\ totals' = (totals \/ Head(events) = "ended")
  BY DEF EventsTyped, TakeEvent
<1>2. CASE totals \/ events[1] = "ended"
  <2>1. Head(events) = events[1]
    BY <1>1
  <2>2. totals'
    BY <1>1, <1>2, <2>1
  <2> QED BY <2>2 DEF Totals
<1>3. ASSUME NEW i \in 2..Len(events), events[i] = "ended"
      PROVE  Totals'
  <2>1. i - 1 \in 1..Len(events') /\ events'[i - 1] = "ended"
    BY <1>1, <1>3
  <2> QED BY <2>1 DEF Totals
<1>4. totals \/ events[1] = "ended" \/ \E i \in 2..Len(events) : events[i] = "ended"
  BY <1>1 DEF Totals
<1> QED BY <1>2, <1>3, <1>4

LEMMA TotalsStep ==
  ASSUME EventsTyped, FlagsTyped, InHand, Totals, [Next]_vars
  PROVE  Totals'
<1>1. CASE UNCHANGED <<events, totals>>
  BY <1>1 DEF Totals
<1>2. CASE Forward
  <2>1. UNCHANGED totals /\ event \in Kinds
    BY <1>2 DEF Forward, InHand, session
  <2> QED BY <1>1, <1>2, <2>1, TotalsForward DEF Forward
<1>3. CASE TakeEvent
  BY <1>3, TotalsTaken
<1>4. CASE ~(Forward \/ TakeEvent)
  <2>1. UNCHANGED <<events, totals>>
    BY <1>4 DEF vars, session, Next, ReadLoop, SessionLoop, End, ConnectFails, ConnectSteps,
       Read, ReadFails, Play, AdvanceGate, ToolEnds, FlushPending, SignalEnded, MicLoop,
       MicReads, MicChecks, MicSends, MicFails, Tick, TakeSignal, Announce, Render, Finish,
       EndSends, EndWaits, Press, ConnectionDrops
  <2> QED BY <2>1 DEF Totals
<1> QED BY <1>2, <1>3, <1>4

\* The totals are queued before End's waiter may be signalled.
LEMMA SignalFollowsTotals ==
  ASSUME EventsTyped, FlagsTyped, InHand, EndSeen, [Next]_vars,
         ~closed', ended' \/ reader' = "signal"
  PROVE  Totals'
<1>1. ~closed
  BY ClientStep DEF Shutdown, client
<1>2. CASE ended \/ reader = "signal"
  BY <1>1, <1>2, TotalsStep DEF EndSeen
<1>3. CASE ~ended /\ reader # "signal"
  <2>1. Forward /\ event = "ended" /\ reader' = "signal"
    BY <1>3 DEF vars, handling, Next, ReadLoop, SessionLoop, End, ConnectFails, ConnectSteps,
       Read, Handle, ReadFails, ReadStops, Play, AdvanceGate, ToolEnds, FlushPending, Forward,
       SignalEnded, SignalsEnded, MicLoop, MicReads, MicChecks, MicSends, MicFails, Tick,
       TakeSignal, Announce, TakeEvent, Render, Finish, EndSends, EndWaits, Press,
       ConnectionDrops
  <2>2. events' = Append(events, "ended") /\ events \in Seq(Kinds)
    BY <1>1, <2>1 DEF Forward, EventsTyped
  <2>3. Len(events) + 1 \in 1..Len(events') /\ events'[Len(events) + 1] = "ended"
    BY <2>2
  <2> QED BY <2>3 DEF Totals
<1> QED BY <1>2, <1>3

\* Only End's wait decides what it ended by, and without an error only when the client
\* still lived or a second Ctrl-C had closed it.
LEMMA EndSeenStep ==
  ASSUME PhasesTyped, FlagsTyped, DoneClosed, CountsTyped, EventsTyped, InHand, Connecting,
         EndSeen, HangUp, [Next]_vars
  PROVE  EndSeen'
<1>0. presses \in Nat /\ presses' \in {presses, presses + 1}
  BY DEF CountsTyped, vars, Next, ReadLoop, SessionLoop, End, ConnectFails, ConnectSteps, Read,
       ReadFails, Play, AdvanceGate, ToolEnds, FlushPending, Forward, SignalEnded, MicLoop,
       MicReads, MicChecks, MicSends, MicFails, Tick, TakeSignal, Announce, TakeEvent, Render,
       Finish, EndSends, EndWaits, Press, ConnectionDrops
<1>1. ASSUME endedBy' = "ended", done' = "clean", presses' <= 1
      PROVE  Totals'
  <2>1. CASE EndWaits
    <3>1. ended /\ UNCHANGED <<totals, events, presses>> /\ endedBy = "none"
      BY <1>1, <2>1 DEF EndWaits, session, HangUp
    <3>2. ~closed
      BY <1>0, <1>1, <2>1, <3>1 DEF EndWaits, Shutdown, HangUp, DoneClosed
    <3> QED BY <3>1, <3>2 DEF EndSeen, Totals
  <2>2. CASE ~EndWaits
    <3>1. UNCHANGED endedBy
      BY <2>2 DEF vars, hangup, Next, ReadLoop, SessionLoop, End, ConnectFails, ConnectSteps,
       Read, ReadFails, Play, AdvanceGate, ToolEnds, FlushPending, Forward, SignalEnded,
       MicLoop, MicReads, MicChecks, MicSends, MicFails, Tick, TakeSignal, Announce, TakeEvent,
       Render, Finish, EndSends, Press, ConnectionDrops
    <3>2. ending /\ presses >= 1 /\ presses' = presses
      BY <1>0, <1>1, <3>1 DEF HangUp, PhasesTyped
    <3>3. ender = "over"
      BY <1>1, <3>1 DEF HangUp
    <3>4. done = "clean"
      <4>1. ~TakeSignal
        <5>1. TakeSignal => ending /\ sigint
          BY <3>2 DEF TakeSignal
        <5>2. TakeSignal => presses >= 2
          BY <5>1 DEF HangUp
        <5> QED BY <1>0, <1>1, <3>2, <5>2
      <4>2. UNCHANGED client \/ Shutdown("failed")
        BY <2>2, <4>1, ClosedCleanly
      <4> QED BY <1>1, <4>2 DEF Shutdown, client
    <3> QED BY <1>1, <3>1, <3>2, <3>4, TotalsStep DEF EndSeen
  <2> QED BY <2>1, <2>2
<1>2. ASSUME endedBy' = "ended", done' = "clean", presses' <= 1, loop' = "returned"
      PROVE  totals'
  <2>1. Totals' /\ ending' /\ presses' >= 1
    BY <1>1, <1>2, HangUpStep DEF HangUp, PhasesTyped
  <2>2. CASE loop = "returned"
    <3>1. UNCHANGED vars
      BY <2>2 DEF Alive, Next, ReadLoop, SessionLoop, End, ConnectFails, ConnectSteps, Read,
       ReadFails, Play, AdvanceGate, ToolEnds, FlushPending, Forward, SignalEnded, MicLoop,
       MicReads, MicChecks, MicSends, MicFails, Tick, TakeSignal, Announce, TakeEvent, Render,
       Finish, EndSends, EndWaits, Press, ConnectionDrops
    <3> QED BY <1>2, <2>2, <3>1 DEF EndSeen, vars, client, hangup, session
  <2>3. CASE Finish
    BY <2>1, <2>3 DEF Finish, Totals
  <2>4. CASE TakeSignal
    <3>1. ending /\ sigint /\ UNCHANGED presses
      BY <1>2, <2>4 DEF TakeSignal, ReturnWith
    <3> QED BY <1>0, <1>2, <3>1 DEF HangUp
  <2>5. CASE ConnectFails
    BY <1>2, <2>5 DEF ConnectFails, Connecting, HangUp, client, hangup, session
  <2>6. loop = "returned" \/ Finish \/ TakeSignal \/ ConnectFails
    BY <1>2 DEF vars, session, Next, ReadLoop, SessionLoop, End, ConnectSteps,
       Read, ReadFails, Play, AdvanceGate, ToolEnds, FlushPending, Forward,
       SignalEnded, MicLoop, MicReads, MicChecks, MicSends, MicFails, Tick, Announce, TakeEvent,
       Render, EndSends, EndWaits, Press, ConnectionDrops
  <2> QED BY <2>2, <2>3, <2>4, <2>5, <2>6
<1>3. ~closed' /\ (ended' \/ reader' = "signal") => Totals'
  BY SignalFollowsTotals
<1> QED BY <1>1, <1>2, <1>3 DEF EndSeen
-----------------------------------------------------------------------------
(***************************************************************************)
(* The echo gate.                                                           *)
(***************************************************************************)
LEMMA GatedStep ==
  ASSUME CountsTyped, Connecting, Gated, [Next]_vars
  PROVE  Gated'
<1>0. gate \in Nat /\ unplayed \in Nat
  BY DEF CountsTyped
<1>1. CASE Play
  BY <1>0, <1>1 DEF Gated, Play, ReadStops
<1>2. CASE AdvanceGate
  BY <1>0, <1>2 DEF Gated, AdvanceGate, Advanced
<1>3. CASE MicLoop
  <2>1. UNCHANGED <<gate, unplayed, reader>>
    BY <1>3 DEF MicLoop, MicReads, MicChecks, MicSends, MicFails, handling, audio
  <2> QED BY <2>1 DEF Gated
<1>4. CASE Tick
  BY <1>0, <1>4 DEF Gated, Tick, handling
<1>5. CASE ~(Play \/ AdvanceGate \/ MicLoop \/ Tick)
  <2>1. UNCHANGED <<gate, unplayed>> /\ (reader = "gate" <=> reader' = "gate")
    BY <1>5 DEF Connecting, vars, audio, handling, Next, ReadLoop, SessionLoop, End, ConnectFails,
       ConnectSteps, Read, Handle, ReadFails, ReadStops, ToolEnds, FlushPending, Forward,
       SignalEnded, SignalsEnded, TakeSignal, Announce, TakeEvent, Render, Finish, EndSends,
       EndWaits, Press, ConnectionDrops
  <2> QED BY <2>1 DEF Gated
<1> QED BY <1>1, <1>2, <1>3, <1>4, <1>5

\* Only micLoop's check lets a chunk through, and it reads the gate alone.
LEMMA ChunkPasses ==
  ASSUME CountsTyped, Gated, [Next]_vars,
         EchoGate, mic = "check", mic' = "send", reader # "gate"
  PROVE  unplayed = 0
<1>1. MicChecks
  BY DEF vars, Next, ReadLoop, MicLoop, SessionLoop, End, ConnectFails, ConnectSteps, Read,
     ReadFails, Play, AdvanceGate, ToolEnds, FlushPending, Forward, SignalEnded, MicReads,
     MicSends, MicFails, Tick, TakeSignal, Announce, TakeEvent, Render, Finish, EndSends,
     EndWaits, Press, ConnectionDrops
<1>2. gate = 0
  BY <1>1 DEF MicChecks
<1> QED BY <1>2 DEF Gated, CountsTyped
-----------------------------------------------------------------------------
LEMMA InitIInv == Init => IInv
<1> SUFFICES ASSUME Init
             PROVE  IInv
  OBVIOUS
<1>1. PhasesTyped /\ DoneClosed /\ CountsTyped /\ EventsTyped /\ ResultsTyped
  BY DEF Init, PhasesTyped, DoneClosed, CountsTyped, EventsTyped, ResultsTyped
<1>2. FlagsTyped
  BY DEF Init, FlagsTyped
<1>3. InHand /\ Ordered /\ Kept /\ CallIsNew /\ EndSeen /\ HangUp /\ Gated
      /\ Connecting
  BY DEF Init, InHand, Connecting, Ordered, Kept, CallIsNew, EndSeen, HangUp, Gated
<1> QED BY <1>1, <1>2, <1>3, TypedByGroups DEF IInv

LEMMA StepIInv == IInv /\ [Next]_vars => IInv'
<1> SUFFICES ASSUME IInv, [Next]_vars
             PROVE  IInv'
  OBVIOUS
<1>0. /\ PhasesTyped /\ FlagsTyped /\ DoneClosed /\ CountsTyped /\ EventsTyped /\ ResultsTyped
      /\ InHand /\ Connecting /\ Ordered /\ Kept /\ CallIsNew /\ EndSeen /\ HangUp /\ Gated
  BY TypedByGroups DEF IInv
<1>1. TypeOK'
  BY <1>0, TypedByGroups, PhasesStep, FlagsStep, DoneClosedStep, CountsStep, EventsStep,
     ResultsStep, PTL
<1> QED
  BY <1>0, <1>1, InHandStep, ConnectingStep, OrderStep, CallIsNewStep, EndSeenStep,
     HangUpStep, GatedStep
  DEF IInv

LEMMA Invariance == Spec => []IInv
BY InitIInv, StepIInv, PTL DEF Spec

\* TypeOK, the types of everything the session keeps, among them that a result's number
\* is that of a call that was read.
THEOREM VoiceTypeCorrect == Spec => []TypeOK
<1>1. IInv => TypeOK
  BY DEF IInv
<1> QED BY <1>1, Invariance, PTL

\* ResultsOnce: whatever ends or interrupts a reply and however long tools take, results
\* are sent once, in the order of their calls, and none that was dropped.
THEOREM ResultsAreSentOnce == Spec => []ResultsOnce
<1>1. IInv => ResultsOnce
  BY DEF IInv, Ordered, Kept, ResultsOnce
<1> QED BY <1>1, Invariance, PTL

\* TotalsSeen: a hang-up the server answered returns after the totals were rendered.
THEOREM TotalsAreSeen == Spec => []TotalsSeen
<1>1. IInv => TotalsSeen
  BY DEF IInv, EndSeen, TotalsSeen
<1> QED BY <1>1, Invariance, PTL

\* GateCoversReply: a chunk of the microphone passes the gate only when everything the
\* gate was told of has been heard, however the chunks of the reply queue up.
THEOREM TheGateCoversTheReply == Spec => GateCoversReply
<1>1. IInv /\ [Next]_vars =>
        [EchoGate /\ mic = "check" /\ mic' = "send" /\ reader # "gate" => unplayed = 0]_vars
  BY ChunkPasses, TypedByGroups DEF IInv
<1> QED BY <1>1, Invariance, PTL DEF Spec, GateCoversReply
=============================================================================

------------------------------- MODULE Chat -------------------------------
(***************************************************************************)
(* internal/chat/chat.go: one interactive session.  The main goroutine reads  *)
(* lines, runs one turn for each, and ends with judges and the finish of the   *)
(* traced session; the signal goroutine turns a Ctrl-C into the cancellation    *)
(* of the turn in flight or into the end of the session, and shares cancelTurn  *)
(* and interrupted with it under a mutex.                                       *)
(***************************************************************************)
EXTENDS TracedTurn

CONSTANT MaxPresses     \* bound: Ctrl-C pressed

ASSUME ChatAssumption == MaxPresses \in Nat

VARIABLES cancelTurn,   \* the turn whose cancel function is held, 0 for nil
          interrupted,  \* a Ctrl-C found a turn to cancel
          exit,         \* requestExit was called
          sigint,       \* a signal waits in the channel (capacity 1)
          handler,      \* what the signal goroutine does next, outside the mutex
          presses,      \* Ctrl-C pressed so far
          landed,       \* runTurn's local copy of interrupted
          result,       \* the sessionResult so far
          returned      \* what Run returned

signalVars == <<cancelTurn, interrupted, exit, sigint, handler, presses>>
sessionVars == <<landed, result, returned>>
vars == <<traceVars, pc, turnVars, signalVars, sessionVars>>

Idle == [does |-> "nothing", turn |-> 0]

Init ==
  /\ TracerInit
  /\ pc = IF Traced THEN "register" ELSE "prompt"
  /\ turn = 0 /\ calls = 0 /\ reply = "none" /\ runErr = "none" /\ cancelled = {}
  /\ cancelTurn = 0 /\ interrupted = FALSE /\ exit = FALSE
  /\ sigint = FALSE /\ handler = Idle /\ presses = 0
  /\ landed = FALSE /\ result = "graceful" /\ returned = "no"
-----------------------------------------------------------------------------
(***************************************************************************)
(* The signal goroutine.                                                     *)
(***************************************************************************)
\* signal.Notify is on once the session is traced; a full channel drops the signal.
Press ==
  /\ pc \notin {"register", "start", "over"}
  /\ presses < MaxPresses
  /\ presses' = presses + 1 /\ sigint' = TRUE
  /\ UNCHANGED <<cancelTurn, interrupted, exit, handler>>
  /\ UNCHANGED <<traceVars, pc, turnVars, sessionVars>>

\* Under the mutex: take the cancel function, and mark the turn interrupted.
TakeSignal ==
  /\ sigint /\ handler = Idle
  /\ sigint' = FALSE
  /\ handler' = IF cancelTurn # 0 THEN [does |-> "cancel", turn |-> cancelTurn]
                                  ELSE [does |-> "exit", turn |-> 0]
  /\ interrupted' = (interrupted \/ cancelTurn # 0)
  /\ cancelTurn' = 0
  /\ UNCHANGED <<exit, presses>>
  /\ UNCHANGED <<traceVars, pc, turnVars, sessionVars>>

\* After it: cancel that turn's context, or ask the session to end.
ActOnSignal ==
  /\ handler # Idle
  /\ handler' = Idle
  /\ cancelled' = IF handler.does = "cancel" THEN cancelled \cup {handler.turn} ELSE cancelled
  /\ exit' = (exit \/ handler.does = "exit")
  /\ UNCHANGED <<cancelTurn, interrupted, sigint, presses>>
  /\ UNCHANGED <<traceVars, pc, turn, calls, reply, runErr, sessionVars>>
-----------------------------------------------------------------------------
(***************************************************************************)
(* Run: the start of the traced session, the prompt, the end.                *)
(***************************************************************************)
Return(how) == pc' = "over" /\ returned' = how

StartStep(res, next) ==
  \/ res = "ok" /\ pc' = next /\ UNCHANGED returned
  \/ res = "terminated" /\ Return("nil")
  \/ res = "error" /\ Return("error")

Register ==
  /\ pc = "register"
  /\ \E res \in Results : RegisterInstance(FALSE, res) /\ StartStep(res, "start")
  /\ UNCHANGED <<turnVars, signalVars, landed, result>>

Start ==
  /\ pc = "start"
  /\ \E res \in Results : StartInstance(FALSE, res) /\ StartStep(res, "prompt")
  /\ UNCHANGED <<turnVars, signalVars, landed, result>>

EndSession(how) ==
  /\ pc' = "ending" /\ result' = how
  /\ UNCHANGED <<traceVars, turnVars, signalVars, landed, returned>>

\* mutant: an interruption of a turn is not taken for one of the session
LeaveOnSignalFresh == pc = "prompt" /\ exit /\ ~interrupted /\ EndSession("interrupted")
LeaveOnSignal == pc = "prompt" /\ exit /\ EndSession("interrupted")
Quit == pc = "prompt" /\ EndSession("graceful")
ReadError == pc = "prompt" /\ "stdin" \in Faults /\ EndSession("failure")

\* A message: the turn gets a context of its own, and setTurn its cancel function.
BeginTurn ==
  /\ pc = "prompt" /\ turn < MaxTurns
  /\ turn' = turn + 1 /\ calls' = 0 /\ reply' = "none" /\ runErr' = "none"
  /\ cancelTurn' = turn + 1
  /\ pc' = IF Traced THEN "opening" ELSE "round"
  /\ UNCHANGED cancelled
  /\ UNCHANGED <<interrupted, exit, sigint, handler, presses>>
  /\ UNCHANGED <<traceVars, sessionVars>>

\* runTurn returns res; its deferred setTurn(nil) comes last.
LeaveTurn(res) == pc' = "leaving" /\ result' = res

TracerFailure(res) == IF res = "terminated" THEN "terminate" ELSE "failure"

\* StartTurn's two spans are created under the turn's context.
OpenTurn ==
  /\ pc = "opening"
  /\ \E res \in Results :
       /\ CreateSpan(<<turn, "turn">>, Dead, res)
       /\ \/ res = "ok" /\ pc' = "opened" /\ UNCHANGED result
          \/ res # "ok" /\ LeaveTurn(TracerFailure(res))
  /\ UNCHANGED <<turnVars, signalVars, landed, returned>>

RecordUserMessage ==
  /\ pc = "opened"
  /\ \E res \in Results :
       /\ RecordSpan(Dead, res)
       /\ \/ res = "ok" /\ pc' = "round" /\ UNCHANGED result
          \/ res # "ok" /\ LeaveTurn(TracerFailure(res))
  /\ UNCHANGED <<turnVars, signalVars, landed, returned>>

\* The engine's turn leaves the signals and the session alone.
EngineStep == TurnStep /\ UNCHANGED <<signalVars, sessionVars>>

\* A signal that landed just as the turn succeeded ends the session; every failure
\* of the turn itself is printed and leaves it alive.
Classify(was) == IF runErr = "none" /\ was THEN "interrupted" ELSE "graceful"

TakeInterrupted ==
  /\ pc = "ran"
  /\ interrupted' = FALSE
  /\ IF Traced
       THEN landed' = interrupted /\ pc' = "finishTurn" /\ UNCHANGED result
       ELSE LeaveTurn(Classify(interrupted)) /\ UNCHANGED landed
  /\ UNCHANGED <<cancelTurn, exit, sigint, handler, presses>>
  /\ UNCHANGED <<traceVars, turnVars, returned>>

TurnStatusHopeful == IF landed THEN "cancelled" ELSE "complete"    \* mutant
TurnStatus ==
  CASE runErr = "none" -> "complete"
    [] runErr # "terminated" /\ runErr # "none" /\ (landed \/ Dead) -> "cancelled"
    [] OTHER -> "failed"

\* The turn's span gets the turn's outcome.  A turn that the platform stopped ends
\* the session so whatever becomes of its span.
FinishTurn ==
  /\ pc = "finishTurn"
  /\ \E res \in Results :
       /\ FinishSpan(<<turn, "turn">>, TurnStatus, res)
       /\ LeaveTurn(IF runErr = "terminated" THEN "terminate"
                    ELSE IF res # "ok" THEN TracerFailure(res) ELSE Classify(landed))
  /\ landed' = FALSE
  /\ UNCHANGED <<turnVars, signalVars, returned>>

ClearTurn ==
  /\ pc = "leaving"
  /\ cancelTurn' = 0
  /\ pc' = IF result = "graceful" THEN "prompt" ELSE "ending"
  /\ UNCHANGED <<interrupted, exit, sigint, handler, presses>>
  /\ UNCHANGED <<traceVars, turnVars, sessionVars>>

\* The judges read the transcript of a session that ended well and ran a turn.
Judge ==
  /\ pc = "ending"
  /\ turn > 0 /\ result \in {"graceful", "interrupted"}
  /\ pc' = "finish"
  /\ UNCHANGED <<traceVars, turnVars, signalVars, sessionVars>>

SkipJudges ==
  /\ pc = "ending"
  /\ turn = 0 \/ result \notin {"graceful", "interrupted"}
  /\ pc' = "finish"
  /\ UNCHANGED <<traceVars, turnVars, signalVars, sessionVars>>

RunErr == IF result = "failure" THEN "error" ELSE "nil"
InstanceStatusSame == "complete"                             \* mutant
InstanceStatus == IF result = "failure" THEN "failed" ELSE "complete"

\* The platform has marked a terminated instance already: it is not finished again.
Finish ==
  /\ pc = "finish"
  /\ \/ /\ Traced /\ result # "terminate"
        /\ \E res \in Results :
             /\ FinishSession(InstanceStatus, res)
             /\ Return(IF res = "ok" THEN RunErr ELSE "error")
     \/ /\ ~Traced \/ result = "terminate"
        /\ Return(RunErr) /\ UNCHANGED traceVars
  /\ UNCHANGED <<turnVars, signalVars, landed, result>>

MainStep ==
  \/ Register \/ Start
  \/ OpenTurn \/ RecordUserMessage \/ EngineStep
  \/ TakeInterrupted \/ FinishTurn \/ ClearTurn
  \/ Judge \/ SkipJudges \/ Finish

User == Press \/ Quit \/ ReadError \/ BeginTurn

Next ==
  \/ User \/ TakeSignal \/ ActOnSignal \/ LeaveOnSignal \/ MainStep
  \/ PlatformTerminates /\ UNCHANGED <<pc, turnVars, signalVars, sessionVars>>

Spec == Init /\ [][Next]_vars

\* Both goroutines are scheduled, and every call returns: the LLM clients' by their
\* timeout or the turn's context, tools by the registry's timeout.  select chooses
\* at random among what is ready, so an exit request is not passed over for ever.
\* The user owes the session nothing.
FairSpec ==
  /\ Spec
  /\ WF_vars(MainStep) /\ WF_vars(TakeSignal) /\ WF_vars(ActOnSignal)
  /\ SF_vars(LeaveOnSignal)
-----------------------------------------------------------------------------
TypeOK ==
  /\ TurnTypeOK
  /\ pc \in TurnPhases \cup {"register", "start", "prompt", "finishTurn", "leaving",
                             "ending", "finish", "over"}
  /\ cancelTurn \in 0..MaxTurns
  /\ handler \in [does : {"nothing", "cancel", "exit"}, turn : 0..MaxTurns]
  /\ {interrupted, exit, sigint, landed} \subseteq BOOLEAN
  /\ presses \in 0..MaxPresses
  /\ result \in {"graceful", "interrupted", "failure", "terminate"}
  /\ returned \in {"no", "nil", "error"}

EndedWell == pc = "over" /\ result \in {"graceful", "interrupted"}

\* A session that ends well, on a platform that answers, leaves nothing open there:
\* every turn and every tool call is finished however the turn went, and of the LLM
\* calls only one whose span Ctrl-C cancelled while it was being created may be open
\* (chat.go runTurn, tracewrap.go).
SpansSettled ==
  EndedWell /\ instance # "terminated" =>
    \A s \in Spans : spans[s] = "active" => s[2] = "llm" /\ s[1] \in cancelled

\* A turn recorded complete is one whose last LLM call succeeded, with no tool call
\* of it open (tracewrap.go, chat.go 452-456).
CompleteTurnsSucceeded ==
  \A t \in Turns :
    spans[<<t, "turn">>] = "complete" =>
      spans[<<t, "llm">>] = "complete" /\ spans[<<t, "tool">>] # "active"

\* Once any answer of the platform has asked the run to stop, at whatever call of
\* the turn, no request, tool or turn is begun, and Run returns nil without having
\* finished the instance a second time (docs/configuration.md, Termination).
TerminateHonoured ==
  tracer.terminated =>
    /\ pc \in {"ran", "finishTurn", "leaving", "ending", "finish", "over"}
    /\ instance = "terminated"
    /\ pc = "over" => returned = "nil"

\* The instance of a session that is over has the session's outcome: failed exactly
\* when Run returned an error (docs/configuration.md, What maps to what).
InstanceHasOutcome ==
  pc = "over" /\ tracer.started /\ instance # "terminated" =>
    instance = (IF returned = "error" THEN "failed" ELSE "complete")

\* A request to leave is carried out, whatever turn or further input it meets.
ExitTaken == exit ~> pc = "over"

=============================================================================

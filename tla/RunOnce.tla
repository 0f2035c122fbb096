------------------------------ MODULE RunOnce ------------------------------
(***************************************************************************)
(* internal/run/run.go: `blorb run`, one traced turn in a process whose whole  *)
(* context a Ctrl-C cancels.  The turn's outcome settles its span, the          *)
(* instance, the judges and the exit code, in that order.                       *)
(***************************************************************************)
EXTENDS TracedTurn

VARIABLES err,          \* the run's error so far
          judged,       \* the judges were called
          exitCode      \* of the process: 0, 1 or 130; 2 while it runs

runVars == <<err, judged, exitCode>>
allRunVars == <<traceVars, pc, turnVars, runVars>>

RunInit ==
  /\ TracerInit
  /\ pc = IF Traced THEN "register" ELSE "round"
  /\ turn = 1 /\ calls = 0 /\ reply = "none" /\ runErr = "none" /\ cancelled = {}
  /\ err = "none" /\ judged = FALSE /\ exitCode = 2

\* signal.NotifyContext: the first Ctrl-C cancels, further ones do nothing.
Interrupt ==
  /\ exitCode = 2 /\ ~Dead
  /\ cancelled' = {turn}
  /\ UNCHANGED <<traceVars, pc, turn, calls, reply, runErr, runVars>>

\* main: errors.Is(err, context.Canceled) exits with 130.
ExitWith(e) ==
  CASE e \in {"none", "terminated"} -> 0 [] e = "canceled" -> 130 [] e = "error" -> 1

RunReturns(e) == pc' = "over" /\ err' = e /\ exitCode' = ExitWith(e)

Go(next) == pc' = next /\ UNCHANGED <<err, exitCode>>

\* A call that failed under a cancelled context reports the cancellation.
ErrorOf(res) == IF res = "terminated" THEN "terminated"
                ELSE IF Dead THEN "canceled" ELSE "error"

RegisterRun ==
  /\ pc = "register"
  /\ \E res \in Results :
       /\ RegisterInstance(Dead, res)
       /\ IF res = "ok" THEN Go("start") ELSE RunReturns(ErrorOf(res))
  /\ UNCHANGED <<turnVars, judged>>

StartRun ==
  /\ pc = "start"
  /\ \E res \in Results :
       /\ StartInstance(Dead, res)
       /\ IF res = "ok" THEN Go("opening") ELSE RunReturns(ErrorOf(res))
  /\ UNCHANGED <<turnVars, judged>>

\* StartTurn: a termination returns at once, an error once the session is finished.
TurnOpened(res, next) ==
  CASE res = "ok" -> Go(next)
    [] res = "terminated" -> RunReturns("terminated")
    [] res = "error" -> pc' = "abandon" /\ err' = ErrorOf(res) /\ UNCHANGED exitCode

OpenRunTurn ==
  /\ pc = "opening"
  /\ \E res \in Results : CreateSpan(<<turn, "turn">>, Dead, res) /\ TurnOpened(res, "opened")
  /\ UNCHANGED <<turnVars, judged>>

RecordPrompt ==
  /\ pc = "opened"
  /\ \E res \in Results : RecordSpan(Dead, res) /\ TurnOpened(res, "round")
  /\ UNCHANGED <<turnVars, judged>>

RunEngineStep == TurnStep /\ UNCHANGED runVars

\* mapTurnOutcome: unlike chat, a cancelled turn is a failed one.
TurnErrorGraceful == IF runErr = "none" \/ Dead THEN "none" ELSE "error"  \* mutant
TurnError == IF runErr = "none" THEN "none" ELSE IF Dead THEN "canceled" ELSE "error"

SettleTurn ==
  /\ pc = "ran"
  /\ pc' = "settled"
  /\ \/ /\ ~Traced
        /\ err' = TurnError
        /\ UNCHANGED traceVars
     \/ /\ Traced
        /\ \E res \in Results :
             /\ FinishSpan(<<turn, "turn">>, IF runErr = "none" THEN "complete" ELSE "failed", res)
             /\ err' = IF runErr = "terminated" THEN "terminated"
                       ELSE IF res # "ok" THEN "error" ELSE TurnError
  /\ UNCHANGED <<turnVars, judged, exitCode>>

\* finishTracedRun: the instance gets the outcome, unless the platform marked it.
SessionError(res) == IF res # "ok" /\ err = "none" THEN "error" ELSE err

InstanceOutcomeGraceful == IF err = "error" THEN "failed" ELSE "complete"  \* mutant
InstanceOutcome == IF err = "none" THEN "complete" ELSE "failed"

FinishTracedRun(next) ==
  \/ /\ ~Traced \/ err = "terminated"
     /\ pc' = next /\ err' = IF err = "terminated" THEN "none" ELSE err
     /\ UNCHANGED traceVars
  \/ /\ Traced /\ err # "terminated"
     /\ \E res \in Results :
          /\ FinishSession(InstanceOutcome, res)
          /\ pc' = next /\ err' = SessionError(res)

FinishRun ==
  /\ pc = "settled"
  /\ FinishTracedRun("judging")
  /\ UNCHANGED <<turnVars, judged, exitCode>>

AbandonRun ==
  /\ pc = "abandon"
  /\ FinishTracedRun("leaving")
  /\ UNCHANGED <<turnVars, judged, exitCode>>

\* The judges review failed turns too, but not one the platform stopped, nor under
\* a context that is done.
JudgeRun ==
  /\ pc = "judging"
  /\ judged' = (runErr # "terminated" /\ ~Dead)
  /\ pc' = "leaving"
  /\ UNCHANGED <<traceVars, turnVars, err, exitCode>>

Leave ==
  /\ pc = "leaving"
  /\ RunReturns(err)
  /\ UNCHANGED <<traceVars, turnVars, judged>>

Step ==
  \/ RegisterRun \/ StartRun \/ OpenRunTurn \/ RecordPrompt \/ RunEngineStep
  \/ SettleTurn \/ FinishRun \/ AbandonRun \/ JudgeRun \/ Leave

RunNext ==
  \/ Step \/ Interrupt
  \/ PlatformTerminates /\ UNCHANGED <<pc, turnVars, runVars>>

RunSpec == RunInit /\ [][RunNext]_allRunVars
-----------------------------------------------------------------------------
RunTypeOK ==
  /\ TurnTypeOK
  /\ pc \in TurnPhases \cup {"register", "start", "settled", "abandon", "judging",
                             "leaving", "over"}
  /\ err \in {"none", "error", "canceled", "terminated"}
  /\ judged \in BOOLEAN
  /\ exitCode \in {0, 1, 2, 130}

\* The instance has the process's outcome: complete exactly when the run exits with
\* 0, whatever failed or was interrupted, and wherever (run.go finishTracedRun).
RunHasOutcome ==
  exitCode # 2 /\ tracer.started /\ instance # "terminated" =>
    instance = (IF exitCode = 0 THEN "complete" ELSE "failed")

\* "`0` on a completed turn, `1` on any error, `130` on Ctrl-C" (README.md): only an
\* answer or a stop by the platform exits with 0, only a Ctrl-C with 130.
ExitCodes ==
  /\ exitCode = 0 =>
       (reply = "none" /\ runErr = "none" /\ calls > 0) \/ instance = "terminated"
  /\ exitCode = 130 => Dead
=============================================================================

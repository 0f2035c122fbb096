---------------------------- MODULE TracedProofs ----------------------------
(***************************************************************************)
(* Theorems about the two compositions of a traced turn, RunOnce and Chat,  *)
(* for every bound and every set of faults: first the lemmas about the      *)
(* tracer's operators and the steps of a turn that both rest on, then one   *)
(* part for each.                                                           *)
(***************************************************************************)
EXTENDS RunOnce, Chat, TLAPS

USE TracerAssumption, TurnAssumption

\* Every call the platform gets is answered.
Answering == Faults \cap {"refused", "lost"} = {}

(***************************************************************************)
(* What one tracing call may do, its result being res: it latches the       *)
(* termination exactly when it reports one, and then the platform has       *)
(* marked the instance.                                                     *)
(***************************************************************************)
Latches(res) ==
  /\ tracer'.on = tracer.on /\ tracer'.finished = tracer.finished
  /\ tracer'.terminated => tracer.terminated \/ (res = "terminated" /\ instance = "terminated")
  /\ tracer.terminated => tracer'.terminated
  /\ res = "terminated" => tracer'.terminated

LEMMA InitialTracer ==
  ASSUME TracerInit
  PROVE  /\ TracerTypeOK /\ instance = "none" /\ spans = [s \in Spans |-> "none"]
         /\ ~tracer.started /\ ~tracer.finished /\ ~tracer.terminated
<1>1. PICK on \in Tracing :
        tracer = [on |-> on, started |-> FALSE, terminated |-> FALSE, finished |-> FALSE]
  BY DEF TracerInit
<1>2. on \in BOOLEAN
  BY <1>1
<1> QED BY <1>1, <1>2 DEF TracerInit, TracerTypeOK, SpanStatus

LEMMA Deliveries ==
  ASSUME NEW dead \in BOOLEAN, NEW d \in Delivery(dead)
  PROVE  /\ d \in {"ok", "refused", "lost"}
         /\ dead => d # "ok"
         /\ Answering /\ ~dead => d = "ok"
BY DEF Delivery, Answering

LEMMA Observed ==
  ASSUME TracerTypeOK, NEW d \in {"ok", "refused", "lost"}, NEW res, Observe(d, res)
  PROVE  /\ res \in Results
         /\ tracer' \in [on : BOOLEAN, started : BOOLEAN, terminated : BOOLEAN, finished : BOOLEAN]
         /\ tracer'.started = tracer.started
         /\ Latches(res)
         /\ res = "ok" <=> d = "ok" /\ instance # "terminated"
         /\ res = "terminated" <=> d = "ok" /\ instance = "terminated"
BY DEF TracerTypeOK, Observe, Result, Stopped, Results, Latches

LEMMA CreatesSpan ==
  ASSUME TracerTypeOK, NEW s \in Spans, NEW dead \in BOOLEAN, NEW res, CreateSpan(s, dead, res)
  PROVE  /\ TracerTypeOK' /\ res \in Results /\ UNCHANGED instance
         /\ tracer'.started = tracer.started
         /\ Latches(res)
         /\ tracer.terminated => res = "terminated" /\ UNCHANGED traceVars
         /\ \A x \in Spans : x # s => spans'[x] = spans[x]
         /\ spans'[s] \in {spans[s], "active"}
         /\ res = "ok" => spans'[s] = "active" /\ instance # "terminated" /\ ~dead
         /\ Answering /\ ~dead => res # "error"
<1>1. CASE Refused(res)
  BY <1>1 DEF Refused, TracerTypeOK, traceVars, Results, Latches
<1>2. ASSUME ~tracer.terminated, NEW d \in Delivery(dead),
             spans' = IF d = "refused" THEN spans ELSE [spans EXCEPT ![s] = "active"],
             Observe(d, res), UNCHANGED instance
      PROVE  /\ TracerTypeOK' /\ res \in Results
             /\ tracer'.started = tracer.started
             /\ Latches(res)
             /\ \A x \in Spans : x # s => spans'[x] = spans[x]
             /\ spans'[s] \in {spans[s], "active"}
             /\ res = "ok" => spans'[s] = "active" /\ instance # "terminated" /\ ~dead
             /\ Answering /\ ~dead => res # "error"
  <2>1. /\ d \in {"ok", "refused", "lost"}
        /\ dead => d # "ok"
        /\ Answering /\ ~dead => d = "ok"
    BY <1>2, Deliveries
  <2>2. spans \in [Spans -> SpanStatus] /\ "active" \in SpanStatus
    BY DEF TracerTypeOK, SpanStatus
  <2>3. /\ spans' \in [Spans -> SpanStatus]
        /\ \A x \in Spans : x # s => spans'[x] = spans[x]
        /\ spans'[s] \in {spans[s], "active"}
        /\ d = "ok" => spans'[s] = "active"
    BY <1>2, <2>2
  <2>4. /\ res \in Results
        /\ tracer' \in [on : BOOLEAN, started : BOOLEAN, terminated : BOOLEAN, finished : BOOLEAN]
        /\ tracer'.started = tracer.started
        /\ Latches(res)
        /\ res = "ok" <=> d = "ok" /\ instance # "terminated"
        /\ res = "terminated" <=> d = "ok" /\ instance = "terminated"
    BY <1>2, <2>1, Observed
  <2>5. Answering /\ ~dead => res # "error"
    BY <2>1, <2>4
  <2> QED BY <1>2, <2>1, <2>3, <2>4, <2>5 DEF TracerTypeOK
<1> QED
  BY <1>1, <1>2 DEF CreateSpan, Refused, traceVars

LEMMA RecordsSpan ==
  ASSUME TracerTypeOK, NEW dead \in BOOLEAN, NEW res, RecordSpan(dead, res)
  PROVE  /\ TracerTypeOK' /\ res \in Results /\ UNCHANGED <<instance, spans>>
         /\ tracer'.started = tracer.started
         /\ Latches(res)
         /\ tracer.terminated => res = "terminated" /\ UNCHANGED traceVars
         /\ Answering /\ ~dead => res # "error"
<1>1. CASE Refused(res)
  BY <1>1 DEF Refused, TracerTypeOK, traceVars, Results, Latches
<1>2. ASSUME ~tracer.terminated, NEW d \in Delivery(dead),
             Observe(d, res), UNCHANGED <<instance, spans>>
      PROVE  /\ TracerTypeOK' /\ res \in Results
             /\ tracer'.started = tracer.started
             /\ Latches(res)
             /\ Answering /\ ~dead => res # "error"
  <2>1. /\ d \in {"ok", "refused", "lost"}
        /\ Answering /\ ~dead => d = "ok"
    BY <1>2, Deliveries
  <2>2. /\ res \in Results
        /\ tracer' \in [on : BOOLEAN, started : BOOLEAN, terminated : BOOLEAN, finished : BOOLEAN]
        /\ tracer'.started = tracer.started
        /\ Latches(res)
        /\ res = "ok" <=> d = "ok" /\ instance # "terminated"
        /\ res = "terminated" <=> d = "ok" /\ instance = "terminated"
    BY <1>2, <2>1, Observed
  <2>3. Answering /\ ~dead => res # "error"
    BY <2>1, <2>2
  <2> QED BY <1>2, <2>1, <2>2, <2>3 DEF TracerTypeOK
<1> QED
  BY <1>1, <1>2 DEF RecordSpan, Refused, traceVars

\* Only an active span takes the status, and an answered call leaves none active.
LEMMA FinishesSpan ==
  ASSUME TracerTypeOK, NEW s \in Spans, NEW status \in SpanStatus, NEW res,
         FinishSpan(s, status, res)
  PROVE  /\ TracerTypeOK' /\ res \in Results /\ UNCHANGED instance
         /\ tracer'.started = tracer.started
         /\ Latches(res)
         /\ \A x \in Spans : x # s => spans'[x] = spans[x]
         /\ spans'[s] \in {spans[s], status}
         /\ spans[s] # "active" => spans'[s] = spans[s]
         /\ res = "ok" /\ spans[s] = "active" => spans'[s] = status
         /\ Answering => res # "error"
         /\ Answering /\ spans[s] = "active" => spans'[s] = status
<1>1. PICK d \in Delivery(FALSE) :
        IF spans[s] = "active"
          THEN /\ spans' = IF d = "refused" THEN spans ELSE [spans EXCEPT ![s] = status]
               /\ Observe(d, res)
          ELSE /\ res = IF d = "ok" THEN "ok" ELSE "error"
               /\ UNCHANGED <<tracer, spans>>
  BY DEF FinishSpan
<1>2. UNCHANGED instance
  BY DEF FinishSpan
<1>3. /\ d \in {"ok", "refused", "lost"}
      /\ Answering => d = "ok"
  BY Deliveries
<1>4. spans \in [Spans -> SpanStatus]
  BY DEF TracerTypeOK
<1>5. CASE spans[s] # "active"
  BY <1>1, <1>2, <1>3, <1>5 DEF TracerTypeOK, Results, Latches
<1>6. CASE spans[s] = "active"
  <2>1. /\ spans' \in [Spans -> SpanStatus]
        /\ \A x \in Spans : x # s => spans'[x] = spans[x]
        /\ spans'[s] \in {spans[s], status}
        /\ d = "ok" => spans'[s] = status
    BY <1>1, <1>4, <1>6
  <2>2. /\ res \in Results
        /\ tracer' \in [on : BOOLEAN, started : BOOLEAN, terminated : BOOLEAN, finished : BOOLEAN]
        /\ tracer'.started = tracer.started
        /\ Latches(res)
        /\ res = "ok" <=> d = "ok" /\ instance # "terminated"
        /\ res = "terminated" <=> d = "ok" /\ instance = "terminated"
    BY <1>1, <1>3, <1>6, Observed
  <2>3. /\ Answering => res # "error"
        /\ Answering => spans'[s] = status
    BY <1>3, <2>1, <2>2
  <2> QED BY <1>2, <1>6, <2>1, <2>2, <2>3 DEF TracerTypeOK
<1> QED BY <1>5, <1>6

LEMMA Registers ==
  ASSUME TracerTypeOK, NEW dead \in BOOLEAN, NEW res, RegisterInstance(dead, res)
  PROVE  /\ TracerTypeOK' /\ res \in Results /\ UNCHANGED spans
         /\ tracer'.started = tracer.started
         /\ Latches(res)
         /\ instance' \in {instance, "registered"}
         /\ res = "ok" => instance' = "registered"
         /\ res = "terminated" => instance = "terminated"
         /\ Answering /\ ~dead => res # "error"
<1>1. PICK d \in Delivery(dead) :
        /\ instance' = IF d = "refused" THEN instance ELSE "registered"
        /\ Observe(d, res)
  BY DEF RegisterInstance
<1>2. /\ d \in {"ok", "refused", "lost"}
      /\ Answering /\ ~dead => d = "ok"
  BY Deliveries
<1>3. /\ res \in Results
      /\ tracer' \in [on : BOOLEAN, started : BOOLEAN, terminated : BOOLEAN, finished : BOOLEAN]
      /\ tracer'.started = tracer.started
      /\ Latches(res)
      /\ res = "ok" <=> d = "ok" /\ instance # "terminated"
      /\ res = "terminated" <=> d = "ok" /\ instance = "terminated"
  BY <1>1, <1>2, Observed
<1>4. /\ UNCHANGED spans /\ instance' \in {instance, "registered"}
      /\ res = "ok" => instance' = "registered"
      /\ res = "terminated" => instance = "terminated"
      /\ Answering /\ ~dead => res # "error"
  BY <1>1, <1>2, <1>3 DEF RegisterInstance
<1> QED BY <1>3, <1>4 DEF TracerTypeOK

\* The session counts as started exactly when its caller is told so.
LEMMA Starts ==
  ASSUME TracerTypeOK, NEW dead \in BOOLEAN, NEW res, StartInstance(dead, res)
  PROVE  /\ TracerTypeOK' /\ res \in Results /\ UNCHANGED spans
         /\ tracer'.started <=> res = "ok"
         /\ Latches(res)
         /\ instance' = instance \/ (instance = "registered" /\ instance' = "active")
         /\ res = "ok" => instance # "terminated" /\ (instance = "registered" => instance' = "active")
         /\ Answering /\ ~dead => res # "error"
<1>1. PICK d \in Delivery(dead) :
        /\ res = Result(d)
        /\ instance' = IF d # "refused" /\ instance = "registered" THEN "active" ELSE instance
        /\ tracer' = [tracer EXCEPT !.terminated = @ \/ Stopped(d), !.started = (res = "ok")]
  BY DEF StartInstance
<1>2. /\ d \in {"ok", "refused", "lost"}
      /\ Answering /\ ~dead => d = "ok"
  BY Deliveries
<1>3. UNCHANGED spans
  BY DEF StartInstance
<1>4. /\ res \in Results
      /\ res = "ok" <=> d = "ok" /\ instance # "terminated"
      /\ res = "terminated" <=> d = "ok" /\ instance = "terminated"
  BY <1>1, <1>2 DEF Result, Stopped, Results
<1>5. /\ tracer' \in [on : BOOLEAN, started : BOOLEAN, terminated : BOOLEAN, finished : BOOLEAN]
      /\ tracer'.started <=> res = "ok"
      /\ tracer'.on = tracer.on /\ tracer'.finished = tracer.finished
      /\ tracer'.terminated <=> tracer.terminated \/ res = "terminated"
  BY <1>1, <1>2, <1>4 DEF TracerTypeOK, Stopped
<1>6. Latches(res)
  BY <1>4, <1>5 DEF Latches
<1>7. Answering /\ ~dead => res # "error"
  BY <1>2, <1>4
<1> QED BY <1>1, <1>2, <1>3, <1>4, <1>5, <1>6, <1>7 DEF TracerTypeOK

\* The instance takes the session's status only while it is active, and a caller
\* that is told so is right.
LEMMA FinishesSession ==
  ASSUME TracerTypeOK, NEW status \in {"complete", "failed"}, NEW res,
         FinishSession(status, res)
  PROVE  /\ TracerTypeOK' /\ res \in Results /\ UNCHANGED spans
         /\ tracer'.on = tracer.on /\ tracer'.started = tracer.started
         /\ tracer'.terminated = tracer.terminated
         /\ instance' \in {instance, status}
         /\ instance = "terminated" => instance' = "terminated"
         /\ res = "ok" => instance' = status
         /\ Answering /\ tracer.started /\ ~tracer.finished /\ ~tracer.terminated
              /\ instance = "active" => res = "ok" /\ instance' = status
<1>1. CASE UNCHANGED traceVars /\ res \in {"error", "terminated"}
              /\ (tracer.terminated \/ tracer.finished \/ ~tracer.started)
  BY <1>1 DEF traceVars, TracerTypeOK, Results
<1>2. CASE /\ ~tracer.terminated /\ ~tracer.finished /\ tracer.started
           /\ tracer' = [tracer EXCEPT !.finished = TRUE]
           /\ \E d \in Delivery(FALSE) :
                /\ res = IF d = "ok" /\ instance = "active" THEN "ok" ELSE "error"
                /\ instance' = IF d # "refused" /\ instance = "active" THEN status ELSE instance
           /\ UNCHANGED spans
  <2>1. PICK d \in Delivery(FALSE) :
          /\ res = IF d = "ok" /\ instance = "active" THEN "ok" ELSE "error"
          /\ instance' = IF d # "refused" /\ instance = "active" THEN status ELSE instance
    BY <1>2
  <2>2. /\ d \in {"ok", "refused", "lost"}
        /\ Answering => d = "ok"
    BY Deliveries
  <2> QED BY <1>2, <2>1, <2>2 DEF TracerTypeOK, Results
<1> QED BY <1>1, <1>2 DEF FinishSession, Refused
-----------------------------------------------------------------------------
(***************************************************************************)
(* A step of a turn makes at most one tracing call, whose result is res; it *)
(* touches no span but those of the turn's calls.  A step that makes none   *)
(* counts as one whose result is "ok".                                      *)
(***************************************************************************)
Traces(res) ==
  /\ TracerTypeOK' /\ res \in Results /\ UNCHANGED instance
  /\ tracer'.started = tracer.started
  /\ Latches(res)
  /\ ~Traced => UNCHANGED <<tracer, spans>>
  /\ \A x \in Spans : x[1] # turn \/ x[2] = "turn" => spans'[x] = spans[x]

\* How the turn goes on after it: a termination ends it, and nothing else ends it
\* as terminated.
Obeys(res) ==
  /\ UNCHANGED <<turn, cancelled>>
  /\ calls' \in {calls, calls + 1} /\ (calls' # calls => calls < MaxCalls)
  /\ reply' \in Replies /\ runErr' \in RunErrs
  /\ pc \in TurnPhases \ {"opening", "opened", "ran"}
  /\ pc' \in TurnPhases \ {"opening", "opened"}
  /\ pc' = "ran" => reply' = "none"
  /\ pc' # "ran" => runErr' = runErr
  /\ res = "terminated" => pc' = "ran" /\ runErr' = "terminated"
  /\ runErr' = "terminated" => runErr = "terminated" \/ res = "terminated"
  /\ pc = "round" => runErr' # "none" \/ (calls' = calls + 1)
                       \/ (runErr' = runErr /\ pc' = "round")

\* A turn fails only by returning, and one that gets past its first call has called.
Unfailed == pc \in TurnPhases \ {"ran"} => runErr = "none"
HasCalled ==
  pc \in TurnPhases \ {"opening", "opened", "round"} /\ runErr = "none" => calls > 0
ReturnsNothing == pc = "ran" => reply = "none"

LEMMA Silent ==
  ASSUME TracerTypeOK, UNCHANGED traceVars
  PROVE  Traces("ok")
BY DEF Traces, Latches, TracerTypeOK, traceVars, Results

LEMMA SpansOfTheTurn ==
  ASSUME turn \in Turns
  PROVE  /\ <<turn, "turn">> \in Spans /\ <<turn, "llm">> \in Spans
         /\ <<turn, "tool">> \in Spans
         /\ \A x \in Spans : x[1] # turn \/ x[2] = "turn" =>
              x # <<turn, "llm">> /\ x # <<turn, "tool">>
BY DEF Spans

LEMMA Aborts ==
  ASSUME NEW res \in Results, AbortOf(res), res # "ok",
         TurnTypeOK, pc \in TurnPhases \ {"opening", "opened", "ran"}
  PROVE  Obeys(res)
BY DEF AbortOf, Abort, Obeys, Results, TurnPhases, Replies, RunErrs, TurnTypeOK

LEMMA TurnSteps ==
  ASSUME TurnTypeOK, turn \in Turns, Unfailed, TurnStep
  PROVE  \E res \in Results : Traces(res) /\ Obeys(res)
<1> USE TurnAssumption DEF TurnTypeOK
<1>1. /\ <<turn, "turn">> \in Spans /\ <<turn, "llm">> \in Spans
      /\ <<turn, "tool">> \in Spans
      /\ \A x \in Spans : x[1] # turn \/ x[2] = "turn" =>
           x # <<turn, "llm">> /\ x # <<turn, "tool">>
  BY SpansOfTheTurn
<1>2. Dead \in BOOLEAN /\ FALSE \in BOOLEAN /\ "ok" \in Results /\ Results = {"ok", "error", "terminated"}
      /\ {"failed", "complete"} \subseteq SpanStatus
  BY DEF Dead, Results, SpanStatus
<1>3. ASSUME NEW res, NEW k \in {"llm", "tool"}, NEW dead \in BOOLEAN, Traced,
             CreateSpan(<<turn, k>>, dead, res)
      PROVE  Traces(res)
  <2>1. <<turn, k>> \in Spans
    BY <1>1
  <2> QED BY <1>1, <1>3, <2>1, CreatesSpan DEF Traces
<1>4. ASSUME NEW res, NEW k \in {"llm", "tool"}, NEW status \in {"failed", "complete"}, Traced,
             FinishSpan(<<turn, k>>, status, res)
      PROVE  Traces(res)
  <2>1. <<turn, k>> \in Spans
    BY <1>1
  <2> QED BY <1>1, <1>2, <1>4, <2>1, FinishesSpan DEF Traces
<1>5. ASSUME NEW res, Traced, RecordSpan(FALSE, res)
      PROVE  Traces(res)
  BY <1>5, RecordsSpan DEF Traces
<1>6. ASSUME NEW next \in TurnPhases \ {"opening", "opened"}, Continue(next),
             next # "ran", pc \in TurnPhases \ {"opening", "opened", "round", "ran"}
      PROVE  Obeys("ok")
  BY <1>6 DEF Continue, turnVars, Obeys, TurnPhases, Unfailed
<1>7. ASSUME NEW next \in TurnPhases \ {"opening", "opened"}, NEW res \in Results,
             Then(res, next), next # "ran",
             pc \in TurnPhases \ {"opening", "opened", "round", "ran"}
      PROVE  Obeys(res)
  <2>1. CASE res = "ok"
    BY <1>6, <1>7, <2>1 DEF Then
  <2>2. CASE res # "ok"
    BY <1>7, <2>2, Aborts DEF Then
  <2> QED BY <2>1, <2>2
<1>8. ASSUME Spoken, pc = "text"
      PROVE  Obeys("ok")
  BY <1>8 DEF Spoken, Continue, Abort, turnVars, Obeys, TurnPhases, RunErrs, Replies, Unfailed
<1>9. CASE Call
  <2>0. /\ pc = "round" /\ pc \in TurnPhases \ {"opening", "opened", "ran"} /\ calls < MaxCalls
        /\ runErr = "none"
    BY <1>9 DEF Call, TurnPhases, Unfailed
  <2>1. ASSUME pc' = "inflight", calls' = calls + 1, UNCHANGED <<turn, reply, runErr, cancelled>>
        PROVE  Obeys("ok")
    BY <2>0, <2>1 DEF Obeys, TurnPhases
  <2>2. CASE Traced
    <3>1. PICK res \in Results :
            /\ CreateSpan(<<turn, "llm">>, Dead, res)
            /\ \/ /\ res = "ok"
                  /\ pc' = "inflight" /\ calls' = calls + 1
                  /\ UNCHANGED <<turn, reply, runErr, cancelled>>
               \/ res # "ok" /\ AbortOf(res)
      BY <1>9, <2>2 DEF Call
    <3>2. Traces(res)
      BY <1>2, <1>3, <2>2, <3>1
    <3>3. Obeys(res)
      BY <2>0, <2>1, <3>1, Aborts
    <3> QED BY <3>2, <3>3
  <2>3. CASE ~Traced
    <3>1. UNCHANGED traceVars /\ Obeys("ok")
      BY <1>9, <2>1, <2>3 DEF Call
    <3> QED BY <1>2, <3>1, Silent
  <2> QED BY <2>2, <2>3
<1>10. CASE GiveUp
  <2>1. Obeys("ok") /\ UNCHANGED traceVars
    BY <1>10 DEF GiveUp, Abort, Obeys, TurnPhases, RunErrs, Replies
  <2> QED BY <1>2, <2>1, Silent
<1>11. CASE Answer
  <2>1. Obeys("ok") /\ UNCHANGED traceVars
    BY <1>11 DEF Answer, Obeys, TurnPhases, RunErrs, Replies, Unfailed
  <2> QED BY <1>2, <2>1, Silent
<1>12. CASE CallFailed
  <2>1. pc = "answered"
    BY <1>12 DEF CallFailed
  <2>2. CASE Traced
    <3>1. PICK res \in Results :
             /\ FinishSpan(<<turn, "llm">>, "failed", res)
             /\ Abort(IF res = "terminated" THEN "terminated"
                      ELSE IF res = "error" THEN "trace" ELSE "llm")
      BY <1>12, <2>2 DEF CallFailed
    <3>2. Traces(res)
      BY <1>4, <2>2, <3>1
    <3>3. Obeys(res)
      BY <2>1, <3>1 DEF Abort, Obeys, TurnPhases, RunErrs, Replies, Results
    <3> QED BY <3>2, <3>3
  <2>3. CASE ~Traced
    <3>1. UNCHANGED traceVars /\ Obeys("ok")
      BY <1>12, <2>1, <2>3 DEF CallFailed, Abort, Obeys, TurnPhases, RunErrs, Replies
    <3> QED BY <1>2, <3>1, Silent
  <2> QED BY <2>2, <2>3
<1>13. CASE CallSucceeded
  <2>1. pc = "answered" /\ pc \in TurnPhases \ {"opening", "opened", "round", "ran"}
        /\ "text" \in TurnPhases \ {"opening", "opened"}
    BY <1>13 DEF CallSucceeded, TurnPhases
  <2>2. CASE \E res \in Results : Traced /\ FinishSpan(<<turn, "llm">>, "complete", res) /\ Then(res, "text")
    BY <1>4, <1>7, <2>1, <2>2
  <2>3. CASE Untraced("text")
    BY <1>2, <1>6, <2>1, <2>3, Silent DEF Untraced
  <2> QED BY <1>13, <2>2, <2>3 DEF CallSucceeded
<1>14. CASE Say
  <2>1. pc = "text" /\ pc \in TurnPhases \ {"opening", "opened", "ran"}
    BY <1>14 DEF Say, TurnPhases
  <2>2. ASSUME NEW res \in Results, Traced, RecordSpan(FALSE, res),
               (res = "ok" /\ Spoken) \/ (res # "ok" /\ AbortOf(res))
        PROVE  Traces(res) /\ Obeys(res)
    BY <1>5, <1>8, <2>1, <2>2, Aborts
  <2>3. CASE Spoken /\ UNCHANGED traceVars
    BY <1>2, <1>8, <2>1, <2>3, Silent
  <2> QED BY <1>14, <2>2, <2>3 DEF Say
<1>15. CASE Orphan
  <2>1. pc = "tool" /\ pc \in TurnPhases \ {"opening", "opened", "round", "ran"}
        /\ "round" \in TurnPhases \ {"opening", "opened"}
    BY <1>15 DEF Orphan, TurnPhases
  <2>2. CASE \E res \in Results : Traced /\ RecordSpan(FALSE, res) /\ Then(res, "round")
    BY <1>5, <1>7, <2>1, <2>2
  <2>3. CASE Untraced("round")
    BY <1>2, <1>6, <2>1, <2>3, Silent DEF Untraced
  <2> QED BY <1>15, <2>2, <2>3 DEF Orphan
<1>16. CASE ToolCall
  <2>1. pc = "tool" /\ pc \in TurnPhases \ {"opening", "opened", "round", "ran"}
        /\ "running" \in TurnPhases \ {"opening", "opened"}
    BY <1>16 DEF ToolCall, TurnPhases
  <2>2. CASE \E res \in Results : Traced /\ CreateSpan(<<turn, "tool">>, FALSE, res) /\ Then(res, "running")
    BY <1>2, <1>3, <1>7, <2>1, <2>2
  <2>3. CASE Untraced("running")
    BY <1>2, <1>6, <2>1, <2>3, Silent DEF Untraced
  <2> QED BY <1>16, <2>2, <2>3 DEF ToolCall
<1>17. CASE ToolRuns
  <2>1. pc \in TurnPhases \ {"opening", "opened", "round", "ran"}
        /\ "toolDone" \in TurnPhases \ {"opening", "opened"}
    BY <1>17 DEF ToolRuns, TurnPhases
  <2> QED BY <1>2, <1>6, <1>17, <2>1, Silent DEF ToolRuns
<1>18. CASE ToolResult
  <2>1. pc \in TurnPhases \ {"opening", "opened", "round", "ran"}
        /\ "round" \in TurnPhases \ {"opening", "opened"}
    BY <1>18 DEF ToolResult, TurnPhases
  <2>2. CASE \E res \in Results : Traced /\ FinishSpan(<<turn, "tool">>, "complete", res) /\ Then(res, "round")
    BY <1>4, <1>7, <2>1, <2>2
  <2>3. CASE Untraced("round")
    BY <1>2, <1>6, <2>1, <2>3, Silent DEF Untraced
  <2> QED BY <1>18, <2>2, <2>3 DEF ToolResult
<1> QED BY <1>9, <1>10, <1>11, <1>12, <1>13, <1>14, <1>15, <1>16, <1>17, <1>18 DEF TurnStep

\* What the frontends' proofs take from it.
LEMMA TurnStepKeeps ==
  ASSUME TurnTypeOK, turn \in Turns, Unfailed, HasCalled, ReturnsNothing, TurnStep
  PROVE  /\ TurnTypeOK' /\ Unfailed' /\ HasCalled' /\ ReturnsNothing'
         /\ UNCHANGED <<turn, cancelled, instance>>
         /\ tracer'.on = tracer.on /\ tracer'.started = tracer.started
         /\ tracer'.finished = tracer.finished
         /\ tracer.terminated => tracer'.terminated
         /\ tracer'.terminated =>
              tracer.terminated \/ (pc' = "ran" /\ runErr' = "terminated" /\ instance = "terminated")
         /\ runErr' = "terminated" => runErr = "terminated" \/ tracer'.terminated
         /\ pc \in TurnPhases \ {"opening", "opened", "ran"}
         /\ pc' \in TurnPhases \ {"opening", "opened"}
         /\ ~Traced => UNCHANGED <<tracer, spans>>
         /\ \A x \in Spans : x[1] # turn \/ x[2] = "turn" => spans'[x] = spans[x]
<1>1. PICK res \in Results : Traces(res) /\ Obeys(res)
  BY TurnSteps
<1>2. /\ calls \in 0..MaxCalls /\ calls' \in 0..MaxCalls
      /\ calls > 0 => calls' > 0
      /\ calls' = calls + 1 => calls' > 0
  BY <1>1 DEF TurnTypeOK, Obeys
<1>3. TurnTypeOK'
  BY <1>1, <1>2 DEF TurnTypeOK, Traces, Obeys, Turns
<1>4. /\ UNCHANGED <<turn, cancelled, instance>>
      /\ pc \in TurnPhases \ {"opening", "opened", "ran"}
      /\ pc' \in TurnPhases \ {"opening", "opened"}
      /\ ~Traced => UNCHANGED <<tracer, spans>>
      /\ \A x \in Spans : x[1] # turn \/ x[2] = "turn" => spans'[x] = spans[x]
      /\ runErr = "none"
  BY <1>1 DEF Traces, Obeys, Unfailed
<1>5. Unfailed' /\ ReturnsNothing'
  BY <1>1, <1>4 DEF Unfailed, ReturnsNothing, Obeys
<1>6. HasCalled'
  <2>1. CASE pc = "round"
    BY <1>1, <1>2, <1>4, <2>1 DEF HasCalled, Obeys
  <2>2. CASE pc # "round"
    BY <1>1, <1>2, <1>4, <2>2 DEF HasCalled, Obeys
  <2> QED BY <2>1, <2>2
<1>7. /\ tracer'.on = tracer.on /\ tracer'.started = tracer.started
      /\ tracer'.finished = tracer.finished
      /\ tracer.terminated => tracer'.terminated
      /\ tracer'.terminated =>
           tracer.terminated \/ (pc' = "ran" /\ runErr' = "terminated" /\ instance = "terminated")
      /\ runErr' = "terminated" => runErr = "terminated" \/ tracer'.terminated
  BY <1>1 DEF Traces, Latches, Obeys
<1> QED BY <1>3, <1>4, <1>5, <1>6, <1>7
-----------------------------------------------------------------------------
(***************************************************************************)
(* RunOnce.  The exit code needs what the run's error says of the turn and *)
(* the platform; the instance's outcome needs that the platform holds an   *)
(* active instance from the start of the session to its finish.            *)
(***************************************************************************)
Answered == reply = "none" /\ runErr = "none" /\ calls > 0

\* The start of the session: the instance before it, and the one turn after it.
Begun ==
  /\ turn = 1
  /\ pc = "register" => instance = "none"
  /\ pc = "start" => instance \in {"registered", "terminated"}
  /\ pc \in {"register", "start"} => ~tracer.started /\ ~tracer.finished /\ runErr = "none" /\ Traced
  /\ ~Traced => ~tracer.started

\* Only the platform terminates: the latch and both errors echo it.
Halted ==
  tracer.terminated \/ runErr = "terminated" \/ err = "terminated" => instance = "terminated"

\* A run without an error has an answer, unless the platform stopped it.
Ends ==
  /\ exitCode = 2 <=> pc # "over"
  /\ pc \in TurnPhases \cup {"register", "start"} => err = "none"
  /\ pc \in {"settled", "abandon", "judging", "leaving"} /\ err = "none" =>
       Answered \/ instance = "terminated"
  /\ err = "canceled" => Dead
  /\ ExitCodes

RunTurnInv == Unfailed /\ HasCalled /\ ReturnsNothing

RunIInv == RunTypeOK /\ RunTurnInv /\ Begun /\ Halted /\ Ends

\* A started instance is active up to its finish and then has the run's outcome.
OutcomeInv ==
  /\ tracer.started /\ pc \in TurnPhases \cup {"settled", "abandon"} =>
       ~tracer.finished /\ instance \in {"active", "terminated"}
  /\ tracer.started /\ pc \in {"judging", "leaving"} /\ instance # "terminated" =>
       instance = (IF err = "none" THEN "complete" ELSE "failed")
  /\ RunHasOutcome
-----------------------------------------------------------------------------
LEMMA RunInitIInv ==
  ASSUME RunInit
  PROVE  RunIInv /\ OutcomeInv
<1>1. turn = 1 /\ calls = 0 /\ 1 \in 0..MaxTurns /\ 0 \in 0..MaxCalls /\ cancelled = {}
  <2>1. turn = 1 /\ calls = 0 /\ cancelled = {}
    BY DEF RunInit
  <2>2. 1 \in 0..MaxTurns /\ 0 \in 0..MaxCalls
    OBVIOUS
  <2> QED BY <2>1, <2>2
<1>2. TracerTypeOK /\ instance = "none" /\ ~tracer.started /\ ~tracer.finished /\ ~tracer.terminated
      /\ ((pc = "register" /\ Traced) \/ (pc = "round" /\ ~Traced))
  BY InitialTracer DEF RunInit
<1>3. RunTypeOK
  BY <1>1, <1>2 DEF RunInit, RunTypeOK, TurnTypeOK, Replies, RunErrs, TurnPhases
<1>4. RunTurnInv /\ Begun /\ Halted /\ Ends
  BY <1>1, <1>2 DEF RunInit, RunTurnInv, Unfailed, HasCalled, ReturnsNothing, Begun, Halted, Ends,
       ExitCodes, TurnPhases
<1>5. OutcomeInv
  BY <1>2 DEF OutcomeInv, RunHasOutcome
<1> QED BY <1>3, <1>4, <1>5 DEF RunIInv

\* The conjuncts of the invariant about what a step leaves alone.
LEMMA TurnIsOne ==
  ASSUME RunIInv
  PROVE  /\ turn \in Turns /\ <<turn, "turn">> \in Spans
         /\ TracerTypeOK /\ Dead \in BOOLEAN
         /\ {"complete", "failed"} \subseteq SpanStatus
BY DEF RunIInv, RunTypeOK, TurnTypeOK, Begun, Turns, Spans, Dead, SpanStatus

LEMMA RunRegisterStep ==
  ASSUME RunIInv, RegisterRun
  PROVE  RunIInv' /\ OutcomeInv'
<1>1. PICK res \in Results :
        /\ RegisterInstance(Dead, res)
        /\ IF res = "ok" THEN Go("start") ELSE RunReturns(ErrorOf(res))
  BY DEF RegisterRun
<1>2. pc = "register" /\ UNCHANGED <<turn, calls, reply, runErr, cancelled, judged>>
  BY DEF RegisterRun, turnVars
<1>3. /\ TracerTypeOK' /\ tracer'.started = tracer.started /\ Latches(res)
      /\ instance' \in {instance, "registered"}
      /\ res = "ok" => instance' = "registered"
      /\ res = "terminated" => instance = "terminated"
  BY <1>1, TurnIsOne, Registers
<1>4. /\ instance = "none" /\ ~tracer.started /\ ~tracer.finished /\ ~tracer.terminated
      /\ runErr # "terminated" /\ err = "none" /\ exitCode = 2
      /\ res # "terminated"
      /\ UNCHANGED Dead
  BY <1>2, <1>3 DEF RunIInv, Begun, Halted, Ends, Dead
<1>5. \/ res = "ok" /\ pc' = "start" /\ UNCHANGED <<err, exitCode>>
      \/ /\ res = "error" /\ pc' = "over"
         /\ \/ Dead /\ err' = "canceled" /\ exitCode' = 130
            \/ ~Dead /\ err' = "error" /\ exitCode' = 1
  BY <1>1, <1>4 DEF Go, RunReturns, ErrorOf, ExitWith, Results
<1>6. RunTypeOK'
  BY <1>2, <1>3, <1>5 DEF RunIInv, RunTypeOK, TurnTypeOK
<1>7. RunTurnInv'
  BY <1>2, <1>5 DEF RunIInv, RunTurnInv, Unfailed, HasCalled, ReturnsNothing, TurnPhases
<1>8. Begun' /\ Halted' /\ tracer'.started = FALSE
  BY <1>2, <1>3, <1>4, <1>5 DEF RunIInv, Begun, Halted, Latches, Traced
<1>9. Ends'
  BY <1>2, <1>4, <1>5 DEF RunIInv, Ends, ExitCodes, TurnPhases
<1>10. OutcomeInv'
  BY <1>8 DEF OutcomeInv, RunHasOutcome
<1> QED BY <1>6, <1>7, <1>8, <1>9, <1>10 DEF RunIInv

LEMMA RunStartStep ==
  ASSUME RunIInv, StartRun
  PROVE  RunIInv' /\ OutcomeInv'
<1>1. PICK res \in Results :
        /\ StartInstance(Dead, res)
        /\ IF res = "ok" THEN Go("opening") ELSE RunReturns(ErrorOf(res))
  BY DEF StartRun
<1>2. pc = "start" /\ UNCHANGED <<turn, calls, reply, runErr, cancelled, judged>>
  BY DEF StartRun, turnVars
<1>3. /\ TracerTypeOK' /\ (tracer'.started <=> res = "ok") /\ Latches(res)
      /\ instance' = instance \/ (instance = "registered" /\ instance' = "active")
      /\ res = "ok" => instance # "terminated" /\ (instance = "registered" => instance' = "active")
  BY <1>1, TurnIsOne, Starts
<1>4. /\ instance \in {"registered", "terminated"} /\ ~tracer.started /\ ~tracer.finished
      /\ tracer.terminated => instance = "terminated"
      /\ runErr = "terminated" => instance = "terminated"
      /\ err = "none" /\ exitCode = 2 /\ runErr = "none" /\ Traced
      /\ res = "terminated" => instance' = "terminated"
      /\ ~Traced => ~tracer.started
      /\ UNCHANGED Dead
  BY <1>2, <1>3 DEF RunIInv, Begun, Halted, Ends, Dead, Latches
<1>5. \/ res = "ok" /\ pc' = "opening" /\ UNCHANGED <<err, exitCode>>
      \/ /\ res # "ok" /\ pc' = "over"
         /\ \/ res = "terminated" /\ err' = "terminated" /\ exitCode' = 0
            \/ Dead /\ err' = "canceled" /\ exitCode' = 130
            \/ ~Dead /\ err' = "error" /\ exitCode' = 1
  BY <1>1, <1>4 DEF Go, RunReturns, ErrorOf, ExitWith, Results
<1>6. RunTypeOK'
  BY <1>2, <1>3, <1>5 DEF RunIInv, RunTypeOK, TurnTypeOK, TurnPhases
<1>7. RunTurnInv'
  BY <1>2, <1>4, <1>5 DEF RunIInv, RunTurnInv, Unfailed, HasCalled, ReturnsNothing, TurnPhases
<1>8. Begun' /\ Halted'
  BY <1>2, <1>3, <1>4, <1>5 DEF RunIInv, Begun, Halted, Latches, Traced
<1>9. Ends'
  BY <1>2, <1>4, <1>5 DEF RunIInv, Ends, ExitCodes, TurnPhases
<1>10. OutcomeInv'
  BY <1>2, <1>3, <1>4, <1>5 DEF OutcomeInv, RunHasOutcome, TurnPhases, Latches
<1> QED BY <1>6, <1>7, <1>8, <1>9, <1>10 DEF RunIInv

LEMMA TurnOpenedStep ==
  ASSUME RunIInv, NEW res \in Results, NEW next \in {"opened", "round"},
         pc \in {"opening", "opened"}, TracerTypeOK', tracer'.started = tracer.started,
         Latches(res), UNCHANGED <<instance, turnVars, judged>>, TurnOpened(res, next)
  PROVE  RunIInv' /\ (OutcomeInv => OutcomeInv')
<1>1. UNCHANGED <<instance, turn, calls, reply, runErr, cancelled, judged, Dead>>
  BY DEF turnVars, Dead
<1>2. /\ err = "none" /\ exitCode = 2 /\ runErr = "none"
      /\ res = "terminated" => instance = "terminated"
      /\ tracer'.terminated => instance = "terminated"
      /\ tracer'.on = tracer.on /\ tracer'.finished = tracer.finished
  BY DEF RunIInv, RunTurnInv, Unfailed, Halted, Ends, Latches, TurnPhases
<1>3. \/ res = "ok" /\ pc' = next /\ UNCHANGED <<err, exitCode>>
      \/ res = "terminated" /\ pc' = "over" /\ err' = "terminated" /\ exitCode' = 0
      \/ /\ res = "error" /\ pc' = "abandon" /\ UNCHANGED exitCode
         /\ err' = (IF Dead THEN "canceled" ELSE "error")
  BY DEF TurnOpened, Go, RunReturns, ErrorOf, ExitWith, Results
<1>4. RunTypeOK'
  BY <1>1, <1>3 DEF RunIInv, RunTypeOK, TurnTypeOK, TurnPhases
<1>5. RunTurnInv'
  BY <1>1, <1>2, <1>3 DEF RunIInv, RunTurnInv, Unfailed, HasCalled, ReturnsNothing, TurnPhases
<1>6. Begun' /\ Halted'
  BY <1>1, <1>2, <1>3 DEF RunIInv, Begun, Halted, Traced
<1>7. Ends'
  BY <1>1, <1>2, <1>3 DEF RunIInv, Ends, ExitCodes, TurnPhases
<1>8. OutcomeInv => OutcomeInv'
  BY <1>1, <1>2, <1>3 DEF OutcomeInv, RunHasOutcome, TurnPhases
<1> QED BY <1>4, <1>5, <1>6, <1>7, <1>8 DEF RunIInv

LEMMA OpenTurnStep ==
  ASSUME RunIInv, OpenRunTurn \/ RecordPrompt
  PROVE  RunIInv' /\ (OutcomeInv => OutcomeInv')
<1>1. CASE OpenRunTurn
  <2>1. PICK res \in Results :
          CreateSpan(<<turn, "turn">>, Dead, res) /\ TurnOpened(res, "opened")
    BY <1>1 DEF OpenRunTurn
  <2>2. /\ TracerTypeOK' /\ tracer'.started = tracer.started /\ Latches(res)
        /\ UNCHANGED instance
    BY <2>1, TurnIsOne, CreatesSpan
  <2> QED BY <1>1, <2>1, <2>2, TurnOpenedStep DEF OpenRunTurn
<1>2. CASE RecordPrompt
  <2>1. PICK res \in Results : RecordSpan(Dead, res) /\ TurnOpened(res, "round")
    BY <1>2 DEF RecordPrompt
  <2>2. /\ TracerTypeOK' /\ tracer'.started = tracer.started /\ Latches(res)
        /\ UNCHANGED instance
    BY <2>1, TurnIsOne, RecordsSpan
  <2> QED BY <1>2, <2>1, <2>2, TurnOpenedStep DEF RecordPrompt
<1> QED BY <1>1, <1>2

LEMMA RunEngineSteps ==
  ASSUME RunIInv, RunEngineStep
  PROVE  RunIInv' /\ (OutcomeInv => OutcomeInv')
<1>1. /\ TurnTypeOK' /\ RunTurnInv'
      /\ UNCHANGED <<turn, cancelled, instance>>
      /\ tracer'.on = tracer.on /\ tracer'.started = tracer.started
      /\ tracer'.finished = tracer.finished
      /\ tracer'.terminated => tracer.terminated \/ instance = "terminated"
      /\ runErr' = "terminated" => runErr = "terminated" \/ instance = "terminated"
      /\ pc \in TurnPhases /\ pc' \in TurnPhases
  <2>1. TurnStep /\ TurnTypeOK /\ Unfailed /\ HasCalled /\ ReturnsNothing /\ turn \in Turns
    BY TurnIsOne DEF RunEngineStep, RunIInv, RunTypeOK, RunTurnInv
  <2>2. tracer.terminated => instance = "terminated"
    BY DEF RunIInv, Halted
  <2> QED BY <2>1, <2>2, TurnStepKeeps DEF RunTurnInv
<1>2. UNCHANGED <<err, judged, exitCode, Dead>>
  BY <1>1 DEF RunEngineStep, runVars, Dead
<1>3. RunTypeOK'
  BY <1>1, <1>2 DEF RunIInv, RunTypeOK
<1>4. Begun' /\ Halted'
  BY <1>1, <1>2 DEF RunIInv, Begun, Halted, Traced, TurnPhases
<1>5. Ends'
  BY <1>1, <1>2 DEF RunIInv, Ends, ExitCodes, TurnPhases
<1>6. OutcomeInv => OutcomeInv'
  BY <1>1, <1>2 DEF RunIInv, Ends, OutcomeInv, RunHasOutcome, TurnPhases
<1> QED BY <1>1, <1>3, <1>4, <1>5, <1>6 DEF RunIInv

LEMMA SettleStep ==
  ASSUME RunIInv, SettleTurn
  PROVE  RunIInv' /\ (OutcomeInv => OutcomeInv')
<1>1. /\ pc = "ran" /\ pc' = "settled"
      /\ UNCHANGED <<turn, calls, reply, runErr, cancelled, judged, exitCode, Dead>>
  BY DEF SettleTurn, turnVars, Dead
<1>2. /\ TracerTypeOK' /\ UNCHANGED instance
      /\ tracer'.on = tracer.on /\ tracer'.started = tracer.started
      /\ tracer'.finished = tracer.finished
      /\ tracer'.terminated => tracer.terminated \/ instance = "terminated"
      /\ \/ err' = TurnError
         \/ runErr = "terminated" /\ err' = "terminated"
         \/ err' = "error"
  <2>1. CASE ~Traced /\ err' = TurnError /\ UNCHANGED traceVars
    BY <2>1, TurnIsOne DEF TracerTypeOK, traceVars
  <2>2. ASSUME NEW res \in Results,
               FinishSpan(<<turn, "turn">>, IF runErr = "none" THEN "complete" ELSE "failed", res),
               err' = IF runErr = "terminated" THEN "terminated"
                      ELSE IF res # "ok" THEN "error" ELSE TurnError
        PROVE  /\ TracerTypeOK' /\ UNCHANGED instance
               /\ tracer'.started = tracer.started /\ Latches(res)
               /\ \/ err' = TurnError
                  \/ runErr = "terminated" /\ err' = "terminated"
                  \/ err' = "error"
    <3> DEFINE status == IF runErr = "none" THEN "complete" ELSE "failed"
    <3>1. status \in SpanStatus /\ FinishSpan(<<turn, "turn">>, status, res)
      BY <2>2, TurnIsOne
    <3> HIDE DEF status
    <3>2. /\ TracerTypeOK' /\ UNCHANGED instance
          /\ tracer'.started = tracer.started /\ Latches(res)
      BY <3>1, TurnIsOne, FinishesSpan
    <3> QED BY <2>2, <3>2
  <2> QED BY <2>1, <2>2 DEF SettleTurn, Latches
<1>3. TurnError = (IF runErr = "none" THEN "none" ELSE IF Dead THEN "canceled" ELSE "error")
  BY DEF TurnError
<1>4. runErr = "none" => Answered
  BY <1>1 DEF RunIInv, RunTurnInv, HasCalled, ReturnsNothing, Answered, TurnPhases
<1>5. RunTypeOK'
  BY <1>1, <1>2, <1>3 DEF RunIInv, RunTypeOK, TurnTypeOK
<1>6. RunTurnInv'
  BY <1>1 DEF RunTurnInv, Unfailed, HasCalled, ReturnsNothing, TurnPhases
<1>7. Begun' /\ Halted'
  BY <1>1, <1>2, <1>3 DEF RunIInv, Begun, Halted, Traced
<1>8. UNCHANGED Answered
  BY <1>1 DEF Answered
<1>9. Ends'
  BY <1>1, <1>2, <1>3, <1>4, <1>8 DEF RunIInv, Ends, ExitCodes, TurnPhases
<1>10. OutcomeInv => OutcomeInv'
  BY <1>1, <1>2 DEF RunIInv, Ends, OutcomeInv, RunHasOutcome, TurnPhases
<1> QED BY <1>5, <1>6, <1>7, <1>9, <1>10 DEF RunIInv

\* The one step that needs the platform's answer: an unanswered finish may leave the
\* instance active.
LEMMA FinishStep ==
  ASSUME RunIInv, FinishRun \/ AbandonRun
  PROVE  RunIInv' /\ (Answering /\ OutcomeInv => OutcomeInv')
<1>1. PICK next \in {"judging", "leaving"} : FinishTracedRun(next)
  BY DEF FinishRun, AbandonRun
<1>2. /\ pc \in {"settled", "abandon"}
      /\ UNCHANGED <<turn, calls, reply, runErr, cancelled, judged, exitCode, Dead, Answered>>
  BY DEF FinishRun, AbandonRun, turnVars, Dead, Answered
<1>3. exitCode = 2 /\ pc' = next
  BY <1>1, <1>2 DEF RunIInv, Ends, FinishTracedRun
<1>4. CASE /\ ~Traced \/ err = "terminated"
           /\ err' = IF err = "terminated" THEN "none" ELSE err
           /\ UNCHANGED traceVars
  <2>1. UNCHANGED <<tracer, instance, spans>> /\ tracer' = tracer
    BY <1>4 DEF traceVars
  <2>2. RunTypeOK'
    BY <1>2, <1>3, <1>4, <2>1 DEF RunIInv, RunTypeOK, TurnTypeOK, TracerTypeOK
  <2>3. RunTurnInv' /\ Begun' /\ Halted'
    BY <1>2, <1>3, <1>4, <2>1 DEF RunIInv, RunTurnInv, Unfailed, HasCalled, ReturnsNothing, Begun,
         Halted, Traced, TurnPhases
  <2>4. Ends'
    BY <1>2, <1>3, <1>4, <2>1 DEF RunIInv, Ends, Halted, ExitCodes, TurnPhases
  <2>5. OutcomeInv => OutcomeInv'
    BY <1>2, <1>3, <1>4, <2>1 DEF RunIInv, Begun, Halted, OutcomeInv, RunHasOutcome,
         TurnPhases, Traced
  <2> QED BY <2>2, <2>3, <2>4, <2>5 DEF RunIInv
<1>5. ASSUME Traced, err # "terminated", NEW res \in Results,
             FinishSession(InstanceOutcome, res), err' = SessionError(res)
      PROVE  RunIInv' /\ (Answering /\ OutcomeInv => OutcomeInv')
  <2>1. InstanceOutcome \in {"complete", "failed"}
    BY DEF InstanceOutcome
  <2>2. /\ TracerTypeOK' /\ tracer'.on = tracer.on /\ tracer'.started = tracer.started
        /\ tracer'.terminated = tracer.terminated
        /\ instance' \in {instance, InstanceOutcome}
        /\ instance = "terminated" => instance' = "terminated"
        /\ res = "ok" => instance' = InstanceOutcome
        /\ Answering /\ tracer.started /\ ~tracer.finished /\ ~tracer.terminated
              /\ instance = "active" => res = "ok" /\ instance' = InstanceOutcome
    <3> DEFINE status == InstanceOutcome
    <3>1. status \in {"complete", "failed"} /\ FinishSession(status, res)
      BY <1>5, <2>1
    <3>2. TracerTypeOK
      BY TurnIsOne
    <3> HIDE DEF status
    <3> QED BY <3>1, <3>2, FinishesSession DEF status
  <2>3. err' = IF res # "ok" /\ err = "none" THEN "error" ELSE err
    BY <1>5 DEF SessionError
  <2>4. RunTypeOK'
    BY <1>2, <1>3, <2>2, <2>3 DEF RunIInv, RunTypeOK, TurnTypeOK
  <2>5. RunTurnInv' /\ Begun' /\ Halted'
    BY <1>2, <1>3, <1>5, <2>2, <2>3 DEF RunIInv, RunTurnInv, Unfailed, HasCalled, ReturnsNothing,
         Begun, Halted, Traced, TurnPhases
  <2>6. Ends'
    BY <1>2, <1>3, <2>2, <2>3 DEF RunIInv, Ends, ExitCodes, TurnPhases
  <2>7. Answering /\ OutcomeInv => OutcomeInv'
    BY <1>2, <1>3, <2>2, <2>3 DEF RunIInv, Halted, OutcomeInv, RunHasOutcome, TurnPhases,
         InstanceOutcome
  <2> QED BY <2>4, <2>5, <2>6, <2>7 DEF RunIInv
<1> QED BY <1>1, <1>4, <1>5 DEF FinishTracedRun

LEMMA EndStep ==
  ASSUME RunIInv, JudgeRun \/ Leave
  PROVE  RunIInv' /\ (OutcomeInv => OutcomeInv')
<1>1. /\ UNCHANGED <<tracer, instance, spans, turn, calls, reply, runErr, cancelled, err>>
      /\ UNCHANGED <<Dead, Answered>>
  BY DEF JudgeRun, Leave, RunReturns, traceVars, turnVars, Dead, Answered
<1>2. err \in {"none", "error", "canceled", "terminated"}
  BY DEF RunIInv, RunTypeOK
<1>3. \/ pc = "judging" /\ pc' = "leaving" /\ exitCode' = exitCode /\ judged' \in BOOLEAN
      \/ /\ pc = "leaving" /\ pc' = "over" /\ judged' = judged
         /\ exitCode' = IF err \in {"none", "terminated"} THEN 0
                        ELSE IF err = "canceled" THEN 130 ELSE 1
  BY <1>2 DEF JudgeRun, Leave, RunReturns, ExitWith, Dead
<1>4. RunTypeOK'
  BY <1>1, <1>3 DEF RunIInv, RunTypeOK, TurnTypeOK, TracerTypeOK
<1>5. RunTurnInv' /\ Begun' /\ Halted'
  BY <1>1, <1>3 DEF RunIInv, RunTurnInv, Unfailed, HasCalled, ReturnsNothing, Begun, Halted, Traced,
       TurnPhases
<1>6. Ends'
  BY <1>1, <1>3 DEF RunIInv, Ends, Halted, ExitCodes, TurnPhases, Answered
<1>7. OutcomeInv => OutcomeInv'
  BY <1>1, <1>2, <1>3 DEF RunIInv, Ends, Halted, OutcomeInv, RunHasOutcome, TurnPhases
<1> QED BY <1>4, <1>5, <1>6, <1>7 DEF RunIInv

LEMMA OutsideStep ==
  ASSUME RunIInv,
         Interrupt \/ (PlatformTerminates /\ UNCHANGED <<pc, turnVars, runVars>>)
  PROVE  RunIInv' /\ (OutcomeInv => OutcomeInv')
<1>1. UNCHANGED <<pc, tracer, turn, calls, reply, runErr, err, judged, exitCode, Answered>>
  BY DEF Interrupt, PlatformTerminates, traceVars, turnVars, runVars, Answered
<1>2. TracerTypeOK' /\ cancelled' \subseteq Turns
  <2>1. TracerTypeOK /\ turn \in Turns /\ cancelled \subseteq Turns
    BY TurnIsOne DEF RunIInv, RunTypeOK, TurnTypeOK
  <2>2. CASE Interrupt
    BY <2>1, <2>2 DEF Interrupt, traceVars, TracerTypeOK
  <2>3. CASE PlatformTerminates /\ UNCHANGED <<pc, turnVars, runVars>>
    BY <2>1, <2>3 DEF PlatformTerminates, turnVars, TracerTypeOK, SpanStatus
  <2> QED BY <2>2, <2>3
<1>3. /\ instance' = instance \/ (instance' = "terminated" /\ instance \in {"registered", "active"})
      /\ Dead => Dead'
  BY DEF Interrupt, PlatformTerminates, traceVars, turnVars, Dead
<1>4. RunTypeOK'
  BY <1>1, <1>2 DEF RunIInv, RunTypeOK, TurnTypeOK
<1>5. RunTurnInv' /\ Begun' /\ Halted'
  BY <1>1, <1>3 DEF RunIInv, RunTurnInv, Unfailed, HasCalled, ReturnsNothing, Begun, Halted, Traced
<1>6. Ends'
  BY <1>1, <1>3 DEF RunIInv, Ends, ExitCodes
<1>7. OutcomeInv => OutcomeInv'
  BY <1>1, <1>3 DEF OutcomeInv, RunHasOutcome
<1> QED BY <1>4, <1>5, <1>6, <1>7 DEF RunIInv

LEMMA Stutter ==
  ASSUME RunIInv, UNCHANGED allRunVars
  PROVE  RunIInv' /\ (OutcomeInv => OutcomeInv')
<1>1. UNCHANGED <<tracer, instance, spans, pc, turn, calls, reply, runErr, cancelled,
                  err, judged, exitCode, Dead, Answered>>
  BY DEF allRunVars, traceVars, turnVars, runVars, Dead, Answered
<1>2. RunTypeOK'
  BY <1>1 DEF RunIInv, RunTypeOK, TurnTypeOK, TracerTypeOK
<1>3. RunTurnInv' /\ Begun' /\ Halted'
  BY <1>1 DEF RunIInv, RunTurnInv, Unfailed, HasCalled, ReturnsNothing, Begun, Halted, Traced
<1>4. Ends' /\ (OutcomeInv => OutcomeInv')
  BY <1>1 DEF RunIInv, Ends, ExitCodes, OutcomeInv, RunHasOutcome
<1> QED BY <1>2, <1>3, <1>4 DEF RunIInv

LEMMA RunNextStep ==
  ASSUME RunIInv, [RunNext]_allRunVars
  PROVE  RunIInv' /\ (Answering /\ OutcomeInv => OutcomeInv')
<1>1. CASE Step
  BY <1>1, RunRegisterStep, RunStartStep, OpenTurnStep, RunEngineSteps, SettleStep, FinishStep, EndStep
     DEF Step
<1>2. CASE Interrupt \/ (PlatformTerminates /\ UNCHANGED <<pc, turnVars, runVars>>)
  BY <1>2, OutsideStep
<1>3. CASE UNCHANGED allRunVars
  BY <1>3, Stutter
<1> QED BY <1>1, <1>2, <1>3 DEF RunNext

LEMMA RunInvariance == RunSpec => []RunIInv
<1>1. RunInit => RunIInv
  BY RunInitIInv
<1>2. RunIInv /\ [RunNext]_allRunVars => RunIInv'
  BY RunNextStep
<1> QED BY <1>1, <1>2, PTL DEF RunSpec

\* The state of `blorb run`, its tracer and the platform's record of it are
\* well-typed whatever the platform answers.
THEOREM RunTypeCorrect == RunSpec => []RunTypeOK
<1>1. RunIInv => RunTypeOK
  BY DEF RunIInv
<1> QED BY <1>1, RunInvariance, PTL

\* An exit with 0 means an answer, or a stop by the platform, and 130 means Ctrl-C,
\* whichever tracing calls fail or lose their answers (README.md, exit codes).
THEOREM ExitCodesAreRight == RunSpec => []ExitCodes
<1>1. RunIInv => ExitCodes
  BY DEF RunIInv, Ends
<1> QED BY <1>1, RunInvariance, PTL

\* On a platform that answers, the instance of a run that is over is complete
\* exactly when the run exits with 0, wherever it failed or was interrupted
\* (run.go finishTracedRun).
THEOREM RunSettlesItsInstance ==
  ASSUME Answering
  PROVE  RunSpec => []RunHasOutcome
<1>1. RunInit => RunIInv /\ OutcomeInv
  BY RunInitIInv
<1>2. (RunIInv /\ OutcomeInv) /\ [RunNext]_allRunVars => (RunIInv /\ OutcomeInv)'
  BY RunNextStep
<1>3. OutcomeInv => RunHasOutcome
  BY DEF OutcomeInv
<1> QED BY <1>1, <1>2, <1>3, PTL DEF RunSpec
-----------------------------------------------------------------------------
(***************************************************************************)
(* Chat.  That a termination is honoured follows the latch through the     *)
(* phases of a turn and the end of the session; what a complete turn says  *)
(* of its calls, and what a session leaves open, need to know at every     *)
(* step which spans of the turn in hand the platform may hold active.      *)
(***************************************************************************)
USE ChatAssumption

TurnInv == Unfailed /\ HasCalled /\ ReturnsNothing

InTurn == pc \in TurnPhases \cup {"finishTurn"}

\* Where the session is: a turn is numbered, its tracing needs a tracer, and only
\* the end of a session or of a turn has a result worth keeping.
Placed ==
  /\ InTurn \/ pc = "leaving" => turn \in Turns
  /\ pc \in {"register", "start", "opening", "opened", "finishTurn"} => Traced
  /\ InTurn \/ pc \in {"register", "start", "prompt"} => result = "graceful"

\* The latch, from the answer that sets it to the return of Run.
Halts ==
  /\ pc = "register" => instance = "none"
  /\ tracer.terminated \/ runErr = "terminated" \/ result = "terminate" =>
       instance = "terminated"
  /\ tracer.terminated =>
       /\ Traced
       /\ pc \in {"ran", "finishTurn", "leaving", "ending", "finish", "over"}
       /\ pc \in {"ran", "finishTurn"} => runErr = "terminated"
       /\ pc \in {"leaving", "ending", "finish"} => result = "terminate"
       /\ pc = "over" => returned = "nil"

\* The spans of the turn in hand, while each of its calls succeeds.
TurnSpans ==
  InTurn =>
    /\ spans[<<turn, "turn">>] # "complete"
    /\ pc \notin {"running", "toolDone"} /\ runErr = "none" =>
         spans[<<turn, "tool">>] # "active"
    /\ Traced /\ pc \in {"inflight", "answered"} =>
         spans[<<turn, "llm">>] = "active" \/ spans[<<turn, "turn">>] # "active"
    /\ Traced /\ pc \in {"text", "ran", "finishTurn"} /\ runErr = "none" =>
         spans[<<turn, "llm">>] = "complete" \/ spans[<<turn, "turn">>] # "active"

Recorded ==
  /\ \A s \in Spans : s[1] > turn \/ ~Traced => spans[s] = "none"
  /\ CompleteTurnsSucceeded

SessionTyped ==
  /\ pc \in TurnPhases \cup {"register", "start", "prompt", "finishTurn", "leaving",
                             "ending", "finish", "over"}
  /\ landed \in BOOLEAN
  /\ result \in {"graceful", "interrupted", "failure", "terminate"}
  /\ returned \in {"no", "nil", "error"}

\* What the signal goroutine holds: it cancels only a turn there was.
Signalled ==
  /\ cancelTurn \in 0..MaxTurns
  /\ handler \in [does : {"nothing", "cancel", "exit"}, turn : 0..MaxTurns]
  /\ interrupted \in BOOLEAN /\ exit \in BOOLEAN /\ sigint \in BOOLEAN
  /\ presses \in 0..MaxPresses
  /\ handler.does = "cancel" => handler.turn \in Turns

Session ==
  /\ TurnTypeOK /\ SessionTyped
  /\ TurnInv /\ Placed /\ Halts /\ TurnSpans /\ Recorded

IInv == Signalled /\ Session

(***************************************************************************)
(* What holds besides on a platform that answers every call.                *)
(***************************************************************************)
OpenCalls ==
  InTurn /\ instance # "terminated" =>
    /\ spans[<<turn, "tool">>] = "active" => pc \in {"running", "toolDone"}
    /\ spans[<<turn, "llm">>] = "active" => pc \in {"inflight", "answered"} \/ turn \in cancelled

SettledBefore ==
  result \in {"graceful", "interrupted"} /\ instance # "terminated" =>
    \A s \in Spans : spans[s] = "active" /\ (s[1] # turn \/ ~InTurn) =>
      s[2] = "llm" /\ s[1] \in cancelled

Open == pc \notin {"register", "start", "over"}

SessionOpen ==
  /\ pc \in {"register", "start"} => ~tracer.started /\ ~tracer.finished
  /\ pc = "start" => instance \in {"registered", "terminated"}
  /\ ~Traced => ~tracer.started
  /\ Open /\ Traced =>
       tracer.started /\ ~tracer.finished /\ instance \in {"active", "terminated"}
  /\ InstanceHasOutcome

AInv == OpenCalls /\ SettledBefore /\ SessionOpen
-----------------------------------------------------------------------------
LEMMA Typed == IInv => TypeOK
BY DEF IInv, Session, Signalled, SessionTyped, TypeOK

LEMMA Typing ==
  ASSUME Session
  PROVE  /\ TurnTypeOK /\ TracerTypeOK /\ Dead \in BOOLEAN
         /\ turn \in Nat /\ cancelled \subseteq Turns
         /\ {"complete", "failed", "cancelled"} \subseteq SpanStatus
         /\ Unfailed /\ HasCalled /\ ReturnsNothing
         /\ InTurn => turn \in Turns /\ <<turn, "turn">> \in Spans
              /\ <<turn, "llm">> \in Spans /\ <<turn, "tool">> \in Spans
BY SpansOfTheTurn DEF Session, TurnTypeOK, TurnInv, Placed, Dead, SpanStatus

\* A span is that of a turn, an LLM call or a tool call.
LEMMA SpanParts ==
  /\ \A s \in Spans : s[1] \in Turns /\ s[2] \in {"turn", "llm", "tool"} /\ s = <<s[1], s[2]>>
  /\ \A t \in Turns : \A k \in {"turn", "llm", "tool"} :
       <<t, k>> \in Spans /\ <<t, k>>[1] = t /\ <<t, k>>[2] = k
  /\ Turns \subseteq Nat
BY DEF Spans, Turns

LEMMA TurnSpansStep ==
  ASSUME TurnTypeOK, turn \in Turns, Unfailed, TurnSpans, TurnStep,
         tracer.terminated => instance = "terminated",
         ~Traced => \A s \in Spans : spans[s] = "none"
  PROVE  /\ TurnSpans'
         /\ Answering /\ OpenCalls => OpenCalls'
<1> USE DEF TurnTypeOK
<1> DEFINE T == <<turn, "turn">>  L == <<turn, "llm">>  U == <<turn, "tool">>
<1>1. /\ T \in Spans /\ L \in Spans /\ U \in Spans
      /\ T # L /\ T # U /\ L # U
      /\ Dead \in BOOLEAN
      /\ {"failed", "complete"} \subseteq SpanStatus
  BY SpansOfTheTurn DEF Dead, SpanStatus
<1>2. PICK r \in Results : Traces(r) /\ Obeys(r)
  BY TurnSteps
<1>3. /\ turn' = turn /\ cancelled' = cancelled /\ instance' = instance
      /\ pc \in TurnPhases \ {"ran"} /\ runErr = "none" /\ InTurn /\ InTurn'
      /\ spans'[T] = spans[T] /\ tracer'.on = tracer.on
      /\ ~Traced => spans' = spans
      /\ pc' \in TurnPhases
  BY <1>1, <1>2 DEF Traces, Obeys, Unfailed, InTurn, Latches, TurnPhases
<1>4. /\ spans[T] # "complete"
      /\ pc \notin {"running", "toolDone"} => spans[U] # "active"
      /\ Traced /\ pc \in {"inflight", "answered"} => spans[L] = "active" \/ spans[T] # "active"
      /\ Traced /\ pc = "text" => spans[L] = "complete" \/ spans[T] # "active"
      /\ ~Traced => spans[U] = "none" /\ spans[L] = "none"
  BY <1>1, <1>3 DEF TurnSpans
<1> DEFINE Goal ==
        /\ pc' \notin {"running", "toolDone"} /\ runErr' = "none" => spans'[U] # "active"
        /\ Traced /\ pc' \in {"inflight", "answered"} => spans'[L] = "active" \/ spans[T] # "active"
        /\ Traced /\ pc' \in {"text", "ran", "finishTurn"} /\ runErr' = "none" =>
             spans'[L] = "complete" \/ spans[T] # "active"
        /\ Answering /\ instance # "terminated" /\ OpenCalls =>
             /\ spans'[U] = "active" => pc' \in {"running", "toolDone"}
             /\ spans'[L] = "active" => pc' \in {"inflight", "answered"} \/ Dead
<1>5. SUFFICES Goal
  BY <1>3, <1>4 DEF TurnSpans, OpenCalls, Dead, Traced
<1>6. instance # "terminated" /\ OpenCalls =>
        /\ spans[U] = "active" => pc \in {"running", "toolDone"}
        /\ spans[L] = "active" => pc \in {"inflight", "answered"} \/ Dead
  BY <1>3 DEF OpenCalls, Dead
<1> HIDE DEF T, L, U
<1>7. ASSUME NEW res, NEW s \in {L, U}, NEW dead \in BOOLEAN, CreateSpan(s, dead, res)
      PROVE  /\ \A x \in {L, U} : x # s => spans'[x] = spans[x]
             /\ spans'[s] \in {spans[s], "active"}
             /\ res = "ok" => spans'[s] = "active"
             /\ Answering /\ instance # "terminated" /\ ~dead => res = "ok"
  <2>1. s \in Spans
    BY <1>1
  <2>2. /\ res \in Results /\ Latches(res)
        /\ \A x \in Spans : x # s => spans'[x] = spans[x]
        /\ spans'[s] \in {spans[s], "active"}
        /\ res = "ok" => spans'[s] = "active"
        /\ Answering /\ ~dead => res # "error"
    BY <1>7, <2>1, CreatesSpan
  <2> QED BY <1>1, <2>2 DEF Latches, Results
<1>8. ASSUME NEW res, NEW s \in {L, U}, NEW status \in {"failed", "complete"},
             FinishSpan(s, status, res)
      PROVE  /\ \A x \in {L, U} : x # s => spans'[x] = spans[x]
             /\ spans'[s] \in {spans[s], status}
             /\ spans[s] # "active" => spans'[s] = spans[s]
             /\ res = "ok" /\ spans[s] = "active" => spans'[s] = status
             /\ Answering => spans'[s] # "active"
             /\ Answering /\ instance # "terminated" => res = "ok"
  <2>1. s \in Spans
    BY <1>1
  <2>2. /\ res \in Results /\ Latches(res)
        /\ \A x \in Spans : x # s => spans'[x] = spans[x]
        /\ spans'[s] \in {spans[s], status}
        /\ spans[s] # "active" => spans'[s] = spans[s]
        /\ res = "ok" /\ spans[s] = "active" => spans'[s] = status
        /\ Answering => res # "error"
        /\ Answering /\ spans[s] = "active" => spans'[s] = status
    BY <1>1, <1>8, <2>1, FinishesSpan
  <2> QED BY <1>1, <2>2 DEF Latches, Results
<1>9. ASSUME NEW res, AbortOf(res)
      PROVE  pc' = "ran" /\ runErr' # "none"
  BY <1>9 DEF AbortOf, Abort
<1>10. ASSUME NEW res, NEW next, Then(res, next)
       PROVE  (res = "ok" /\ pc' = next) \/ (res # "ok" /\ pc' = "ran" /\ runErr' # "none")
  BY <1>9, <1>10 DEF Then, Continue
<1>11. CASE Call
  <2>1. pc = "round"
    BY <1>11 DEF Call
  <2>2. CASE Traced
    <3>1. PICK res \in Results :
            /\ CreateSpan(L, Dead, res)
            /\ \/ res = "ok" /\ pc' = "inflight"
               \/ res # "ok" /\ pc' = "ran" /\ runErr' # "none"
      BY <1>9, <1>11, <2>2 DEF Call, L
    <3> QED BY <1>1, <1>4, <1>6, <1>7, <2>1, <3>1
  <2>3. CASE ~Traced
    <3>1. pc' = "inflight"
      BY <1>11, <2>3 DEF Call
    <3> QED BY <1>3, <1>4, <1>6, <2>1, <2>3, <3>1
  <2> QED BY <2>2, <2>3
<1>12. CASE GiveUp
  <2>1. pc = "round" /\ pc' = "ran" /\ runErr' # "none" /\ UNCHANGED spans
    BY <1>12 DEF GiveUp, Abort, traceVars
  <2> QED BY <1>4, <1>6, <2>1
<1>13. CASE Answer
  <2>1. pc = "inflight" /\ pc' = "answered" /\ UNCHANGED spans
    BY <1>13 DEF Answer, traceVars
  <2> QED BY <1>4, <1>6, <2>1
<1>14. CASE CallFailed
  <2>1. pc = "answered" /\ pc' = "ran" /\ runErr' # "none"
    BY <1>14 DEF CallFailed, Abort
  <2>2. CASE Traced
    <3>1. PICK res \in Results : FinishSpan(L, "failed", res)
      BY <1>14, <2>2 DEF CallFailed, L
    <3> QED BY <1>1, <1>4, <1>6, <1>8, <2>1, <3>1
  <2>3. CASE ~Traced
    <3>1. UNCHANGED spans
      BY <1>14, <2>3 DEF CallFailed, traceVars
    <3> QED BY <1>4, <1>6, <2>1, <2>3, <3>1
  <2> QED BY <2>2, <2>3
<1>15. CASE CallSucceeded
  <2>1. pc = "answered"
    BY <1>15 DEF CallSucceeded
  <2>2. ASSUME NEW res \in Results, FinishSpan(L, "complete", res), Then(res, "text")
        PROVE  Goal
    BY <1>1, <1>4, <1>6, <1>8, <1>10, <2>1, <2>2
  <2>3. CASE Untraced("text")
    <3>1. pc' = "text" /\ UNCHANGED spans /\ ~Traced
      BY <2>3 DEF Untraced, Continue, traceVars
    <3> QED BY <1>4, <1>6, <2>1, <3>1
  <2> QED BY <1>15, <2>2, <2>3 DEF CallSucceeded, L
<1>16. CASE Say
  <2>1. pc = "text"
    BY <1>16 DEF Say
  <2>2. spans' = spans
    BY <1>16, RecordsSpan DEF Say, traceVars
  <2>3. pc' \in {"tool", "ran"}
    BY <1>9, <1>16 DEF Say, Spoken, Continue, Abort
  <2> QED BY <1>4, <1>6, <2>1, <2>2, <2>3
<1>17. CASE Orphan
  <2>1. pc = "tool" /\ pc' \in {"round", "ran"} /\ (pc' = "ran" => runErr' # "none")
    BY <1>10, <1>17 DEF Orphan, Untraced, Continue
  <2>2. spans' = spans
    BY <1>17, RecordsSpan DEF Orphan, Untraced, traceVars
  <2> QED BY <1>4, <1>6, <2>1, <2>2
<1>18. CASE ToolCall
  <2>1. pc = "tool"
    BY <1>18 DEF ToolCall
  <2>2. ASSUME NEW res \in Results, CreateSpan(U, FALSE, res), Then(res, "running")
        PROVE  Goal
    BY <1>1, <1>4, <1>6, <1>7, <1>10, <2>1, <2>2
  <2>3. CASE Untraced("running")
    <3>1. pc' = "running" /\ UNCHANGED spans /\ ~Traced
      BY <2>3 DEF Untraced, Continue, traceVars
    <3> QED BY <1>4, <1>6, <2>1, <3>1
  <2> QED BY <1>18, <2>2, <2>3 DEF ToolCall, U
<1>19. CASE ToolRuns
  <2>1. pc = "running" /\ pc' = "toolDone" /\ UNCHANGED spans
    BY <1>19 DEF ToolRuns, Continue, traceVars
  <2> QED BY <1>4, <1>6, <2>1
<1>20. CASE ToolResult
  <2>1. pc = "toolDone"
    BY <1>20 DEF ToolResult
  <2>2. ASSUME NEW res \in Results, FinishSpan(U, "complete", res), Then(res, "round")
        PROVE  Goal
    BY <1>1, <1>4, <1>6, <1>8, <1>10, <2>1, <2>2
  <2>3. CASE Untraced("round")
    <3>1. pc' = "round" /\ UNCHANGED spans /\ ~Traced
      BY <2>3 DEF Untraced, Continue, traceVars
    <3> QED BY <1>4, <1>6, <2>1, <3>1
  <2> QED BY <1>20, <2>2, <2>3 DEF ToolResult, U
<1> QED BY <1>11, <1>12, <1>13, <1>14, <1>15, <1>16, <1>17, <1>18, <1>19, <1>20 DEF TurnStep
-----------------------------------------------------------------------------
LEMMA InitIInv ==
  ASSUME Init
  PROVE  IInv /\ AInv
<1>1. /\ TracerTypeOK /\ instance = "none" /\ spans = [s \in Spans |-> "none"]
      /\ ~tracer.started /\ ~tracer.finished /\ ~tracer.terminated
  BY InitialTracer DEF Init
<1>2. (pc = "register" /\ Traced) \/ (pc = "prompt" /\ ~Traced)
  BY DEF Init
<1>3. turn = 0 /\ calls = 0 /\ cancelled = {} /\ 0 \in 0..MaxTurns /\ 0 \in 0..MaxCalls
  BY DEF Init
<1>4. reply = "none" /\ runErr = "none" /\ landed = FALSE /\ result = "graceful" /\ returned = "no"
  BY DEF Init
<1>5. Signalled
  <2>1. cancelTurn = 0 /\ presses = 0 /\ handler = [does |-> "nothing", turn |-> 0]
        /\ 0 \in 0..MaxTurns /\ 0 \in 0..MaxPresses
    BY DEF Init, Idle
  <2>2. interrupted \in BOOLEAN /\ exit \in BOOLEAN /\ sigint \in BOOLEAN
    BY DEF Init
  <2> QED BY <2>1, <2>2 DEF Signalled
<1>6. TurnTypeOK /\ SessionTyped
  BY <1>1, <1>2, <1>3, <1>4 DEF TurnTypeOK, SessionTyped, Replies, RunErrs
<1>7. TurnInv /\ Placed /\ Halts /\ TurnSpans
  BY <1>1, <1>2, <1>4 DEF TurnInv, Unfailed, HasCalled, ReturnsNothing, Placed, Halts, TurnSpans,
     InTurn, TurnPhases
<1>8. \A s \in Spans : spans[s] = "none"
  BY <1>1
<1>9. Recorded
  BY <1>8, SpanParts DEF Recorded, CompleteTurnsSucceeded
<1>10. AInv
  BY <1>1, <1>2, <1>8 DEF AInv, OpenCalls, SettledBefore, SessionOpen, Open, InTurn, TurnPhases,
     InstanceHasOutcome
<1> QED BY <1>5, <1>6, <1>7, <1>9 , <1>10 DEF IInv, Session

LEMMA SignalsStep ==
  ASSUME IInv, [Next]_vars
  PROVE  Signalled'
<1> USE DEF Signalled
<1>1. Signalled /\ Turns = 1..MaxTurns /\ turn \in 0..MaxTurns
  BY DEF IInv, Session, TurnTypeOK, Turns
<1>2. CASE Press
  <2>1. presses' \in 0..MaxPresses /\ UNCHANGED <<cancelTurn, interrupted, exit, handler>>
    BY <1>1, <1>2 DEF Press
  <2>2. sigint' \in BOOLEAN
    BY <1>2 DEF Press
  <2> QED BY <1>1, <2>1, <2>2
<1>3. CASE TakeSignal
  <2>1. UNCHANGED <<exit, presses>> /\ cancelTurn' = 0 /\ 0 \in 0..MaxTurns
    BY <1>3 DEF TakeSignal
  <2>3. sigint' \in BOOLEAN /\ interrupted' \in BOOLEAN
    BY <1>3 DEF TakeSignal
  <2>2. handler' \in [does : {"nothing", "cancel", "exit"}, turn : 0..MaxTurns]
        /\ (handler'.does = "cancel" => handler'.turn \in Turns)
    BY <1>1, <1>3 DEF TakeSignal
  <2> QED BY <1>1, <2>1, <2>2, <2>3
<1>4. CASE ActOnSignal
  <2>1. UNCHANGED <<cancelTurn, interrupted, sigint, presses>> /\ handler' = Idle /\ exit' \in BOOLEAN
    BY <1>4 DEF ActOnSignal
  <2> QED BY <1>1, <2>1 DEF Idle
<1>5. CASE BeginTurn
  <2>1. turn + 1 \in 0..MaxTurns
    BY <1>1, <1>5 DEF BeginTurn
  <2> QED BY <1>1, <1>5, <2>1 DEF BeginTurn
<1>6. CASE TakeInterrupted
  BY <1>1, <1>6 DEF TakeInterrupted
<1>7. CASE ClearTurn
  BY <1>1, <1>7 DEF ClearTurn
<1>8. CASE UNCHANGED signalVars
  BY <1>1, <1>8 DEF signalVars
<1>9. UNCHANGED signalVars \/ Press \/ TakeSignal \/ ActOnSignal \/ BeginTurn \/ TakeInterrupted \/ ClearTurn
  BY DEF Next, User, MainStep, vars, Quit, ReadError, EndSession, LeaveOnSignal, Register, Start,
     OpenTurn, RecordUserMessage, EngineStep, FinishTurn, Judge, SkipJudges, Finish
<1> QED BY <1>2, <1>3, <1>4, <1>5, <1>6, <1>7, <1>8, <1>9
-----------------------------------------------------------------------------
(***************************************************************************)
(* Session and AInv, action by action.                                      *)
(***************************************************************************)
\* The signal goroutine only adds to the cancelled turns.
LEMMA Framed ==
  ASSUME Session, cancelled \subseteq cancelled', cancelled' \subseteq Turns,
         UNCHANGED <<tracer, instance, spans, pc, turn, calls, reply, runErr, landed, result,
                     returned>>
  PROVE  Session' /\ (AInv => AInv')
<1>1. TurnTypeOK' /\ SessionTyped' /\ TurnInv'
  BY DEF Session, TurnTypeOK, TracerTypeOK, SessionTyped, TurnInv, Unfailed, HasCalled,
     ReturnsNothing
<1>2. Placed' /\ Halts' /\ TurnSpans' /\ Recorded'
  BY DEF Session, Placed, Halts, TurnSpans, Recorded, CompleteTurnsSucceeded, InTurn, Traced
<1>3. AInv => AInv'
  BY DEF AInv, OpenCalls, SettledBefore, SessionOpen, Open, InTurn, Traced, InstanceHasOutcome
<1> QED BY <1>1, <1>2, <1>3 DEF Session

LEMMA SignalStep ==
  ASSUME IInv, Press \/ TakeSignal \/ ActOnSignal \/ UNCHANGED vars
  PROVE  Session' /\ (AInv => AInv')
<1>1. UNCHANGED <<tracer, instance, spans, pc, turn, calls, reply, runErr, landed, result,
                  returned>>
  BY DEF Press, TakeSignal, ActOnSignal, vars, traceVars, turnVars, sessionVars
<1>2. cancelled \subseteq cancelled' /\ cancelled' \subseteq Turns
  <2>1. cancelled \subseteq Turns
    BY DEF IInv, Session, TurnTypeOK
  <2>2. CASE ActOnSignal
    BY <2>1, <2>2 DEF ActOnSignal, IInv, Signalled
  <2>3. CASE Press \/ TakeSignal \/ UNCHANGED vars
    BY <2>1, <2>3 DEF Press, TakeSignal, vars, turnVars
  <2> QED BY <2>2, <2>3
<1> QED BY <1>1, <1>2, Framed DEF IInv

LEMMA RegisterStep ==
  ASSUME Session, Register
  PROVE  Session' /\ (AInv => AInv')
<1>1. PICK res \in Results : RegisterInstance(FALSE, res) /\ StartStep(res, "start")
  BY DEF Register
<1>2. /\ pc = "register" /\ Traced /\ instance = "none" /\ ~tracer.terminated
      /\ runErr # "terminated" /\ result = "graceful"
      /\ UNCHANGED <<turn, calls, reply, runErr, cancelled, landed, result>>
  BY DEF Register, turnVars, Session, Placed, Halts
<1>3. /\ TracerTypeOK' /\ UNCHANGED spans /\ tracer'.started = tracer.started /\ Latches(res)
      /\ instance' \in {instance, "registered"}
      /\ res = "ok" => instance' = "registered"
      /\ res = "terminated" => instance = "terminated"
      /\ Answering => res # "error"
  BY <1>1, Typing, Registers
<1>4. /\ tracer'.on = tracer.on /\ tracer'.finished = tracer.finished /\ ~tracer'.terminated
      /\ \/ res = "ok" /\ pc' = "start" /\ UNCHANGED returned
         \/ res = "error" /\ pc' = "over" /\ returned' = "error"
  BY <1>1, <1>2, <1>3 DEF Latches, StartStep, Return
<1>5. TurnTypeOK' /\ SessionTyped'
  BY <1>2, <1>3, <1>4 DEF Session, TurnTypeOK, SessionTyped
<1>6. TurnInv' /\ Placed' /\ Halts' /\ TurnSpans'
  BY <1>2, <1>3, <1>4 DEF Session, TurnInv, Unfailed, HasCalled, ReturnsNothing, Placed, Halts,
     TurnSpans, InTurn, TurnPhases, Traced
<1>7. Recorded'
  BY <1>2, <1>3, <1>4 DEF Session, Recorded, CompleteTurnsSucceeded, Traced
<1>8. AInv => AInv'
  BY <1>2, <1>3, <1>4 DEF AInv, OpenCalls, SettledBefore, SessionOpen, Open, InTurn, TurnPhases,
     Traced, InstanceHasOutcome
<1> QED BY <1>5, <1>6, <1>7, <1>8 DEF Session

LEMMA StartedStep ==
  ASSUME Session, Start
  PROVE  Session' /\ (AInv => AInv')
<1>1. PICK res \in Results : StartInstance(FALSE, res) /\ StartStep(res, "prompt")
  BY DEF Start
<1>2. /\ pc = "start" /\ Traced /\ ~tracer.terminated /\ result = "graceful"
      /\ UNCHANGED <<turn, calls, reply, runErr, cancelled, landed, result>>
  BY DEF Start, turnVars, Session, Placed, Halts
<1>3. /\ TracerTypeOK' /\ UNCHANGED spans /\ (tracer'.started <=> res = "ok") /\ Latches(res)
      /\ instance' = instance \/ (instance = "registered" /\ instance' = "active")
      /\ res = "ok" => instance # "terminated" /\ (instance = "registered" => instance' = "active")
  BY <1>1, Typing, Starts
<1>4. /\ tracer'.on = tracer.on /\ tracer'.finished = tracer.finished
      /\ tracer'.terminated => res = "terminated" /\ instance' = "terminated"
      /\ runErr = "terminated" => instance' = "terminated"
      /\ \/ res = "ok" /\ pc' = "prompt" /\ UNCHANGED returned
         \/ res = "terminated" /\ pc' = "over" /\ returned' = "nil"
         \/ res = "error" /\ pc' = "over" /\ returned' = "error"
  BY <1>1, <1>2, <1>3 DEF Latches, StartStep, Return, Session, Halts
<1>5. TurnTypeOK' /\ SessionTyped'
  BY <1>2, <1>3, <1>4 DEF Session, TurnTypeOK, SessionTyped
<1>6. TurnInv' /\ Placed' /\ Halts' /\ TurnSpans'
  BY <1>2, <1>3, <1>4 DEF Session, TurnInv, Unfailed, HasCalled, ReturnsNothing, Placed, Halts,
     TurnSpans, InTurn, TurnPhases, Traced
<1>7. Recorded'
  BY <1>2, <1>3, <1>4 DEF Session, Recorded, CompleteTurnsSucceeded, Traced
<1>8. AInv => AInv'
  BY <1>2, <1>3, <1>4 DEF AInv, OpenCalls, SettledBefore, SessionOpen, Open, InTurn, TurnPhases,
     Traced, InstanceHasOutcome
<1> QED BY <1>5, <1>6, <1>7, <1>8 DEF Session

\* The session leaves the prompt, a turn's end is cleared away, the judges are called:
\* no turn is in hand and the tracer is left alone.
LEMMA PassingStep ==
  ASSUME Session,
         \/ LeaveOnSignal \/ Quit \/ ReadError
         \/ ClearTurn \/ Judge \/ SkipJudges
  PROVE  Session' /\ (AInv => AInv')
<1>1. UNCHANGED <<tracer, instance, spans, turn, calls, reply, runErr, cancelled, landed, returned>>
  BY DEF LeaveOnSignal, Quit, ReadError, EndSession, ClearTurn, Judge, SkipJudges, traceVars,
     turnVars, sessionVars
<1>2. \/ /\ pc = "prompt" /\ pc' = "ending" /\ result' \in {"interrupted", "graceful", "failure"}
      \/ /\ pc = "leaving" /\ result' = result
         /\ pc' = IF result = "graceful" THEN "prompt" ELSE "ending"
      \/ /\ pc = "ending" /\ result' = result /\ pc' = "finish"
  BY DEF LeaveOnSignal, Quit, ReadError, EndSession, ClearTurn, Judge, SkipJudges, sessionVars
<1>3. pc = "prompt" => result = "graceful" /\ ~tracer.terminated
  BY DEF Session, Placed, Halts
<1>4. TurnTypeOK' /\ SessionTyped'
  BY <1>1, <1>2 DEF Session, TurnTypeOK, TracerTypeOK, SessionTyped
<1>5. TurnInv' /\ Placed' /\ Halts' /\ TurnSpans'
  BY <1>1, <1>2, <1>3 DEF Session, TurnInv, Unfailed, HasCalled, ReturnsNothing, Placed, Halts,
     TurnSpans, InTurn, TurnPhases, Traced
<1>6. Recorded'
  BY <1>1 DEF Session, Recorded, CompleteTurnsSucceeded, Traced
<1>7. AInv => AInv'
  BY <1>1, <1>2, <1>3 DEF AInv, OpenCalls, SettledBefore, SessionOpen, Open, InTurn, TurnPhases,
     Traced, InstanceHasOutcome
<1> QED BY <1>4, <1>5, <1>6, <1>7 DEF Session

LEMMA BegunStep ==
  ASSUME Session, BeginTurn
  PROVE  Session' /\ (AInv => AInv')
<1>1. /\ pc = "prompt" /\ turn' = turn + 1 /\ calls' = 0 /\ reply' = "none" /\ runErr' = "none"
      /\ pc' = IF Traced THEN "opening" ELSE "round"
      /\ UNCHANGED <<tracer, instance, spans, cancelled, landed, result, returned>>
  BY DEF BeginTurn, traceVars, sessionVars
<1>2. /\ turn \in Nat /\ turn' \in 1..MaxTurns /\ turn' \in 0..MaxTurns /\ turn' > turn
      /\ turn' # turn /\ 0 \in 0..MaxCalls
  BY DEF BeginTurn, Session, TurnTypeOK
<1>3. \A k \in {"turn", "llm", "tool"} : <<turn', k>> \in Spans /\ spans[<<turn', k>>] = "none"
  BY <1>2, SpanParts DEF Session, Recorded, Turns
<1>4. \A s \in Spans : s[1] > turn' => s[1] > turn
  BY <1>2, SpanParts
<1>5. result = "graceful" /\ ~tracer.terminated
  BY <1>1 DEF Session, Placed, Halts
<1>6. TurnTypeOK' /\ SessionTyped'
  BY <1>1, <1>2 DEF Session, TurnTypeOK, TracerTypeOK, SessionTyped, Replies, RunErrs, TurnPhases
<1>7. TurnInv' /\ Placed' /\ Halts'
  BY <1>1, <1>2, <1>5 DEF Session, TurnInv, Unfailed, HasCalled, ReturnsNothing, Placed, Halts,
     InTurn, TurnPhases, Traced, Turns
<1>8. TurnSpans'
  BY <1>1, <1>3 DEF TurnSpans, Traced
<1>9. Recorded'
  BY <1>1, <1>4 DEF Session, Recorded, CompleteTurnsSucceeded, Traced
<1>10. ASSUME AInv
       PROVE  AInv'
  <2>1. OpenCalls'
    BY <1>1, <1>3 DEF OpenCalls
  <2>2. SettledBefore'
    BY <1>1, <1>10 DEF AInv, SettledBefore, InTurn, TurnPhases
  <2>3. SessionOpen'
    BY <1>1, <1>10 DEF AInv, SessionOpen, Open, Traced, InstanceHasOutcome
  <2> QED BY <2>1, <2>2, <2>3 DEF AInv
<1> QED BY <1>6, <1>7, <1>8, <1>9, <1>10 DEF Session

LEMMA OpenedStep ==
  ASSUME Session, OpenTurn \/ RecordUserMessage
  PROVE  Session' /\ (Answering /\ AInv => AInv')
<1> DEFINE T == <<turn, "turn">>
<1>1. /\ UNCHANGED <<turn, calls, reply, runErr, cancelled, landed, returned>>
      /\ pc \in {"opening", "opened"}
  BY DEF OpenTurn, RecordUserMessage, turnVars
<1>2. /\ turn \in Turns /\ T \in Spans /\ Traced /\ result = "graceful" /\ runErr = "none"
      /\ ~tracer.terminated /\ spans[T] # "complete" /\ spans[<<turn, "tool">>] # "active"
      /\ <<turn, "llm">> # T /\ <<turn, "tool">> # T
      /\ <<turn, "llm">> \in Spans /\ <<turn, "tool">> \in Spans
  BY <1>1, Typing DEF Session, Placed, Halts, TurnSpans, TurnInv, Unfailed, InTurn, TurnPhases
<1> HIDE DEF T
<1>3. PICK res \in Results :
        /\ CreateSpan(T, Dead, res) \/ RecordSpan(Dead, res)
        /\ \/ res = "ok" /\ pc' \in {"opened", "round"} /\ UNCHANGED result
           \/ res # "ok" /\ pc' = "leaving" /\ result' = TracerFailure(res)
  BY DEF OpenTurn, RecordUserMessage, LeaveTurn, T
<1>4. /\ TracerTypeOK' /\ UNCHANGED instance /\ tracer'.started = tracer.started /\ Latches(res)
      /\ \A x \in Spans : x # T => spans'[x] = spans[x]
      /\ spans'[T] \in {spans[T], "active"}
  BY <1>2, <1>3, Typing, CreatesSpan, RecordsSpan
<1>5. /\ tracer'.on = tracer.on /\ tracer'.finished = tracer.finished
      /\ tracer'.terminated => res = "terminated" /\ instance = "terminated"
      /\ res = "terminated" => instance = "terminated"
      /\ \/ pc' \in {"opened", "round"} /\ UNCHANGED result /\ res = "ok"
         \/ pc' = "leaving" /\ result' = "terminate" /\ res = "terminated"
         \/ pc' = "leaving" /\ result' = "failure" /\ res = "error"
  BY <1>2, <1>3, <1>4 DEF Latches, TracerFailure, Results
<1>6. TurnTypeOK' /\ SessionTyped'
  BY <1>1, <1>4, <1>5 DEF Session, TurnTypeOK, SessionTyped, TurnPhases
<1>7. TurnInv' /\ Placed' /\ Halts'
  BY <1>1, <1>2, <1>4, <1>5 DEF Session, TurnInv, Unfailed, HasCalled, ReturnsNothing, Placed,
     Halts, InTurn, TurnPhases, Traced
<1>8. TurnSpans'
  BY <1>1, <1>2, <1>4, <1>5 DEF TurnSpans, Traced, T
<1>9. Recorded'
  <2>1. \A s \in Spans : s[1] > turn' \/ ~Traced' => spans'[s] = "none"
    <3>1. ~(T[1] > turn)
      BY Typing DEF T
    <3> QED BY <1>1, <1>2, <1>4, <1>5, <3>1 DEF Session, Recorded, Traced
  <2>2. ASSUME NEW t \in Turns, spans'[<<t, "turn">>] = "complete"
        PROVE  spans'[<<t, "llm">>] = "complete" /\ spans'[<<t, "tool">>] # "active"
    <3>1. /\ <<t, "turn">> \in Spans /\ <<t, "llm">> \in Spans /\ <<t, "tool">> \in Spans
          /\ <<t, "llm">> # T /\ <<t, "tool">> # T
      BY SpanParts DEF T
    <3>2. <<t, "turn">> # T
      BY <1>2, <1>4, <2>2
    <3> QED BY <1>4, <2>2, <3>1, <3>2 DEF Session, Recorded, CompleteTurnsSucceeded
  <2> QED BY <2>1, <2>2 DEF Recorded, CompleteTurnsSucceeded
<1>10. ASSUME AInv
       PROVE  AInv'
  <2>1. OpenCalls'
    BY <1>1, <1>2, <1>4, <1>5, <1>10 DEF AInv, OpenCalls, InTurn, TurnPhases
  <2>2. SettledBefore'
    <3>1. \A s \in Spans : s[1] # turn => s # T
      BY DEF T
    <3> QED BY <1>1, <1>4, <1>5, <1>10, <3>1 DEF AInv, SettledBefore, InTurn, TurnPhases
  <2>3. SessionOpen'
    BY <1>1, <1>2, <1>4, <1>5, <1>10 DEF AInv, SessionOpen, Open, Traced, InstanceHasOutcome
  <2> QED BY <2>1, <2>2, <2>3 DEF AInv
<1> QED BY <1>6, <1>7, <1>8, <1>9, <1>10 DEF Session

LEMMA EngineSteps ==
  ASSUME Session, EngineStep
  PROVE  Session' /\ (Answering /\ AInv => AInv')
<1>1. TurnStep /\ UNCHANGED <<landed, result, returned>>
  BY DEF EngineStep, sessionVars
<1>2. pc \in TurnPhases \ {"opening", "opened", "ran"}
  BY <1>1 DEF TurnStep, Call, GiveUp, Answer, CallFailed, CallSucceeded, Say, Orphan, ToolCall,
     ToolRuns, ToolResult, TurnPhases
<1>3. InTurn /\ turn \in Turns /\ ~tracer.terminated /\ result = "graceful"
  BY <1>2 DEF Session, Placed, Halts, InTurn, TurnPhases
<1>4. /\ TurnTypeOK' /\ TurnInv'
      /\ UNCHANGED <<turn, cancelled, instance>>
      /\ tracer'.on = tracer.on /\ tracer'.started = tracer.started
      /\ tracer'.finished = tracer.finished
      /\ tracer'.terminated => pc' = "ran" /\ runErr' = "terminated" /\ instance = "terminated"
      /\ runErr' = "terminated" => instance = "terminated"
      /\ pc' \in TurnPhases \ {"opening", "opened"} /\ InTurn'
      /\ ~Traced => UNCHANGED <<tracer, spans>>
      /\ \A x \in Spans : x[1] # turn \/ x[2] = "turn" => spans'[x] = spans[x]
  <2>1. runErr = "terminated" => instance = "terminated"
    BY DEF Session, Halts
  <2> QED BY <1>1, <1>3, <2>1, Typing, TurnStepKeeps DEF TurnInv, InTurn
<1>5. /\ TurnSpans'
      /\ Answering /\ OpenCalls => OpenCalls'
  <2>1. TurnTypeOK /\ Unfailed /\ TurnSpans /\ (tracer.terminated => instance = "terminated")
        /\ (~Traced => \A s \in Spans : spans[s] = "none")
    BY Typing DEF Session, Halts, Recorded
  <2> QED BY <1>1, <1>3, <2>1, TurnSpansStep
<1>6. Traced' = Traced
  BY <1>4 DEF Traced
<1>7. SessionTyped'
  BY <1>1, <1>4 DEF Session, SessionTyped
<1>8. Placed' /\ Halts'
  <2>1. ~Traced => ~tracer'.terminated
    BY <1>3, <1>4
  <2> QED BY <1>1, <1>3, <1>4, <1>6, <2>1 DEF Session, Placed, Halts, TurnPhases, InTurn
<1>9. Recorded'
  <2>1. \A s \in Spans : s[1] > turn => spans'[s] = spans[s]
    BY <1>4, SpanParts, Typing
  <2>2. \A s \in Spans : s[1] > turn' \/ ~Traced' => spans'[s] = "none"
    BY <1>4, <1>6, <2>1 DEF Session, Recorded
  <2>3. ASSUME NEW t \in Turns, spans'[<<t, "turn">>] = "complete"
        PROVE  spans'[<<t, "llm">>] = "complete" /\ spans'[<<t, "tool">>] # "active"
    <3>1. \A k \in {"turn", "llm", "tool"} : <<t, k>> \in Spans /\ <<t, k>>[1] = t /\ <<t, k>>[2] = k
      BY SpanParts
    <3>2. spans[<<t, "turn">>] = "complete"
      BY <1>4, <2>3, <3>1
    <3>3. t # turn
      BY <1>3, <3>2 DEF Session, TurnSpans
    <3> QED BY <1>4, <3>1, <3>2, <3>3 DEF Session, Recorded, CompleteTurnsSucceeded
  <2> QED BY <2>2, <2>3 DEF Recorded, CompleteTurnsSucceeded
<1>10. ASSUME Answering, AInv
       PROVE  AInv'
  <2>1. OpenCalls'
    BY <1>5, <1>10 DEF AInv
  <2>2. SettledBefore'
    BY <1>1, <1>3, <1>4, <1>10 DEF AInv, SettledBefore
  <2>3. SessionOpen'
    BY <1>2, <1>4, <1>6, <1>10 DEF AInv, SessionOpen, Open, TurnPhases, InstanceHasOutcome
  <2> QED BY <2>1, <2>2, <2>3 DEF AInv
<1> QED BY <1>4, <1>5, <1>7, <1>8, <1>9, <1>10 DEF Session, TurnInv

LEMMA TakenStep ==
  ASSUME IInv, TakeInterrupted
  PROVE  Session' /\ (AInv => AInv')
<1>1. /\ UNCHANGED <<tracer, instance, spans, turn, calls, reply, runErr, cancelled, returned>>
      /\ pc = "ran" /\ Session
  BY DEF TakeInterrupted, traceVars, turnVars, IInv
<1>2. landed' \in BOOLEAN
  BY DEF TakeInterrupted, IInv, Session, SessionTyped, Signalled
<1>3. \/ Traced /\ pc' = "finishTurn" /\ UNCHANGED result
      \/ ~Traced /\ pc' = "leaving" /\ result' \in {"interrupted", "graceful"}
  BY DEF TakeInterrupted, LeaveTurn, Classify
<1>4. InTurn /\ turn \in Turns /\ result = "graceful"
  BY <1>1 DEF Session, Placed, InTurn, TurnPhases
<1>5. TurnTypeOK' /\ SessionTyped'
  BY <1>1, <1>2, <1>3 DEF Session, TurnTypeOK, TracerTypeOK, SessionTyped
<1>6. TurnInv' /\ Placed' /\ Halts'
  BY <1>1, <1>3, <1>4 DEF Session, TurnInv, Unfailed, HasCalled, ReturnsNothing, Placed, Halts,
     InTurn, TurnPhases, Traced
<1>7. TurnSpans'
  BY <1>1, <1>3, <1>4 DEF Session, TurnSpans, InTurn, TurnPhases, Traced
<1>8. Recorded'
  BY <1>1 DEF Session, Recorded, CompleteTurnsSucceeded, Traced
<1>9. ASSUME AInv
      PROVE  AInv'
  <2>1. OpenCalls'
    BY <1>1, <1>3, <1>4, <1>9 DEF AInv, OpenCalls, InTurn, TurnPhases
  <2>2. SettledBefore'
    BY <1>1, <1>3, <1>4, <1>9 DEF AInv, SettledBefore, InTurn, Session, Recorded
  <2>3. SessionOpen'
    BY <1>1, <1>3, <1>9 DEF AInv, SessionOpen, Open, Traced, InstanceHasOutcome
  <2> QED BY <2>1, <2>2, <2>3 DEF AInv
<1> QED BY <1>5, <1>6, <1>7, <1>8, <1>9 DEF Session

\* The one step that records a turn complete, and only one that returned no error.
LEMMA FinishedTurnStep ==
  ASSUME Session, FinishTurn
  PROVE  Session' /\ (Answering /\ AInv => AInv')
<1> DEFINE T == <<turn, "turn">>  status == TurnStatus
<1>1. /\ UNCHANGED <<turn, calls, reply, runErr, cancelled, returned>>
      /\ pc = "finishTurn" /\ pc' = "leaving" /\ landed' = FALSE
  BY DEF FinishTurn, LeaveTurn, turnVars
<1>2. PICK res \in Results :
        /\ FinishSpan(T, status, res)
        /\ result' = IF runErr = "terminated" THEN "terminate"
                     ELSE IF res # "ok" THEN TracerFailure(res) ELSE Classify(landed)
  BY DEF FinishTurn, LeaveTurn
<1>3. /\ turn \in Turns /\ T \in Spans /\ Traced /\ result = "graceful"
      /\ <<turn, "llm">> # T /\ <<turn, "tool">> # T
      /\ <<turn, "llm">> \in Spans /\ <<turn, "tool">> \in Spans
      /\ spans[T] # "complete"
      /\ runErr = "none" =>
           /\ spans[<<turn, "tool">>] # "active"
           /\ spans[<<turn, "llm">>] = "complete" \/ spans[T] # "active"
  BY <1>1, Typing DEF Session, Placed, TurnSpans, InTurn, TurnPhases
<1>4. status \in {"complete", "cancelled", "failed"} /\ (status = "complete" => runErr = "none")
  BY DEF TurnStatus
<1> HIDE DEF T, status
<1>5. /\ TracerTypeOK' /\ UNCHANGED instance /\ tracer'.started = tracer.started /\ Latches(res)
      /\ \A x \in Spans : x # T => spans'[x] = spans[x]
      /\ spans'[T] \in {spans[T], status}
      /\ spans[T] # "active" => spans'[T] = spans[T]
      /\ Answering => spans'[T] # "active"
  <2>1. status \in SpanStatus
    BY <1>4 DEF SpanStatus
  <2> QED BY <1>2, <1>3, <1>4, <2>1, Typing, FinishesSpan
<1>6. /\ tracer'.on = tracer.on /\ tracer'.finished = tracer.finished
      /\ tracer'.terminated => instance = "terminated" /\ result' = "terminate"
      /\ result' = "terminate" => instance = "terminated"
      /\ runErr = "terminated" => instance = "terminated"
      /\ result' \in {"terminate", "failure", "interrupted", "graceful"}
  <2>1. /\ tracer.terminated => runErr = "terminated" /\ instance = "terminated"
        /\ runErr = "terminated" => instance = "terminated"
    BY <1>1 DEF Session, Halts
  <2>2. TracerFailure(res) = IF res = "terminated" THEN "terminate" ELSE "failure"
    BY DEF TracerFailure
  <2>3. Classify(landed) \in {"interrupted", "graceful"}
    BY DEF Classify
  <2> QED BY <1>2, <1>5, <2>1, <2>2, <2>3 DEF Latches
<1>7. TurnTypeOK' /\ SessionTyped'
  BY <1>1, <1>5, <1>6 DEF Session, TurnTypeOK, SessionTyped
<1>8. TurnInv' /\ Placed' /\ Halts' /\ TurnSpans'
  BY <1>1, <1>3, <1>5, <1>6 DEF Session, TurnInv, Unfailed, HasCalled, ReturnsNothing, Placed, Halts,
     TurnSpans, InTurn, TurnPhases, Traced
<1>9. Recorded'
  <2>1. \A s \in Spans : s[1] > turn' \/ ~Traced' => spans'[s] = "none"
    <3>1. ~(T[1] > turn)
      BY Typing DEF T
    <3> QED BY <1>1, <1>3, <1>5, <1>6, <3>1 DEF Session, Recorded, Traced
  <2>2. ASSUME NEW t \in Turns, spans'[<<t, "turn">>] = "complete"
        PROVE  spans'[<<t, "llm">>] = "complete" /\ spans'[<<t, "tool">>] # "active"
    <3>1. /\ <<t, "turn">> \in Spans /\ <<t, "llm">> \in Spans /\ <<t, "tool">> \in Spans
          /\ <<t, "llm">> # T /\ <<t, "tool">> # T
          /\ <<t, "turn">> = T => t = turn
      BY SpanParts DEF T
    <3>2. CASE <<t, "turn">> = T
      <4>1. spans[T] = "active" /\ status = "complete"
        BY <1>3, <1>5, <2>2, <3>2
      <4> QED BY <1>3, <1>4, <1>5, <3>1, <3>2, <4>1
    <3>3. CASE <<t, "turn">> # T
      BY <1>5, <2>2, <3>1, <3>3 DEF Session, Recorded, CompleteTurnsSucceeded
    <3> QED BY <3>2, <3>3
  <2> QED BY <2>1, <2>2 DEF Recorded, CompleteTurnsSucceeded
<1>10. ASSUME Answering, AInv
       PROVE  AInv'
  <2>1. OpenCalls'
    BY <1>1 DEF OpenCalls, InTurn, TurnPhases
  <2>2. SettledBefore'
    <3>1. ASSUME instance # "terminated", NEW s \in Spans, spans'[s] = "active"
          PROVE  s[2] = "llm" /\ s[1] \in cancelled
      <4>1. s # T /\ spans[s] = "active"
        BY <1>5, <1>10, <3>1
      <4>2. CASE s[1] # turn
        BY <1>3, <1>10, <3>1, <4>1, <4>2 DEF AInv, SettledBefore
      <4>3. CASE s[1] = turn
        <5>1. s = <<turn, "llm">> \/ s = <<turn, "tool">>
          BY <4>1, <4>3, SpanParts DEF T
        <5> QED BY <1>1, <1>10, <3>1, <4>1, <4>3, <5>1 DEF AInv, OpenCalls, InTurn
      <4> QED BY <4>2, <4>3
    <3> QED BY <1>1, <1>5, <3>1 DEF SettledBefore
  <2>3. SessionOpen'
    BY <1>1, <1>5, <1>6, <1>10 DEF AInv, SessionOpen, Open, Traced, InstanceHasOutcome
  <2> QED BY <2>1, <2>2, <2>3 DEF AInv
<1> QED BY <1>7, <1>8, <1>9, <1>10 DEF Session

\* The session's finish gives the instance the outcome Run returns.
LEMMA FinishedStep ==
  ASSUME Session, Finish
  PROVE  Session' /\ (Answering /\ AInv => AInv')
<1>1. /\ UNCHANGED <<turn, calls, reply, runErr, cancelled, landed, result>>
      /\ pc = "finish" /\ pc' = "over"
  BY DEF Finish, Return, turnVars
<1>2. tracer.terminated => instance = "terminated" /\ Traced /\ result = "terminate"
  BY <1>1 DEF Session, Halts
<1>3. RunErr = (IF result = "failure" THEN "error" ELSE "nil")
      /\ (InstanceStatus = IF result = "failure" THEN "failed" ELSE "complete")
  BY DEF RunErr, InstanceStatus
<1>4. /\ TracerTypeOK' /\ UNCHANGED spans
      /\ tracer'.on = tracer.on /\ tracer'.started = tracer.started
      /\ tracer'.terminated = tracer.terminated
      /\ instance = "terminated" => instance' = "terminated"
      /\ returned' \in {"nil", "error"}
      /\ result = "terminate" => returned' = "nil"
      /\ Answering /\ tracer.started /\ ~tracer.finished /\ result # "terminate"
            /\ instance = "active" /\ Traced =>
            instance' = InstanceStatus /\ returned' = RunErr
  <2>1. CASE /\ ~Traced \/ result = "terminate"
             /\ returned' = RunErr /\ UNCHANGED traceVars
    BY <1>3, <2>1, Typing DEF traceVars, TracerTypeOK
  <2>2. ASSUME Traced, result # "terminate", NEW res \in Results,
               FinishSession(InstanceStatus, res),
               returned' = IF res = "ok" THEN RunErr ELSE "error"
        PROVE  <1>4
    <3> DEFINE status == InstanceStatus
    <3>1. status \in {"complete", "failed"} /\ FinishSession(status, res)
      BY <1>3, <2>2
    <3> HIDE DEF status
    <3>2. /\ TracerTypeOK' /\ UNCHANGED spans
          /\ tracer'.on = tracer.on /\ tracer'.started = tracer.started
          /\ tracer'.terminated = tracer.terminated
          /\ instance = "terminated" => instance' = "terminated"
          /\ Answering /\ tracer.started /\ ~tracer.finished /\ ~tracer.terminated
              /\ instance = "active" => res = "ok" /\ instance' = status
      BY <3>1, Typing, FinishesSession
    <3> QED BY <1>2, <1>3, <2>2, <3>2 DEF status
  <2> QED BY <2>1, <2>2 DEF Finish, Return
<1>5. TurnTypeOK' /\ SessionTyped'
  BY <1>1, <1>4 DEF Session, TurnTypeOK, SessionTyped
<1>6. TurnInv' /\ Placed' /\ TurnSpans'
  BY <1>1, <1>4 DEF Session, TurnInv, Unfailed, HasCalled, ReturnsNothing, Placed,
     TurnSpans, InTurn, TurnPhases, Traced
<1>7. Halts'
  BY <1>1, <1>2, <1>4 DEF Session, Halts, Traced
<1>8. Recorded'
  BY <1>1, <1>4 DEF Session, Recorded, CompleteTurnsSucceeded, Traced
<1>9. ASSUME Answering, AInv
      PROVE  AInv'
  <2>1. OpenCalls'
    BY <1>1 DEF OpenCalls, InTurn, TurnPhases
  <2>2. SettledBefore'
    BY <1>1, <1>4, <1>9 DEF AInv, SettledBefore, InTurn, TurnPhases
  <2>3. SessionOpen'
    <3>1. result = "terminate" => instance = "terminated"
      BY DEF Session, Halts
    <3> QED BY <1>1, <1>3, <1>4, <1>9, <3>1 DEF AInv, SessionOpen, Open, Traced, InstanceHasOutcome
  <2> QED BY <2>1, <2>2, <2>3 DEF AInv
<1> QED BY <1>5, <1>6, <1>7, <1>8, <1>9 DEF Session

\* A termination reaches the instance first; the session learns of it later.
LEMMA TerminatedStep ==
  ASSUME Session, PlatformTerminates, UNCHANGED <<pc, turnVars, signalVars, sessionVars>>
  PROVE  Session' /\ (AInv => AInv')
<1>1. /\ UNCHANGED <<tracer, pc, turn, calls, reply, runErr, cancelled, landed, result, returned>>
      /\ instance \in {"registered", "active"} /\ instance' = "terminated"
  BY DEF PlatformTerminates, turnVars, sessionVars
<1>2. /\ spans' \in [Spans -> SpanStatus]
      /\ \A s \in Spans : spans'[s] = spans[s] \/ (spans[s] = "active" /\ spans'[s] = "cancelled")
  <2>1. spans \in [Spans -> SpanStatus]
    BY Typing DEF TracerTypeOK
  <2> QED BY <2>1 DEF PlatformTerminates, SpanStatus
<1>3. TurnTypeOK' /\ SessionTyped'
  BY <1>1, <1>2 DEF Session, TurnTypeOK, TracerTypeOK, SessionTyped
<1>4. TurnInv' /\ Placed' /\ Halts'
  BY <1>1 DEF Session, TurnInv, Unfailed, HasCalled, ReturnsNothing, Placed, Halts, InTurn, Traced
<1>5. TurnSpans'
  <2>1. SUFFICES ASSUME InTurn
                 PROVE  TurnSpans'
    BY <1>1 DEF TurnSpans, InTurn
  <2> DEFINE T == <<turn, "turn">>  L == <<turn, "llm">>  U == <<turn, "tool">>
  <2>2. T \in Spans /\ L \in Spans /\ U \in Spans
    BY <2>1, Typing
  <2>3. \A x \in {T, L, U} : spans'[x] = spans[x] \/ (spans[x] = "active" /\ spans'[x] = "cancelled")
    BY <1>2, <2>2
  <2>4. /\ spans[T] # "complete"
        /\ pc \notin {"running", "toolDone"} /\ runErr = "none" => spans[U] # "active"
        /\ Traced /\ pc \in {"inflight", "answered"} => spans[L] = "active" \/ spans[T] # "active"
        /\ Traced /\ pc \in {"text", "ran", "finishTurn"} /\ runErr = "none" =>
             spans[L] = "complete" \/ spans[T] # "active"
    BY <2>1 DEF Session, TurnSpans
  <2>5. UNCHANGED <<turn, pc, runErr, Traced>>
    BY <1>1 DEF Traced
  <2>6. /\ spans'[T] # "complete"
        /\ pc \notin {"running", "toolDone"} /\ runErr = "none" => spans'[U] # "active"
    BY <2>3, <2>4
  <2>7. CASE spans[T] = "active"
    <3>1. spans' = [s \in Spans |-> IF spans[s] = "active" THEN "cancelled" ELSE spans[s]]
            \/ spans' = spans
      BY DEF PlatformTerminates
    <3>2. spans'[T] # "active" \/ spans'[L] = spans[L]
      BY <2>2, <2>7, <3>1
    <3> QED BY <2>3, <2>4, <2>5, <2>6, <2>7, <3>2 DEF TurnSpans
  <2>8. CASE spans[T] # "active"
    <3>1. spans'[T] # "active"
      BY <2>3, <2>8
    <3> QED BY <2>4, <2>5, <2>6, <3>1 DEF TurnSpans
  <2> QED BY <2>7, <2>8
<1>6. Recorded'
  BY <1>1, <1>2, SpanParts DEF Session, Recorded, CompleteTurnsSucceeded, Traced
<1>7. AInv => AInv'
  BY <1>1 DEF AInv, OpenCalls, SettledBefore, SessionOpen, Open, Traced, InstanceHasOutcome
<1> QED BY <1>3, <1>4, <1>5, <1>6, <1>7 DEF Session

LEMMA NextStep ==
  ASSUME IInv, [Next]_vars
  PROVE  IInv' /\ (Answering /\ AInv => AInv')
<1>1. Session
  BY DEF IInv
<1>2. CASE MainStep
  BY <1>1, <1>2, RegisterStep, StartedStep, PassingStep, OpenedStep, EngineSteps, TakenStep,
     FinishedTurnStep, FinishedStep, SignalsStep DEF MainStep, IInv
<1>3. CASE User \/ TakeSignal \/ ActOnSignal \/ LeaveOnSignal
  BY <1>1, <1>3, PassingStep, BegunStep, SignalStep, SignalsStep DEF User, IInv
<1>4. CASE PlatformTerminates /\ UNCHANGED <<pc, turnVars, signalVars, sessionVars>>
  BY <1>1, <1>4, TerminatedStep, SignalsStep DEF IInv
<1>5. CASE UNCHANGED vars
  BY <1>5, SignalStep, SignalsStep DEF IInv
<1> QED BY <1>2, <1>3, <1>4, <1>5 DEF Next

LEMMA Invariance == Spec => []IInv
<1>1. Init => IInv
  BY InitIInv
<1>2. IInv /\ [Next]_vars => IInv'
  BY NextStep
<1> QED BY <1>1, <1>2, PTL DEF Spec

LEMMA AnsweredInvariance ==
  ASSUME Answering
  PROVE  Spec => [](IInv /\ AInv)
<1>1. Init => IInv /\ AInv
  BY InitIInv
<1>2. (IInv /\ AInv) /\ [Next]_vars => (IInv /\ AInv)'
  BY NextStep
<1> QED BY <1>1, <1>2, PTL DEF Spec
-----------------------------------------------------------------------------
\* The state of a chat session, its signal goroutine, its tracer and the platform's
\* record of it are well-typed whatever the platform and the user do.
THEOREM ChatTypeCorrect == Spec => []TypeOK
<1>1. IInv => TypeOK
  BY Typed
<1> QED BY <1>1, Invariance, PTL

\* Whichever answer of the platform first asks the run to stop, and whatever other
\* calls fail, no request, tool or turn is begun after it, and Run returns nil without
\* finishing the instance again (docs/configuration.md, Termination).
THEOREM TerminationsAreHonoured == Spec => []TerminateHonoured
<1>1. IInv => TerminateHonoured
  BY DEF IInv, Session, Halts, TerminateHonoured
<1> QED BY <1>1, Invariance, PTL

\* A turn the platform shows complete is one whose last LLM call it shows complete
\* and whose tool calls it shows closed, even when calls fail or their answers are lost
\* (chat.go runTurn, tracewrap.go).
THEOREM CompleteTurnsDidSucceed == Spec => []CompleteTurnsSucceeded
<1>1. IInv => CompleteTurnsSucceeded
  BY DEF IInv, Session, Recorded
<1> QED BY <1>1, Invariance, PTL

\* On a platform that answers, a session that ends well leaves no span open but that
\* of an LLM call whose creation a Ctrl-C cancelled (chat.go runTurn).
THEOREM SessionsSettleTheirSpans ==
  ASSUME Answering
  PROVE  Spec => []SpansSettled
<1>1. IInv /\ AInv => SpansSettled
  BY DEF AInv, SettledBefore, SpansSettled, EndedWell, InTurn, TurnPhases
<1> QED BY <1>1, AnsweredInvariance, PTL

\* On a platform that answers, the instance of a session that is over is failed exactly
\* when Run returned an error (docs/configuration.md, What maps to what).
THEOREM SessionsSettleTheirInstance ==
  ASSUME Answering
  PROVE  Spec => []InstanceHasOutcome
<1>1. IInv /\ AInv => InstanceHasOutcome
  BY DEF AInv, SessionOpen
<1> QED BY <1>1, AnsweredInvariance, PTL
=============================================================================

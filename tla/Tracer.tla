------------------------------ MODULE Tracer ------------------------------
(***************************************************************************)
(* internal/prefactor: the tracer of one session and what the platform       *)
(* holds of it.  Every tracing call is one operator: it relates the tracer    *)
(* and the platform before and after the call to the result `res` its caller  *)
(* gets.  A call may be refused, its answer may be lost after the platform    *)
(* applied it (Faults), and the platform may ask, in any answer, that the run *)
(* stop.                                                                      *)
(***************************************************************************)
EXTENDS Naturals

CONSTANTS Tracing,      \* is a tracer configured: the choices
          MaxTurns,     \* bound: turns of a session
          Faults        \* what may go wrong outside: "refused", "lost",
                        \* "terminate" and, for the frontends, "stdin"

ASSUME TracerAssumption ==
  /\ Tracing \subseteq BOOLEAN /\ Tracing # {}
  /\ MaxTurns \in Nat \ {0}
  /\ Faults \subseteq {"refused", "lost", "terminate", "stdin"}

VARIABLES tracer,       \* [on, started, terminated, finished]: is there a
                        \* tracer, and its latches
          instance,     \* the agent instance, as the platform has it
          spans         \* the platform's status of each span: the turn's own, and
                        \* the latest LLM call and tool call in it

traceVars == <<tracer, instance, spans>>

Turns == 1..MaxTurns
Spans == Turns \X {"turn", "llm", "tool"}
SpanStatus == {"none", "active", "complete", "failed", "cancelled"}
Results == {"ok", "error", "terminated"}

Traced == tracer.on

TracerInit ==
  /\ \E on \in Tracing :
       tracer = [on |-> on, started |-> FALSE, terminated |-> FALSE, finished |-> FALSE]
  /\ instance = "none"
  /\ spans = [s \in Spans |-> "none"]

TracerTypeOK ==
  /\ tracer \in [on : BOOLEAN, started : BOOLEAN, terminated : BOOLEAN,
                finished : BOOLEAN]
  /\ instance \in {"none", "registered", "active", "complete", "failed", "terminated"}
  /\ spans \in [Spans -> SpanStatus]

\* What becomes of one API call after its retries: a call whose context is
\* cancelled fails before or after the platform applied it.
Delivery(dead) ==
  IF dead THEN {"refused", "lost"} ELSE {"ok"} \cup (Faults \cap {"refused", "lost"})

\* The platform wants the run stopped and its answer arrives: observeControl.
Stopped(delivery) == delivery = "ok" /\ instance = "terminated"

Result(delivery) ==
  IF delivery # "ok" THEN "error" ELSE IF Stopped(delivery) THEN "terminated" ELSE "ok"

Observe(delivery, res) ==
  /\ res = Result(delivery)
  /\ tracer' = [tracer EXCEPT !.terminated = @ \/ Stopped(delivery)]

\* Someone stops the run in the platform's web app, even as it registers; the
\* platform marks the instance, and may or may not settle its open spans.
PlatformTerminates ==
  /\ "terminate" \in Faults
  /\ instance \in {"registered", "active"}
  /\ instance' = "terminated"
  /\ \/ UNCHANGED spans
     \/ spans' = [s \in Spans |-> IF spans[s] = "active" THEN "cancelled" ELSE spans[s]]
  /\ UNCHANGED tracer

RegisterInstance(dead, res) ==
  /\ \E d \in Delivery(dead) :
       /\ instance' = IF d = "refused" THEN instance ELSE "registered"
       /\ Observe(d, res)
  /\ UNCHANGED spans

StartInstance(dead, res) ==
  /\ \E d \in Delivery(dead) :
       /\ res = Result(d)
       /\ instance' = IF d # "refused" /\ instance = "registered" THEN "active" ELSE instance
       /\ tracer' = [tracer EXCEPT !.terminated = @ \/ Stopped(d), !.started = (res = "ok")]
  /\ UNCHANGED spans

\* checkLocked, shared by every call that creates a span.
Refused(res) ==
  /\ tracer.terminated /\ res = "terminated"
  /\ UNCHANGED traceVars

CreateSpan(s, dead, res) ==
  \/ Refused(res)
  \/ /\ ~tracer.terminated
     /\ \E d \in Delivery(dead) :
          /\ spans' = IF d = "refused" THEN spans ELSE [spans EXCEPT ![s] = "active"]
          /\ Observe(d, res)
     /\ UNCHANGED instance

\* A span recorded complete at once: a message, or a tool result without a call.
RecordSpan(dead, res) ==
  \/ Refused(res)
  \/ /\ ~tracer.terminated
     /\ \E d \in Delivery(dead) : Observe(d, res)
     /\ UNCHANGED <<instance, spans>>

\* Finishing uses a background context and does not consult the latch.  A span that
\* is settled already answers 409, which counts as success.
FinishSpan(s, status, res) ==
  /\ \E d \in Delivery(FALSE) :
       IF spans[s] = "active"
         THEN /\ spans' = IF d = "refused" THEN spans ELSE [spans EXCEPT ![s] = status]
              /\ Observe(d, res)
         ELSE /\ res = IF d = "ok" THEN "ok" ELSE "error"
              /\ UNCHANGED <<tracer, spans>>
  /\ UNCHANGED instance

\* A terminated instance answers a second finish with 409, an error here.
FinishSession(status, res) ==
  \/ Refused(res)
  \/ /\ ~tracer.terminated
     /\ tracer.finished \/ ~tracer.started
     /\ res = "error"
     /\ UNCHANGED traceVars
  \/ /\ ~tracer.terminated /\ ~tracer.finished /\ tracer.started
     /\ tracer' = [tracer EXCEPT !.finished = TRUE]
     /\ \E d \in Delivery(FALSE) :
          /\ res = IF d = "ok" /\ instance = "active" THEN "ok" ELSE "error"
          /\ instance' = IF d # "refused" /\ instance = "active" THEN status ELSE instance
     /\ UNCHANGED spans
=============================================================================

------------------------------ MODULE MCEngine ------------------------------
(***************************************************************************)
(* Small instances of Engine: every configuration mode, responses that mix  *)
(* malformed, unknown and repeated tool calls, and two turns per history.   *)
(***************************************************************************)
EXTENDS Engine, TLC

CONSTANTS a, noid, forced, other

MCCallIds == {a, noid}
MCToolNames == {forced, other}

MCConfigs ==
  {[choice |-> c, tools |-> t, maxTurns |-> m] :
     c \in {"none", "required", "force"}, t \in {{}, {forced}}, m \in {0, 1}}

Call(i, n, d) == [id |-> i, name |-> n, decodes |-> d]
Reply(t, c, f) == [text |-> t, calls |-> c, truncated |-> f]

MCResponses ==
  {Reply(TRUE, <<>>, FALSE), Reply(FALSE, <<>>, FALSE), Reply(TRUE, <<>>, TRUE),
   Reply(TRUE, <<Call(a, other, TRUE)>>, FALSE),
   Reply(FALSE, <<Call(a, forced, TRUE)>>, FALSE),
   Reply(FALSE, <<Call(noid, forced, FALSE)>>, FALSE),
   Reply(TRUE, <<Call(a, forced, FALSE), Call(a, forced, TRUE)>>, FALSE),
   Reply(FALSE, <<Call(noid, other, TRUE), Call(a, forced, FALSE)>>, FALSE)}

MCSeeds == {<<UserMessage>>, <<UserMessage, AssistantMessage(Reply(TRUE, <<>>, FALSE))>>}
=============================================================================

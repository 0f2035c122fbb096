---------------------------- MODULE MCDelegation ----------------------------
(***************************************************************************)
(* Configurations around the ways they go wrong: toolsets "k" and "k-r"     *)
(* whose grants can collide or refer to one another, agents "a", "b" and    *)
(* "c" that delegate through tools, toolsets and judges, and providers and  *)
(* models of the wrong kind or not there at all.                            *)
(***************************************************************************)
EXTENDS Delegation

A == <<"a">>  B == <<"b">>  C == <<"c">>  Z == <<"z">>
L == <<"l">>  E == <<"e">>  D == <<"d">>  P == <<"p">>  Q == <<"q">>
K == <<"k">>  KR == <<"k", "r">>

MCRoot == A

Tools == {<<>>, <<Command(<<"k", "r">>)>>, <<Subagent(<<"s">>, C)>>}

ToolsetsK ==
  {<<>>, <<Subagent(<<"r", "s">>, B)>>, <<ToolsetRef(KR)>>,
   <<ToolsetRef(KR), DeciderEntry(D, D)>>}

ToolsetsKR ==
  {<<>>, <<Subagent(<<"s">>, C), Command(<<"t">>)>>, <<ToolsetRef(K)>>,
   <<Subagent(<<"s">>, Z)>>}

AgentsA ==
  {Agent(A, L, ts, js) : ts \in {<<>>, <<K>>, <<KR>>, <<K, KR>>, <<K, <<"k", "d">>>>},
                         js \in {<<>>, <<B, C>>, <<C, C>>}}
AgentsB ==
  {Agent(B, L, ts, js) : ts \in {<<>>, <<KR>>, <<<<"s">>>>}, js \in {<<>>, <<C>>}}
AgentsC ==
  {Agent(C, L, ts, js) : ts \in {<<>>, <<<<"k", "d">>>>}, js \in {<<>>, <<A>>, <<B>>}}

OpenAI(name) == Provider(name, "openai-compatible")
Ollama(name) == Provider(name, "ollama")
LLM(name, provider) == Model(name, provider, "llm")
Decision(name, provider) == Model(name, provider, "decision")

Sufficient ==
  Backends(<<OpenAI(P)>>, <<LLM(L, P), Decision(E, P)>>, <<Decider(D, E)>>)

\* Agents, tools and toolsets on backends that are in order.
Delegating ==
  {Config(Sufficient, t, <<Toolset(K, k), Toolset(KR, kr)>>, <<a, b, c>>, <<>>) :
     t \in Tools, k \in ToolsetsK, kr \in ToolsetsKR,
     a \in AgentsA, b \in AgentsB, c \in AgentsC}

\* Two agents, one of which calls a decider, on every kind of backend.
Equipped ==
  {Config(Backends(ps, ms, ds), <<DeciderEntry(D, D)>>, <<>>,
          <<Agent(A, L, <<D>>, <<>>), Agent(B, bm, <<>>, <<>>)>>, default) :
     ps \in {<<>>, <<OpenAI(P)>>, <<Ollama(P)>>, <<OpenAI(P), Ollama(Q)>>,
             <<Ollama(P), OpenAI(P)>>},
     ms \in {<<>>, <<LLM(L, P)>>, <<LLM(L, P), Decision(E, P)>>,
             <<LLM(L, Q), Decision(E, P)>>, <<LLM(L, P), Decision(E, Q)>>,
             <<LLM(L, P), Decision(L, P)>>},
     ds \in {<<>>, <<Decider(D, E)>>, <<Decider(D, L)>>, <<Decider(D, E), Decider(D, E)>>},
     bm \in {L, E, Z}, default \in {<<>>, A, Z}}

\* The agent the command runs is not there.
Unresolved == {Config(Sufficient, <<>>, <<>>, <<Agent(B, L, <<>>, <<>>)>>, <<>>)}

MCConfigs == Delegating \cup Equipped \cup Unresolved
=============================================================================

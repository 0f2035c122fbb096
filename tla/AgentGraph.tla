----------------------------- MODULE AgentGraph -----------------------------
(***************************************************************************)
(* The agents of a configuration and what they may call                     *)
(* (internal/config/config.go): toolsets expand into granted tools, every   *)
(* name lives in one reference space, and a configuration is accepted only  *)
(* when no agent can come to run itself.  A name is the sequence of the     *)
(* words its hyphens separate, so that joining a grant path with hyphens is *)
(* concatenation.                                                           *)
(***************************************************************************)
EXTENDS Naturals, SequencesExt

Name == Seq(STRING)

\* A tool entry; a reference to a toolset has no name of its own.
Entry(type, name, target) == [type |-> type, name |-> name, target |-> target]
Command(name) == Entry("command", name, <<>>)
Subagent(name, agent) == Entry("subagent", name, agent)
DeciderEntry(name, decider) == Entry("decider", name, decider)
ToolsetRef(toolset) == Entry("toolset", <<>>, toolset)

Provider(name, type) == [name |-> name, type |-> type]
Model(name, provider, type) == [name |-> name, provider |-> provider, type |-> type]
Decider(name, model) == [name |-> name, model |-> model]
Toolset(name, tools) == [name |-> name, tools |-> tools]
Agent(name, model, tools, judges) ==
  [name |-> name, model |-> model, tools |-> tools, judges |-> judges]

\* A configuration, every list in declaration order; <<>> for no default agent.
Config(backends, tools, toolsets, agents, default) ==
  [providers |-> backends.providers, models |-> backends.models,
   deciders |-> backends.deciders, tools |-> tools, toolsets |-> toolsets,
   agents |-> agents, default |-> default]
Backends(providers, models, deciders) ==
  [providers |-> providers, models |-> models, deciders |-> deciders]

(***************************************************************************)
(* The types of what is written in a configuration file.                    *)
(***************************************************************************)
Entries == [type : {"command", "subagent", "decider", "toolset"}, name : Name, target : Name]
Toolsets == [name : Name, tools : Seq(Entries)]
Agents == [name : Name, model : Name, tools : Seq(Name), judges : Seq(Name)]
WellTyped ==
  [providers : Seq([name : Name, type : STRING]),
   models : Seq([name : Name, provider : Name, type : STRING]),
   deciders : Seq([name : Name, model : Name]),
   tools : Seq(Entries), toolsets : Seq(Toolsets), agents : Seq(Agents), default : Name]
-----------------------------------------------------------------------------
Names(defs) == [i \in DOMAIN defs |-> defs[i].name]
Named(defs, n) == defs[CHOOSE i \in DOMAIN defs : defs[i].name = n]
Defines(defs, n) == n \in ToSet(Names(defs))

\* What the entries of a type refer to, in their order.
Targets(entries, type) ==
  FlattenSeq([i \in DOMAIN entries |->
    IF entries[i].type = type THEN <<entries[i].target>> ELSE <<>>])
-----------------------------------------------------------------------------
(***************************************************************************)
(* detectCycle: a depth-first walk that colours a node gray while it is on  *)
(* the path and black when it is done.                                      *)
(***************************************************************************)
Colorings(Nodes) == [Nodes -> {"white", "gray", "black"}]

\* mutant: the colours confused, a node that is done stands for a cycle
MeetsBlack(color, next) == color[next] = "black"
Meets(color, next) == color[next] = "gray"

\* The nodes of s one after the other; W is the walk of those below them.
Visit(W, edges, s, color) ==
  IF s = <<>> THEN [cycle |-> FALSE, color |-> color]
  ELSE LET n == Head(s)
           below == W[<<edges[n], [color EXCEPT ![n] = "gray"]>>]
           here == IF Meets(color, n) THEN [cycle |-> TRUE, color |-> color]
                   ELSE IF color[n] # "white" THEN [cycle |-> FALSE, color |-> color]
                   ELSE [below EXCEPT !.color = [@ EXCEPT ![n] = "black"]]
       IN  IF here.cycle THEN here ELSE W[<<Tail(s), here.color>>]

Walk(edges) ==
  LET W[x \in Seq(DOMAIN edges) \X Colorings(DOMAIN edges)] == Visit(W, edges, x[1], x[2])
  IN  W

DetectCycle(nodes, edges) ==
  Walk(edges)[<<nodes, [n \in DOMAIN edges |-> "white"]>>].cycle

ToolsetNames(c) == ToSet(Names(c.toolsets))

ToolsetEdges(c) ==
  [n \in ToolsetNames(c) |-> Targets(Named(c.toolsets, n).tools, "toolset")]
-----------------------------------------------------------------------------
(***************************************************************************)
(* Grants.                                                                  *)
(***************************************************************************)
\* What an entry of toolset n grants below a prefix; X expands a toolset.  A reference
\* to no toolset grants nothing.
GrantedBy(X, c, n, prefix, seen, e) ==
  IF e.type # "toolset" THEN <<[e EXCEPT !.name = prefix \o @]>>
  ELSE IF ~Defines(c.toolsets, e.target) THEN <<>>
  ELSE X[<<e.target, prefix \o e.target, seen \cup {n}>>]

\* A toolset that is being expanded grants nothing again.
Granting(X, c, n, prefix, seen) ==
  IF n \in seen THEN <<>>
  ELSE LET tools == Named(c.toolsets, n).tools
       IN  FlattenSeq([i \in DOMAIN tools |-> GrantedBy(X, c, n, prefix, seen, tools[i])])

\* expandToolset: the leaves of a toolset in declared order, named by the grant path.
Expand(c) ==
  LET X[x \in ToolsetNames(c) \X Name \X SUBSET ToolsetNames(c)] ==
        Granting(X, c, x[1], x[2], x[3])
  IN  X

Expansion(c, n) == Expand(c)[<<n, n, {}>>]

\* toolReferenceIndex: every name once, in the order it is added.
IndexKeys(c) ==
  LET OfToolset(ts) == <<ts.name>> \o Names(Expansion(c, ts.name))
  IN  Names(c.tools)
        \o FlattenSeq([i \in DOMAIN c.toolsets |-> OfToolset(c.toolsets[i])])

\* What a name of the index grants.
IndexEntries(c, n) ==
  IF Defines(c.tools, n) THEN <<Named(c.tools, n)>>
  ELSE IF Defines(c.toolsets, n) THEN Expansion(c, n)
  ELSE LET all == FlattenSeq([i \in DOMAIN c.toolsets |-> Expansion(c, c.toolsets[i].name)])
       IN  <<Named(all, n)>>

\* agentGrantedTools.
GrantedTools(c, a) ==
  FlattenSeq([i \in DOMAIN a.tools |-> IndexEntries(c, a.tools[i])])

SubagentEdges(c) ==                                              \* mutant
  [n \in ToSet(Names(c.agents)) |->
     Targets(GrantedTools(c, Named(c.agents, n)), "subagent")]
AgentEdges(c) ==
  [n \in ToSet(Names(c.agents)) |->
     LET a == Named(c.agents, n)
     IN  Targets(GrantedTools(c, a), "subagent") \o a.judges]
-----------------------------------------------------------------------------
(***************************************************************************)
(* Validate, as far as one definition depends on another; the checks run in *)
(* this order and the first that fails rejects the configuration.           *)
(***************************************************************************)
AllEntries(c) ==
  c.tools \o FlattenSeq([i \in DOMAIN c.toolsets |-> c.toolsets[i].tools])

UniqueNames(defs) == IsInjective(Names(defs))

HasModel(c, n, type) == Defines(c.models, n) /\ Named(c.models, n).type = type

\* A decision model needs a chat-completions provider.
ValidateModel(c, m) ==
  /\ Defines(c.providers, m.provider)
  /\ m.type = "decision" => Named(c.providers, m.provider).type = "openai-compatible"

ValidateDecider(c, d) == HasModel(c, d.model, "decision")

ValidateBackends(c) ==
  /\ c.providers # <<>> /\ UniqueNames(c.providers)
  /\ c.models # <<>> /\ \A i \in DOMAIN c.models : ValidateModel(c, c.models[i])
  /\ UniqueNames(c.models)
  /\ \A i \in DOMAIN c.deciders : ValidateDecider(c, c.deciders[i])
  /\ UniqueNames(c.deciders)

\* Top-level entries are no references.
ValidateToolsetRefs(c) ==
  \A i \in DOMAIN c.toolsets : \A t \in ToSet(Targets(c.toolsets[i].tools, "toolset")) :
    Defines(c.toolsets, t)

ValidateToolsets(c) ==
  /\ UniqueNames(c.tools) /\ \A i \in DOMAIN c.tools : c.tools[i].type # "toolset"
  /\ UniqueNames(c.toolsets)
  /\ ValidateToolsetRefs(c)
  /\ ~DetectCycle(Names(c.toolsets), ToolsetEdges(c))
  /\ IsInjective(IndexKeys(c))

ValidateAgent(c, a) ==
  /\ HasModel(c, a.model, "llm")
  /\ \A i \in DOMAIN a.tools : a.tools[i] \in ToSet(IndexKeys(c))
  /\ IsInjective(a.judges)
  /\ IsInjective(Names(GrantedTools(c, a)))

ValidateRefs(c) ==
  /\ \A t \in ToSet(Targets(AllEntries(c), "subagent")) : Defines(c.agents, t)
  /\ \A t \in ToSet(Targets(AllEntries(c), "decider")) : Defines(c.deciders, t)
  /\ \A i \in DOMAIN c.agents : \A j \in ToSet(c.agents[i].judges) : Defines(c.agents, j)

Validate(c) ==
  /\ ValidateBackends(c)
  /\ c.agents # <<>>
  /\ ValidateToolsets(c)
  /\ \A i \in DOMAIN c.agents : ValidateAgent(c, c.agents[i])
  /\ UniqueNames(c.agents)
  /\ c.default # <<>> => Defines(c.agents, c.default)
  /\ ValidateRefs(c)
  /\ ~DetectCycle(Names(c.agents), AgentEdges(c))
=============================================================================

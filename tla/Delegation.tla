----------------------------- MODULE Delegation -----------------------------
(***************************************************************************)
(* Agents that run agents (internal/engine subagent.go, decider.go,         *)
(* judge.go; internal/run/run.go for the turn and its judge phase): a       *)
(* loaded configuration, the turn of its root agent, the subagents and      *)
(* deciders the running agent calls, and the judges that review the turn    *)
(* and one another.  Each agent's run is the engine's loop cut down to what *)
(* delegation adds: an LLM call ends with one tool call or with none.       *)
(***************************************************************************)
EXTENDS AgentGraph, FiniteSets

CONSTANTS Configs,      \* the configurations a user may have written
          Root,         \* the agent the command runs
          MaxTurns      \* max_turns of every agent

ASSUME DelegationAssumption ==
  /\ MaxTurns \in Nat \ {0}
  /\ Configs \subseteq WellTyped /\ Root \in Name

VARIABLES config,       \* the configuration as loaded
          agents,       \* per agent: what it is granted, and its judges
          pc,           \* "load", "rejected", "turn", "judges" or "over"
          stack,        \* the agents that are running, outermost first
          todo,         \* the judges still to run, the next one first
          outcomes,     \* of the judges so far
          judgeError,   \* a judge failed to run
          unheard,      \* completed LLM calls whose usage no callback received
          cancelled     \* the context is done

vars == <<config, agents, pc, stack, todo, outcomes, judgeError, unheard, cancelled>>

NoConfig == Config(Backends(<<>>, <<>>, <<>>), <<>>, <<>>, <<>>, <<>>)
NoAgents == <<>>

Init ==
  /\ config \in Configs /\ agents = NoAgents
  /\ pc = "load" /\ stack = <<>> /\ todo = <<>> /\ outcomes = <<>>
  /\ judgeError = FALSE /\ unheard = {} /\ cancelled = FALSE
-----------------------------------------------------------------------------
Link(kind, agent) == [kind |-> kind, agent |-> agent]

\* One agent's run: the links that lead to it, whether its events reach the account,
\* its LLM calls so far and what it waits for.
Run(path, heard) == [path |-> path, heard |-> heard, calls |-> 0, does |-> "calls"]

Top == Last(stack)
Running(does) == stack # <<>> /\ Top.does = does
Does(what) == stack' = [stack EXCEPT ![Len(stack)].does = what]

JudgeLinks(path) == Cardinality({i \in DOMAIN path : path[i].kind = "judge"})

\* The judges of the agent at the end of path, in its listed order.
JudgesOf(path) ==
  LET js == agents[Last(path).agent].judges
  IN  [i \in DOMAIN js |-> Append(path, Link("judge", js[i]))]

\* NewRegistry: every entry becomes the tool its type asks for.
Registry(entries) ==
  [subagents |-> ToSet(Targets(entries, "subagent")),
   deciders |-> ToSet(Targets(entries, "decider"))]

\* Load and Validate, resolveAgent, then the turn of the root agent.  What an agent is granted
\* no longer changes; the configuration itself is not looked at again.
Load ==
  /\ pc = "load"
  /\ config' = NoConfig
  /\ IF Validate(config) /\ Defines(config.agents, Root)
       THEN /\ agents' = [n \in ToSet(Names(config.agents)) |->
                 LET a == Named(config.agents, n)
                 IN  [registry |-> Registry(GrantedTools(config, a)), judges |-> a.judges]]
            /\ pc' = "turn" /\ stack' = <<Run(<<Link("turn", Root)>>, TRUE)>>
       ELSE pc' = "rejected" /\ UNCHANGED <<agents, stack>>
  /\ UNCHANGED <<todo, outcomes, judgeError, unheard, cancelled>>

Interrupt ==
  /\ pc \in {"turn", "judges"} /\ ~cancelled
  /\ cancelled' = TRUE
  /\ UNCHANGED <<config, agents, pc, stack, todo, outcomes, judgeError, unheard>>
-----------------------------------------------------------------------------
RelayedByTurn(run) == Last(run.path).kind = "turn"              \* mutant
\* WithSubagentEvents: a turn's and a subagent's registry relay what a tool's agent
\* reports, a judge's registry has no callback.
RelayedBy(run) == run.heard /\ Last(run.path).kind # "judge"

Spend(heard, path) == unheard' = IF heard THEN unheard ELSE unheard \cup {path}

\* The engine's call: its usage goes to collect before the response is looked at.  A
\* response calls a tool, is the final answer, or is one the engine refuses.
LLMCall ==
  /\ Running("calls") /\ Top.calls < MaxTurns /\ ~cancelled
  /\ \E does \in {"tool", "ok", "error"} :
       stack' = [stack EXCEPT ![Len(stack)].does = does, ![Len(stack)].calls = @ + 1]
  /\ Spend(Top.heard, Top.path)
  /\ UNCHANGED <<config, agents, pc, todo, outcomes, judgeError, cancelled>>

\* No client, no registry, an API error, a cancelled context, or max_turns reached.
LLMCallFails ==
  /\ Running("calls")
  /\ Does("error")
  /\ UNCHANGED <<config, agents, pc, todo, outcomes, judgeError, unheard, cancelled>>

CallSubagent ==
  /\ Running("tool")
  /\ \E a \in agents[Last(Top.path).agent].registry.subagents :
       stack' = Append([stack EXCEPT ![Len(stack)].does = "calls"],
                       Run(Append(Top.path, Link("subagent", a)), RelayedBy(Top)))
  /\ UNCHANGED <<config, agents, pc, todo, outcomes, judgeError, unheard, cancelled>>

\* RunDecider and the decider tool's own events.  An error leaves no usage; neither does a
\* call that was answered when the context, done by an interrupt or at the tool's time
\* limit, is looked at after it: its link says so.  The calling agent goes on either way.
CallDecider ==
  /\ Running("tool")
  /\ \E d \in agents[Last(Top.path).agent].registry.deciders :
       \/ /\ ~cancelled
          /\ Spend(RelayedBy(Top), Append(Top.path, Link("decider", d)))
       \/ Spend(FALSE, Append(Top.path, Link("decider cut off", d)))
       \/ UNCHANGED unheard
  /\ Does("calls")
  /\ UNCHANGED <<config, agents, pc, todo, outcomes, judgeError, cancelled>>

CallTool ==
  /\ Running("tool")
  /\ Does("calls")
  /\ UNCHANGED <<config, agents, pc, todo, outcomes, judgeError, unheard, cancelled>>

Ended == Running("ok") \/ Running("error")

\* A subagent's failure is its caller's tool result, a cancelled context a failed one.
SubagentEnds ==
  /\ Ended /\ Last(Top.path).kind = "subagent"
  /\ stack' = Front(stack)
  /\ UNCHANGED <<config, agents, pc, todo, outcomes, judgeError, unheard, cancelled>>
-----------------------------------------------------------------------------
\* The judges review failed turns too; a done context skips them.
TurnEnds ==
  /\ Ended /\ Last(Top.path).kind = "turn"
  /\ stack' = <<>>
  /\ todo' = IF cancelled THEN <<>> ELSE JudgesOf(Top.path)
  /\ pc' = "judges"
  /\ UNCHANGED <<config, agents, outcomes, judgeError, unheard, cancelled>>

JudgeStarts ==
  /\ pc = "judges" /\ stack = <<>> /\ todo # <<>>
  /\ stack' = <<Run(Head(todo), TRUE)>>
  /\ todo' = Tail(todo)
  /\ UNCHANGED <<config, agents, pc, outcomes, judgeError, unheard, cancelled>>

JudgedLast(path) == todo \o JudgesOf(path)                      \* mutant
\* runChain: a judge's own judges run right after it, before the ones listed next to it.
JudgedFirst(path) == JudgesOf(path) \o todo

Outcome(path) ==
  [judge |-> Last(path).agent, of |-> path[Len(path) - 1].agent,
   depth |-> JudgeLinks(path) - 1]

\* RunJudges returns nil outcomes with an error.
JudgeEnds ==
  /\ Ended /\ Last(Top.path).kind = "judge"
  /\ stack' = <<>>
  /\ IF Running("ok") /\ ~cancelled
       THEN /\ outcomes' = Append(outcomes, Outcome(Top.path))
            /\ todo' = JudgedFirst(Top.path)
            /\ UNCHANGED judgeError
       ELSE outcomes' = <<>> /\ todo' = <<>> /\ judgeError' = TRUE
  /\ UNCHANGED <<config, agents, pc, unheard, cancelled>>

Finish ==
  /\ pc = "judges" /\ stack = <<>> /\ todo = <<>>
  /\ pc' = "over"
  /\ UNCHANGED <<config, agents, stack, todo, outcomes, judgeError, unheard, cancelled>>

Step ==
  \/ Load \/ LLMCall \/ LLMCallFails \/ CallSubagent \/ CallDecider \/ CallTool
  \/ SubagentEnds \/ TurnEnds \/ JudgeStarts \/ JudgeEnds \/ Finish

Next == Step \/ Interrupt

Spec == Init /\ [][Next]_vars
-----------------------------------------------------------------------------
(***************************************************************************)
(* What makes a configuration sound, said without walking it in any order:  *)
(* a grant is a chain of toolset references that ends at a leaf, and an     *)
(* agent delegates to what the leaves it is granted and its judges name.    *)
(***************************************************************************)
Positions(c) ==
  UNION {{i} \X DOMAIN c.toolsets[i].tools : i \in DOMAIN c.toolsets}
EntryAt(c, p) == c.toolsets[p[1]].tools[p[2]]

Chains(c) ==
  {ch \in UNION {[1 .. n -> Positions(c)] : n \in 1 .. Len(c.toolsets)} :
     \A k \in DOMAIN ch :
       IF k = Len(ch) THEN EntryAt(c, ch[k]).type # "toolset"
       ELSE /\ EntryAt(c, ch[k]).type = "toolset"
            /\ EntryAt(c, ch[k]).target = c.toolsets[ch[k + 1][1]].name}

ChainName(c, ch) ==
  FlattenSeq([k \in DOMAIN ch |-> c.toolsets[ch[k][1]].name]) \o EntryAt(c, Last(ch)).name

Granted(c, ch) == [EntryAt(c, Last(ch)) EXCEPT !.name = ChainName(c, ch)]

\* Everything an agent's list can name: where it is defined, its name, the leaves it
\* grants.
ToolReference(c, i) == <<"tool", i, c.tools[i].name, {c.tools[i]}>>
ToolsetReference(c, i) ==
  <<"toolset", i, c.toolsets[i].name,
    {Granted(c, ch) : ch \in {x \in Chains(c) : x[1][1] = i}}>>
MemberReference(c, ch) == <<"member", ch, ChainName(c, ch), {Granted(c, ch)}>>

References(c) ==
  {ToolReference(c, i) : i \in DOMAIN c.tools}
    \cup {ToolsetReference(c, i) : i \in DOMAIN c.toolsets}
    \cup {MemberReference(c, ch) : ch \in Chains(c)}

LeavesOf(c, n) == UNION {r[4] : r \in {x \in References(c) : x[3] = n}}

\* Who may run whom, and which toolset holds which.
Delegates(c) ==
  {e \in ToSet(Names(c.agents)) \X ToSet(Names(c.agents)) :
     \E i \in DOMAIN c.agents :
       /\ c.agents[i].name = e[1]
       /\ \/ e[2] \in ToSet(c.agents[i].judges)
          \/ \E n \in ToSet(c.agents[i].tools) : \E t \in LeavesOf(c, n) :
               t.type = "subagent" /\ t.target = e[2]}
Refers(c) ==
  {e \in ToolsetNames(c) \X ToolsetNames(c) :
     \E p \in Positions(c) : /\ c.toolsets[p[1]].name = e[1]
                             /\ EntryAt(c, p).type = "toolset" /\ EntryAt(c, p).target = e[2]}

\* A way leads back when some nodes each lead to one of them.
Loops(R, S) == \E T \in SUBSET S : T # {} /\ \A n \in T : \E m \in T : <<n, m>> \in R

Distinct(s) == Cardinality(ToSet(s)) = Len(s)
Types(defs, n) == {d.type : d \in {x \in ToSet(defs) : x.name = n}}

BackendsSound(c) ==
  /\ Distinct(Names(c.providers)) /\ Distinct(Names(c.models)) /\ Distinct(Names(c.deciders))
  /\ \A m \in ToSet(c.models) : \E type \in Types(c.providers, m.provider) :
       m.type = "decision" => type = "openai-compatible"
  /\ \A d \in ToSet(c.deciders) : Types(c.models, d.model) = {"decision"}

\* What an entry names is there; a reference to a toolset stands in a toolset.
EntriesSound(c) ==
  /\ \A t \in ToSet(c.tools) : t.type # "toolset"
  /\ \A t \in ToSet(c.tools) \cup {EntryAt(c, p) : p \in Positions(c)} :
       /\ t.type = "toolset" => t.target \in ToolsetNames(c)
       /\ t.type = "subagent" => t.target \in ToSet(Names(c.agents))
       /\ t.type = "decider" => t.target \in ToSet(Names(c.deciders))
  /\ ~Loops(Refers(c), ToolsetNames(c))
  /\ \A r, s \in References(c) : r[3] = s[3] => r = s

LeafNames(c, n) == {t.name : t \in LeavesOf(c, n)}

AgentSound(c, a) ==
  /\ Types(c.models, a.model) = {"llm"}
  /\ ToSet(a.judges) \subseteq ToSet(Names(c.agents)) /\ Distinct(a.judges)
  /\ ToSet(a.tools) \subseteq {r[3] : r \in References(c)}
  /\ \A i, j \in DOMAIN a.tools :
       i # j => LeafNames(c, a.tools[i]) \cap LeafNames(c, a.tools[j]) = {}

Sound(c) ==
  /\ BackendsSound(c) /\ EntriesSound(c)
  /\ c.agents # <<>> /\ Distinct(Names(c.agents))
  /\ \A a \in ToSet(c.agents) : AgentSound(c, a)
  /\ c.default # <<>> => c.default \in ToSet(Names(c.agents))
  /\ ~Loops(Delegates(c), ToSet(Names(c.agents)))

\* Validate accepts a configuration exactly when it is sound: names of tools, toolsets
\* and grants never collide, whatever hyphens they are joined from, everything named is
\* defined and of the kind it is named for, and no chain of tools, toolsets and judges
\* leads back (config.go Validate).
ConfigSound == pc = "load" => (Validate(config) <=> Sound(config))

\* No agent ever runs below itself, as a subagent or as a judge of what it did, so
\* runs nest at most as deep as there are agents (config.go validateAgentCycles; the
\* runners have no limit of their own).
NoSelfDelegation ==
  \A i \in DOMAIN stack : \A j, k \in DOMAIN stack[i].path :
    j # k => stack[i].path[j].agent # stack[i].path[k].agent

\* The usage of every completed call reaches the account, with two exceptions: what a
\* judge's own subagents and deciders spend, and a decider's call whose context was done
\* by the time RunDecider looked at it (subagent.go collect, decider.go, judge.go runJudge).
BelowJudge(p) == \E i \in DOMAIN p : p[i].kind = "judge" /\ i < Len(p)
CutOff(p) == Last(p).kind = "decider cut off"
UsageHeard == \A p \in unheard : BelowJudge(p) \/ CutOff(p)

\* The outcomes of a judge phase that ended well are every judge's, its own judges'
\* right behind it, in the order the configuration lists them; a judge that failed or
\* was interrupted takes all outcomes with it (judge.go RunJudges, runChain).
Paths == {p \in Seq([kind : {"turn", "judge", "subagent"}, agent : DOMAIN agents]) : p # <<>>}

Reviews(J, paths) == FlattenSeq([i \in DOMAIN paths |-> <<Outcome(paths[i])>> \o J[paths[i]]])

Judgements == LET J[path \in Paths] == Reviews(J, JudgesOf(path)) IN J

OutcomesInOrder ==
  pc = "over" => outcomes = IF judgeError \/ (cancelled /\ outcomes = <<>>) THEN <<>>
                            ELSE Judgements[<<Link("turn", Root)>>]
=============================================================================

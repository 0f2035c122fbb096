---------------------------- MODULE Conversation ----------------------------
(***************************************************************************)
(* What an agent's conversation promises its frontends: a turn either       *)
(* appends one complete exchange or leaves no trace, and whatever is        *)
(* committed is acceptable to the provider of the next request.             *)
(***************************************************************************)
EXTENDS Messages, SequencesExt

VARIABLES convo,   \* the committed messages
          phase    \* "idle", or "turn" while one runs

convars == <<convo, phase>>

Init == convo = <<>> /\ phase = "idle"

\* The messages one turn adds: its user message, then tool rounds, then the answer.
CompleteExchange(t) ==
  /\ Len(t) >= 2
  /\ t[1].role = "user"
  /\ t[Len(t)].role = "assistant" /\ t[Len(t)].calls = <<>>
  /\ \A i \in 2..Len(t) : t[i].role # "user"
  /\ WellFormed(t)

Begin == phase = "idle" /\ phase' = "turn" /\ UNCHANGED convo

Commit ==
  /\ phase = "turn"
  /\ phase' = "idle"
  /\ IsPrefix(convo, convo')
  /\ CompleteExchange(SubSeq(convo', Len(convo) + 1, Len(convo')))

Abort == phase = "turn" /\ phase' = "idle" /\ UNCHANGED convo

\* A frontend that holds prior context replaces the conversation with it.
Resume ==
  /\ phase = "idle"
  /\ \A i \in DOMAIN convo' : convo'[i].role # "tool" /\ convo'[i].calls = <<>>
  /\ UNCHANGED phase

Next == Begin \/ Commit \/ Abort \/ Resume

Spec == Init /\ [][Next]_convars
=============================================================================

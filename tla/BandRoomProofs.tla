--------------------------- MODULE BandRoomProofs ---------------------------
(***************************************************************************)
(* Theorems about BandRoom, for every number of messages, pushes, marks and  *)
(* processes and every set of faults.  They follow a message from the queue  *)
(* to its last mark: what the process remembers of it, what it has marked,    *)
(* and what the platform shows while the worker stands at each label.         *)
(***************************************************************************)
EXTENDS BandRoom, SequenceTheorems, TLAPS

USE BandRoomAssumption

Statuses == {"absent", "queued", "processing", "processed", "failed", "gone"}
Labels == {"idle", "claim", "seed", "begin", "untraced", "turn", "ended", "settle",
           "answered", "judging", "stopped"}
MarkNames == {"processing", "processed", "failed"}

\* The worker has claimed its message and not settled it yet.
Claimed == pc \in {"seed", "begin", "untraced", "turn", "ended", "settle", "answered"}

Typed ==
  /\ status \in [Messages -> Statuses]
  /\ result \in [Messages -> {"none", "nil", "error", "cancelled", "terminated"}]
  /\ marks \in [Messages -> Seq(MarkNames)]
  /\ seenQ \in Seq(Messages)
  /\ pc \in Labels /\ cur \in Messages \cup {0}
  /\ turnErr \in {"none", "error", "terminated"}

\* The message in hand is the one remembered last.
InHand ==
  /\ cur = 0 <=> pc \in {"idle", "stopped"}
  /\ cur # 0 => Len(seenQ) > 0 /\ seenQ[Len(seenQ)] = cur

Protocol == {<<>>, <<"processing">>, <<"processing", "processed">>, <<"processing", "failed">>}

MarksAt(l) ==
  IF l = "claim" THEN {<<>>} ELSE IF l = "judging" THEN Protocol ELSE {<<"processing">>}

Marked ==
  /\ \A m \in Messages : m \notin Seen /\ m \notin evicted => marks[m] = <<>>
  /\ \A m \in Messages : m \notin evicted =>
       marks[m] \in (IF m = cur THEN MarksAt(pc) ELSE Protocol)

\* What the platform shows of the message in hand.
Shown ==
  /\ Claimed => status[cur] = "processing"
  /\ pc = "untraced" => turnErr # "none"
  /\ pc = "answered" => turnErr = "none"
  /\ pc = "judging" => turnErr # "terminated"
  /\ pc = "judging" /\ turnErr = "none" => status[cur] = "processed"
  /\ pc = "judging" /\ turnErr = "error" /\ cur \notin troubled => status[cur] = "failed"

Answers ==
  /\ sentThisTurn /\ pc \in {"turn", "ended", "settle"} => cur \in replied
  /\ pc \in {"answered", "judging"} /\ turnErr = "none" /\ final /\ cur \notin troubled =>
       cur \in replied

IInv == Typed /\ InHand /\ Marked /\ Shown /\ PlatformTold /\ Answers
-----------------------------------------------------------------------------
LEMMA Pair ==
  ASSUME NEW S, NEW a \in S, NEW b \in S
  PROVE  Append(<<a>>, b) = <<a, b>>
<1>1. <<a>> \in Seq(S) /\ <<a, b>> \in Seq(S) /\ Append(<<a>>, b) \in Seq(S)
  OBVIOUS
<1>2. /\ Len(Append(<<a>>, b)) = 2 /\ Len(<<a, b>>) = 2
      /\ \A i \in 1..2 : Append(<<a>>, b)[i] = <<a, b>>[i]
  BY <1>1
<1> QED BY <1>1, <1>2, SeqEqual

LEMMA Marks ==
  /\ Append(<<>>, "processing") = <<"processing">>
  /\ Append(<<"processing">>, "processed") = <<"processing", "processed">>
  /\ Append(<<"processing">>, "failed") = <<"processing", "failed">>
  /\ \A q \in Protocol : q \in Seq(MarkNames)
<1>1. {"processing", "processed", "failed"} = MarkNames
  BY DEF MarkNames
<1>2. Append(<<>>, "processing") = <<"processing">>
  OBVIOUS
<1>3. /\ Append(<<"processing">>, "processed") = <<"processing", "processed">>
      /\ Append(<<"processing">>, "failed") = <<"processing", "failed">>
  BY <1>1, Pair
<1>4. /\ <<>> \in Seq(MarkNames) /\ <<"processing">> \in Seq(MarkNames)
      /\ <<"processing", "processed">> \in Seq(MarkNames)
      /\ <<"processing", "failed">> \in Seq(MarkNames)
  BY <1>1
<1> QED BY <1>2, <1>3, <1>4 DEF Protocol

LEMMA InitIInv ==
  ASSUME Init
  PROVE  IInv
<1>1. /\ status = [m \in Messages |-> "absent"] /\ result = [m \in Messages |-> "none"]
      /\ marks = [m \in Messages |-> <<>>] /\ seenQ = <<>> /\ pc = "idle" /\ cur = 0
      /\ turnErr = "none"
  BY DEF Init, NewProcess
<1>2. <<>> \in Seq(MarkNames) /\ <<>> \in Seq(Messages) /\ 0 \notin Messages
  BY DEF Messages
<1>3. Typed /\ InHand
  BY <1>1, <1>2 DEF Typed, InHand, Statuses, Labels
<1>4. Marked /\ Shown /\ PlatformTold /\ Answers
  BY <1>1, <1>2 DEF Marked, Protocol, Shown, PlatformTold, Answers, Claimed
<1> QED BY <1>3, <1>4 DEF IInv

\* What a step that leaves the worker and its messages alone does not disturb.
LEMMA Framed ==
  ASSUME IInv,
         UNCHANGED <<result, marks, seenQ, evicted, pc, cur, turnErr, sentThisTurn, final,
                     replied, troubled>>,
         status' \in [Messages -> Statuses],
         \A m \in Messages : status[m] \notin {"absent", "queued"} => status'[m] = status[m]
  PROVE  IInv'
<1>1. Typed' /\ InHand' /\ Marked' /\ Answers'
  BY DEF IInv, Typed, InHand, Marked, Answers, Seen
<1>2. cur # 0 => cur \in Messages
  BY DEF IInv, Typed
<1>3. Shown'
  BY <1>2 DEF IInv, Shown, Claimed, InHand, Typed, Labels
<1>4. PlatformTold'
  BY DEF IInv, PlatformTold
<1> QED BY <1>1, <1>3, <1>4 DEF IInv

LEMMA OutsideStep ==
  ASSUME IInv,
         \/ \E m \in Messages : Post(m) \/ Withdraw(m) \/ Drain(m) \/ Push(m) \/ PushLost(m)
         \/ DrainEnds \/ DrainFails \/ Reconnect \/ Stop \/ UNCHANGED vars
  PROVE  IInv'
<1>1. UNCHANGED <<result, marks, seenQ, evicted, pc, cur, turnErr, sentThisTurn, final,
                  replied, troubled>>
  BY DEF Post, Withdraw, Platform, Drain, Push, PushLost, DrainEnds, DrainFails, Reconnect, Stop,
     vars, turn, dedup, troubles
<1>2. status \in [Messages -> Statuses]
  BY DEF IInv, Typed
<1>3. CASE UNCHANGED status
  BY <1>1, <1>2, <1>3, Framed
<1>4. ASSUME NEW m \in Messages, NEW to \in {"queued", "gone"},
             status[m] \in {"absent", "queued"}, status' = [status EXCEPT ![m] = to]
      PROVE  IInv'
  <2>1. /\ status' \in [Messages -> Statuses]
        /\ \A k \in Messages : status[k] \notin {"absent", "queued"} => status'[k] = status[k]
    BY <1>2, <1>4 DEF Statuses
  <2> QED BY <1>1, <2>1, Framed
<1>5. \/ UNCHANGED status
      \/ \E m \in Messages, to \in {"queued", "gone"} :
           status[m] \in {"absent", "queued"} /\ status' = [status EXCEPT ![m] = to]
  BY DEF Post, Withdraw, Platform, Drain, Push, PushLost, DrainEnds, DrainFails, Reconnect, Stop,
     vars, platform
<1> QED BY <1>3, <1>4, <1>5
-----------------------------------------------------------------------------
\* Remembering an id appends it and forgets at most the oldest one.
LEMMA Remembering ==
  ASSUME NEW q \in Seq(Messages), NEW m \in Messages
  PROVE  /\ Remember(q, m) \in Seq(Messages) /\ Len(q) \in Nat
         /\ Len(Remember(q, m)) > 0 /\ Remember(q, m)[Len(Remember(q, m))] = m
         /\ \/ /\ Len(q) + 1 <= SeenLimit /\ Len(Remember(q, m)) = Len(q) + 1
               /\ \A i \in 1..Len(q) : Remember(q, m)[i] = q[i]
               /\ Forgotten(q, m) = {}
            \/ /\ Len(q) + 1 > SeenLimit /\ Len(Remember(q, m)) = Len(q) /\ Len(q) >= 1
               /\ \A i \in 2..Len(q) : Remember(q, m)[i - 1] = q[i]
               /\ Forgotten(q, m) = {q[1]}
<1> DEFINE longer == Append(q, m)
<1>1. /\ longer \in Seq(Messages) /\ Len(q) \in Nat /\ Len(longer) = Len(q) + 1
      /\ \A i \in 1..Len(q) : longer[i] = q[i]
      /\ longer[Len(q) + 1] = m
  OBVIOUS
<1>2. /\ Remember(q, m) = (IF Len(longer) > SeenLimit THEN Tail(longer) ELSE longer)
      /\ Forgotten(q, m) = (IF Len(q) + 1 > SeenLimit THEN {longer[1]} ELSE {})
  BY DEF Remember, Forgotten
<1> HIDE DEF longer
<1>3. CASE Len(q) + 1 <= SeenLimit
  BY <1>1, <1>2, <1>3
<1>4. CASE Len(q) + 1 > SeenLimit
  <2>1. Len(q) >= 1 /\ longer # <<>>
    BY <1>1, <1>4
  <2>2. /\ Tail(longer) \in Seq(Messages) /\ Len(Tail(longer)) = Len(q)
        /\ \A i \in 1..Len(q) : Tail(longer)[i] = longer[i + 1]
    BY <1>1, <2>1
  <2>3. \A i \in 2..Len(q) : Tail(longer)[i - 1] = q[i]
    <3>1. ASSUME NEW i \in 2..Len(q)
          PROVE  Tail(longer)[i - 1] = q[i]
      <4>1. i - 1 \in 1..Len(q) /\ (i - 1) + 1 = i /\ i \in 1..Len(q)
        BY <1>1
      <4> QED BY <1>1, <2>2, <4>1
    <3> QED BY <3>1
  <2>4. Tail(longer)[Len(q)] = m /\ longer[1] = q[1]
    BY <1>1, <2>1, <2>2
  <2> QED BY <1>1, <1>2, <1>4, <2>1, <2>2, <2>3, <2>4
<1> QED BY <1>1, <1>3, <1>4

LEMMA SeenGrows ==
  ASSUME NEW m \in Messages, seenQ \in Seq(Messages), seenQ' = Remember(seenQ, m),
         evicted' = evicted \cup Forgotten(seenQ, m)
  PROVE  \A k \in Messages : k \notin Seen' /\ k \notin evicted' =>
           k # m /\ k \notin Seen /\ k \notin evicted
<1> DEFINE q == seenQ
           r == Remember(q, m)
<1>0. q \in Seq(Messages)
  OBVIOUS
<1> HIDE DEF q
<1>1. /\ r \in Seq(Messages) /\ Len(q) \in Nat
      /\ Len(r) > 0 /\ r[Len(r)] = m
      /\ \/ /\ Len(r) = Len(q) + 1
            /\ \A i \in 1..Len(q) : r[i] = q[i]
         \/ /\ Len(r) = Len(q) /\ Len(q) >= 1
            /\ \A i \in 2..Len(q) : r[i - 1] = q[i]
            /\ Forgotten(q, m) = {q[1]}
  BY <1>0, Remembering
<1> HIDE DEF r
<1>2. /\ Seen = {q[i] : i \in 1..Len(q)}
      /\ Seen' = {r[i] : i \in 1..Len(r)}
      /\ evicted' = evicted \cup Forgotten(q, m)
  BY DEF Seen, q, r
<1>3. Len(r) \in 1..Len(r)
  BY <1>1
<1>4. ASSUME NEW i \in 1..Len(q)
      PROVE  q[i] \in Seen' \cup evicted'
  <2>1. CASE Len(r) = Len(q) + 1 /\ \A j \in 1..Len(q) : r[j] = q[j]
    <3>1. i \in 1..Len(r) /\ r[i] = q[i]
      BY <1>1, <2>1
    <3> QED BY <1>2, <3>1
  <2>2. CASE /\ Len(r) = Len(q) /\ Len(q) >= 1
             /\ \A j \in 2..Len(q) : r[j - 1] = q[j]
             /\ Forgotten(q, m) = {q[1]}
    <3>1. CASE i = 1
      BY <1>2, <2>2, <3>1
    <3>2. CASE i # 1
      <4>1. i \in 2..Len(q) /\ i - 1 \in 1..Len(r)
        BY <1>1, <2>2, <3>2
      <4>2. r[i - 1] = q[i]
        BY <2>2, <4>1
      <4> QED BY <1>2, <4>1, <4>2
    <3> QED BY <3>1, <3>2
  <2> QED BY <1>1, <2>1, <2>2
<1> QED BY <1>1, <1>2, <1>3, <1>4

LEMMA TakeStep ==
  ASSUME IInv, Take, msgs \in Seq(Messages)
  PROVE  IInv'
<1>1. /\ pc = "idle" /\ msgs # <<>> /\ Head(msgs) \in Messages
      /\ UNCHANGED <<status, result, marks, sentThisTurn, turnErr, final, replied, troubled>>
  BY DEF Take, platform, turn, troubles
<1>2. CASE UNCHANGED <<pc, cur, dedup>>
  BY <1>1, <1>2, Framed DEF dedup, IInv, Typed
<1>3. ASSUME NEW m \in Messages, m \notin Seen, pc' = "claim", cur' = m,
             seenQ' = Remember(seenQ, m), evicted' = evicted \cup Forgotten(seenQ, m)
      PROVE  IInv'
  <2>1. Typed /\ seenQ \in Seq(Messages) /\ cur = 0 /\ m # 0
    BY <1>1 DEF IInv, InHand, Typed, Messages
  <2>2. /\ seenQ' \in Seq(Messages)
        /\ Len(seenQ') > 0 /\ seenQ'[Len(seenQ')] = m
    BY <1>3, <2>1, Remembering
  <2>3. \A k \in Messages : k \notin Seen' /\ k \notin evicted' =>
          k # m /\ k \notin Seen /\ k \notin evicted
    BY <1>3, <2>1, SeenGrows
  <2>4. Typed' /\ InHand'
    BY <1>1, <1>3, <2>1, <2>2 DEF Typed, InHand, Labels
  <2>5. Marked'
    <3>1. \A k \in Messages : k \notin evicted' => k \notin evicted
      BY <1>3
    <3>2. m \notin evicted => marks[m] = <<>>
      BY <1>3 DEF IInv, Marked
    <3>3. \A k \in Messages : k \notin evicted => marks[k] \in Protocol
      BY <2>1 DEF IInv, Marked, Messages
    <3> QED BY <1>1, <1>3, <2>1, <2>3, <3>1, <3>2, <3>3 DEF IInv, Marked, MarksAt
  <2>6. Shown' /\ Answers'
    BY <1>1, <1>3, <2>1 DEF Shown, Answers, Claimed
  <2>7. PlatformTold'
    <3>1. \A k \in Messages : k # cur
      BY <2>1 DEF Messages
    <3> QED BY <1>1, <1>3, <3>1 DEF IInv, PlatformTold
  <2> QED BY <2>4, <2>5, <2>6, <2>7 DEF IInv
<1> QED BY <1>1, <1>2, <1>3 DEF Take, AlreadySeen
-----------------------------------------------------------------------------
\* A step of Handle changes the statuses and marks of the message in hand alone.
InHandOnly ==
  /\ status' \in [Messages -> Statuses] /\ marks' \in [Messages -> Seq(MarkNames)]
  /\ \A k \in Messages \ {cur} :
       /\ status'[k] = status[k] /\ marks'[k] = marks[k]
       /\ k \in troubled' <=> k \in troubled
  /\ UNCHANGED <<seenQ, evicted>>

LEMMA Unmarked ==
  ASSUME IInv, UNCHANGED <<status, marks, seenQ, evicted>>,
         \A k \in Messages \ {cur} : k \in troubled' <=> k \in troubled
  PROVE  InHandOnly
BY DEF IInv, Typed, InHandOnly

LEMMA MarkStep ==
  ASSUME IInv, cur \in Messages, NEW new \in MarkNames, NEW r, Mark(new, r), Note(r),
         UNCHANGED <<seenQ, evicted>>
  PROVE  /\ InHandOnly
         /\ r = "refused" => UNCHANGED <<status, marks>>
         /\ r # "refused" => status'[cur] = new /\ marks'[cur] = Append(marks[cur], new)
         /\ cur \notin troubled' => r = "done"
<1>1. /\ status \in [Messages -> Statuses] /\ marks \in [Messages -> Seq(MarkNames)]
      /\ new \in Statuses
  BY DEF IInv, Typed, MarkNames, Statuses
<1>2. /\ \A k \in Messages \ {cur} : k \in troubled' <=> k \in troubled
      /\ cur \notin troubled' => r = "done"
  BY DEF Note
<1>3. CASE r = "refused"
  <2>1. UNCHANGED <<status, marks>>
    BY <1>3 DEF Mark
  <2> QED BY <1>2, <1>3, <2>1, Unmarked
<1>4. CASE r # "refused"
  <2>1. /\ status' = [status EXCEPT ![cur] = new]
        /\ marks' = [marks EXCEPT ![cur] = Append(marks[cur], new)]
    BY <1>4 DEF Mark
  <2>2. Append(marks[cur], new) \in Seq(MarkNames)
    BY <1>1
  <2> QED BY <1>1, <1>2, <1>4, <2>1, <2>2 DEF InHandOnly
<1> QED BY <1>3, <1>4

LEMMA Continues ==
  ASSUME IInv, cur \in Messages, InHandOnly, UNCHANGED <<cur, result>>,
         pc' \in Labels \ {"idle", "stopped"}, turnErr' \in {"none", "error", "terminated"},
         cur \notin evicted => marks'[cur] \in MarksAt(pc'),
         Shown', Answers'
  PROVE  IInv'
<1>1. cur # 0
  BY DEF Messages
<1>2. Typed' /\ InHand'
  BY <1>1 DEF IInv, Typed, InHand, InHandOnly
<1>3. Marked'
  <2>1. \A m \in Messages : m \notin Seen /\ m \notin evicted => m # cur
    BY <1>1 DEF IInv, Typed, InHand, Seen
  <2> QED BY <2>1 DEF IInv, Marked, InHandOnly, Seen
<1>4. PlatformTold'
  BY DEF IInv, PlatformTold, InHandOnly
<1> QED BY <1>2, <1>3, <1>4 DEF IInv

LEMMA Returns ==
  ASSUME IInv, cur \in Messages, InHandOnly, UNCHANGED turnErr,
         NEW r \in {"nil", "error", "cancelled", "terminated"}, Return(r),
         cur \notin evicted => marks'[cur] \in Protocol,
         r \in {"cancelled", "terminated"} => status'[cur] = "processing",
         r = "error" /\ cur \notin troubled' => status'[cur] = "failed",
         r = "nil" /\ cur \notin troubled' => status'[cur] \in {"processed", "gone"}
  PROVE  IInv'
<1>1. /\ cur # 0 /\ pc' = "idle" /\ cur' = 0 /\ result' = [result EXCEPT ![cur] = r]
      /\ 0 \notin Messages
  BY DEF Messages, Return
<1>2. Typed' /\ InHand'
  BY <1>1 DEF IInv, Typed, InHand, InHandOnly, Labels
<1>3. Marked'
  <2>1. \A m \in Messages : m \notin Seen /\ m \notin evicted => m # cur
    BY <1>1 DEF IInv, Typed, InHand, Seen
  <2> QED BY <1>1, <2>1 DEF IInv, Marked, InHandOnly, Seen
<1>4. PlatformTold'
  <2>1. /\ result'[cur] = r
        /\ \A m \in Messages \ {cur} : result'[m] = result[m]
    BY <1>1 DEF IInv, Typed
  <2> QED BY <1>1, <2>1 DEF IInv, PlatformTold, InHandOnly
<1>5. Shown' /\ Answers'
  BY <1>1 DEF Shown, Answers, Claimed
<1> QED BY <1>2, <1>3, <1>4, <1>5 DEF IInv
-----------------------------------------------------------------------------
LEMMA Working ==
  ASSUME IInv, pc \notin {"idle", "stopped"}
  PROVE  /\ cur \in Messages /\ status[cur] \in Statuses
         /\ cur \notin evicted => marks[cur] \in MarksAt(pc)
         /\ turnErr \in {"none", "error", "terminated"}
<1>1. cur \in Messages
  BY DEF IInv, Typed, InHand
<1> QED BY <1>1 DEF IInv, Typed, Marked

LEMMA MarkProcessingStep ==
  ASSUME IInv, MarkProcessing
  PROVE  IInv'
<1>1. /\ pc = "claim" /\ UNCHANGED <<seenQ, evicted, turnErr, sentThisTurn, final, replied>>
  BY DEF MarkProcessing, dedup, turn
<1>2. cur \in Messages /\ (cur \notin evicted => marks[cur] = <<>>)
  BY <1>1, Working DEF MarksAt
<1>3. CASE /\ status[cur] = "gone" /\ Return("nil") /\ UNCHANGED <<status, marks, troubled>>
  BY <1>1, <1>2, <1>3, Unmarked, Returns DEF Protocol
<1>4. ASSUME NEW r, Mark("processing", r), Note(r),
             \/ r = "done" /\ Goto(IF bootstrapped THEN "begin" ELSE "seed")
             \/ r # "done" /\ Return("error")
      PROVE  IInv'
  <2>1. /\ InHandOnly
        /\ r = "refused" => UNCHANGED <<status, marks>>
        /\ r # "refused" => /\ status'[cur] = "processing"
                            /\ marks'[cur] = Append(marks[cur], "processing")
        /\ cur \notin troubled' => r = "done"
    BY <1>1, <1>2, <1>4, MarkStep DEF MarkNames
  <2>2. cur \notin evicted => marks'[cur] \in {<<>>, <<"processing">>}
    BY <1>2, <2>1, Marks
  <2>3. CASE r = "done" /\ Goto(IF bootstrapped THEN "begin" ELSE "seed")
    <3>1. pc' \in {"seed", "begin"} /\ UNCHANGED <<cur, result>>
      BY <2>3 DEF Goto
    <3>2. cur \notin evicted => marks'[cur] = <<"processing">>
      BY <1>2, <2>1, <2>3, Marks
    <3>3. Shown' /\ Answers'
      BY <2>1, <2>3, <3>1 DEF Shown, Answers, Claimed
    <3>4. turnErr' \in {"none", "error", "terminated"}
      BY <1>1 DEF IInv, Typed
    <3> QED BY <1>2, <2>1, <3>1, <3>2, <3>3, <3>4, Continues DEF Labels, MarksAt
  <2>4. CASE r # "done" /\ Return("error")
    BY <1>1, <1>2, <2>1, <2>2, <2>4, Returns DEF Protocol
  <2> QED BY <1>4, <2>3, <2>4
<1> QED BY <1>3, <1>4 DEF MarkProcessing

LEMMA SeedStep ==
  ASSUME IInv, SeedHistory
  PROVE  IInv'
<1>1. /\ pc = "seed" /\ UNCHANGED <<status, marks, seenQ, evicted, turnErr>>
  BY DEF SeedHistory, dedup, turn, platform
<1>2. /\ cur \in Messages /\ turnErr \in {"none", "error", "terminated"}
      /\ cur \notin evicted => marks[cur] = <<"processing">>
      /\ status[cur] = "processing"
  BY <1>1, Working DEF MarksAt, IInv, Shown, Claimed
<1>3. PICK r : /\ Note(r)
               /\ \/ r = "done" /\ Goto("begin")
                  \/ r # "done" /\ Return("error")
  BY DEF SeedHistory
<1>4. InHandOnly
  BY <1>1, <1>3, Unmarked DEF Note
<1>5. CASE r = "done" /\ Goto("begin")
  <2>1. pc' = "begin" /\ UNCHANGED <<cur, result>>
    BY <1>5 DEF Goto
  <2>2. Shown' /\ Answers'
    BY <1>1, <1>2, <2>1 DEF Shown, Answers, Claimed
  <2> QED BY <1>1, <1>2, <1>4, <2>1, <2>2, Continues DEF Labels, MarksAt
<1>6. CASE r # "done" /\ Return("error")
  <2>1. cur \in troubled'
    BY <1>3, <1>6 DEF Note
  <2> QED BY <1>1, <1>2, <1>4, <1>6, <2>1, Returns DEF Protocol
<1> QED BY <1>3, <1>5, <1>6

\* The message is claimed, and so are its marks, unless the process has forgotten it.
LEMMA Claim ==
  ASSUME IInv, Claimed
  PROVE  /\ cur \in Messages /\ turnErr \in {"none", "error", "terminated"}
         /\ status[cur] = "processing"
         /\ cur \notin evicted => marks[cur] = <<"processing">>
BY Working DEF Claimed, IInv, Shown, MarksAt

LEMMA Traces == TraceResults \subseteq {"none", "error", "terminated"}
BY DEF TraceResults

LEMMA BeginStep ==
  ASSUME IInv, Begin
  PROVE  IInv'
<1>1. /\ pc = "begin" /\ UNCHANGED <<status, marks, seenQ, evicted, troubled>>
  BY DEF Begin, dedup, troubles, platform
<1>2. turnErr' \in {"none", "error", "terminated"}
  BY Traces DEF Begin
<1>3. /\ UNCHANGED <<cur, result>>
      /\ \/ turnErr' = "none" /\ sentThisTurn' = FALSE /\ pc' = "turn"
         \/ turnErr' # "none" /\ pc' = "untraced"
  BY DEF Begin, Goto, SentAtStart
<1>4. InHandOnly
  BY <1>1, Unmarked
<1>5. Shown' /\ Answers'
  BY <1>1, <1>3, Claim DEF Shown, Answers, Claimed
<1> QED BY <1>1, <1>2, <1>3, <1>4, <1>5, Claim, Continues DEF Claimed, Labels, MarksAt

LEMMA ToolSendsStep ==
  ASSUME IInv, ToolSends
  PROVE  IInv'
<1>1. /\ pc = "turn"
      /\ UNCHANGED <<status, marks, seenQ, evicted, pc, cur, result, turnErr, final>>
  BY DEF ToolSends, dedup, platform
<1>2. PICK r : /\ sentThisTurn' = (sentThisTurn \/ r = "done") /\ Note(r)
               /\ replied' = IF r = "refused" THEN replied ELSE replied \cup {cur}
  BY DEF ToolSends
<1>3. InHandOnly
  BY <1>1, <1>2, Unmarked DEF Note
<1>4. Shown'
  BY <1>1, Claim DEF Shown, Claimed
<1>5. Answers'
  BY <1>1, <1>2 DEF IInv, Answers
<1> QED BY <1>1, <1>3, <1>4, <1>5, Claim, Continues DEF Claimed, Labels, MarksAt

LEMMA EndTurnStep ==
  ASSUME IInv, EndTurn
  PROVE  IInv'
<1>1. /\ pc = "turn" /\ pc' = "ended"
      /\ UNCHANGED <<status, marks, seenQ, evicted, cur, result, sentThisTurn, replied, troubled>>
  BY DEF EndTurn, dedup, platform, Goto, troubles
<1>2. turnErr' \in {"none", "error", "terminated"}
  BY Traces DEF EndTurn, TurnErrors
<1>3. InHandOnly
  BY <1>1, Unmarked
<1>4. Shown' /\ Answers'
  BY <1>1, Claim DEF Shown, Answers, Claimed, IInv
<1> QED BY <1>1, <1>2, <1>3, <1>4, Claim, Continues DEF Claimed, Labels, MarksAt

LEMMA FinishTurnStep ==
  ASSUME IInv, FinishTurn
  PROVE  IInv'
<1>1. /\ pc = "ended"
      /\ UNCHANGED <<status, marks, seenQ, evicted, sentThisTurn, replied, troubled>>
  BY DEF FinishTurn, dedup, platform, troubles
<1>2. InHandOnly
  BY <1>1, Unmarked
<1>3. CASE Return("cancelled") /\ UNCHANGED turnErr
  BY <1>1, <1>2, <1>3, Claim, Returns DEF Claimed, Protocol
<1>4. CASE /\ turnErr' \in IF ~Traced \/ turnErr = "terminated" THEN {turnErr}
                           ELSE IF turnErr = "none" THEN TraceResults
                           ELSE {turnErr} \cup (TraceResults \cap {"terminated"})
           /\ Goto("settle")
  <2>1. turnErr' \in {"none", "error", "terminated"}
    BY <1>1, <1>4, Traces, Claim DEF Claimed
  <2>2. pc' = "settle" /\ UNCHANGED <<cur, result>>
    BY <1>4 DEF Goto
  <2>3. Shown' /\ Answers'
    BY <1>1, <2>2, Claim DEF Shown, Answers, Claimed, IInv
  <2> QED BY <1>1, <1>2, <2>1, <2>2, <2>3, Claim, Continues DEF Claimed, Labels, MarksAt
<1> QED BY <1>3, <1>4 DEF FinishTurn

LEMMA StopTerminatedStep ==
  ASSUME IInv, StopTerminated
  PROVE  IInv'
<1>1. /\ pc \in {"untraced", "settle"} /\ Return("terminated")
      /\ UNCHANGED <<status, marks, seenQ, evicted, turnErr, troubled>>
  BY DEF StopTerminated, dedup, platform, troubles, turn
<1>2. InHandOnly
  BY <1>1, Unmarked
<1> QED BY <1>1, <1>2, Claim, Returns DEF Claimed, Protocol

LEMMA MarkFailedStep ==
  ASSUME IInv, MarkFailed
  PROVE  IInv'
<1>1. /\ pc \in {"untraced", "settle"} /\ turnErr = "error"
      /\ UNCHANGED <<seenQ, evicted, turnErr, final, sentThisTurn, replied>>
      /\ IF pc = "settle" THEN Goto("judging") ELSE Return("error")
  BY DEF MarkFailed, dedup, turn
<1>2. PICK r : Mark("failed", r) /\ Note(r)
  BY DEF MarkFailed
<1>3. /\ InHandOnly
      /\ r = "refused" => UNCHANGED <<status, marks>>
      /\ r # "refused" => status'[cur] = "failed" /\ marks'[cur] = Append(marks[cur], "failed")
      /\ cur \notin troubled' => r = "done"
  BY <1>1, <1>2, Claim, MarkStep DEF MarkNames, Claimed
<1>4. cur \notin evicted => marks'[cur] \in Protocol
  BY <1>1, <1>3, Claim, Marks DEF Claimed, Protocol
<1>5. CASE pc = "settle" /\ Goto("judging")
  <2>1. pc' = "judging" /\ UNCHANGED <<cur, result>>
    BY <1>5 DEF Goto
  <2>2. Shown' /\ Answers'
    BY <1>1, <1>3, <2>1 DEF Shown, Answers, Claimed
  <2> QED BY <1>1, <1>3, <1>4, <2>1, <2>2, Claim, Continues DEF Claimed, Labels, MarksAt
<1>6. CASE Return("error")
  BY <1>1, <1>3, <1>4, <1>6, Claim, Returns DEF Claimed
<1> QED BY <1>1, <1>5, <1>6

LEMMA FallbackSendStep ==
  ASSUME IInv, FallbackSend
  PROVE  IInv'
<1>1. /\ pc = "settle" /\ turnErr = "none" /\ pc' = "answered"
      /\ UNCHANGED <<status, marks, seenQ, evicted, cur, result, turnErr, final, sentThisTurn>>
  BY DEF FallbackSend, dedup, platform, Goto, turn
<1>2. /\ \A k \in Messages \ {cur} : k \in troubled' <=> k \in troubled
      /\ final /\ cur \notin troubled' => cur \in replied'
  <2>1. CASE ~(final /\ ~sentThisTurn)
    BY <1>1, <2>1 DEF FallbackSend, IInv, Answers
  <2>2. CASE final /\ ~sentThisTurn
    <3>1. PICK r : /\ replied' = IF r = "refused" THEN replied ELSE replied \cup {cur}
                   /\ Note(r)
      BY <2>2 DEF FallbackSend
    <3> QED BY <3>1 DEF Note
  <2> QED BY <2>1, <2>2
<1>3. InHandOnly
  BY <1>1, <1>2, Unmarked
<1>4. Shown' /\ Answers'
  BY <1>1, <1>2, Claim DEF Shown, Answers, Claimed
<1> QED BY <1>1, <1>3, <1>4, Claim, Continues DEF Claimed, Labels, MarksAt

LEMMA MarkProcessedStep ==
  ASSUME IInv, MarkProcessed
  PROVE  IInv'
<1>1. /\ pc = "answered" /\ turnErr = "none"
      /\ UNCHANGED <<seenQ, evicted, turnErr, final, sentThisTurn, replied>>
  BY DEF MarkProcessed, dedup, turn, IInv, Shown
<1>2. PICK r : /\ Mark("processed", r) /\ Note(r)
               /\ \/ r = "done" /\ Goto("judging")
                  \/ r # "done" /\ Return("error")
  BY DEF MarkProcessed
<1>3. /\ InHandOnly
      /\ r = "refused" => UNCHANGED <<status, marks>>
      /\ r # "refused" => /\ status'[cur] = "processed"
                          /\ marks'[cur] = Append(marks[cur], "processed")
      /\ cur \notin troubled' => r = "done"
  BY <1>1, <1>2, Claim, MarkStep DEF MarkNames, Claimed
<1>4. cur \notin evicted => marks'[cur] \in Protocol
  BY <1>1, <1>3, Claim, Marks DEF Claimed, Protocol
<1>5. CASE r = "done" /\ Goto("judging")
  <2>1. pc' = "judging" /\ UNCHANGED <<cur, result>>
    BY <1>5 DEF Goto
  <2>2. troubled' = troubled
    BY <1>2, <1>5 DEF Note
  <2>3. Shown' /\ Answers'
    BY <1>1, <1>3, <1>5, <2>1, <2>2 DEF Shown, Answers, Claimed, IInv
  <2> QED BY <1>1, <1>3, <1>4, <2>1, <2>3, Claim, Continues DEF Claimed, Labels, MarksAt
<1>6. CASE r # "done" /\ Return("error")
  BY <1>1, <1>3, <1>4, <1>6, Claim, Returns DEF Claimed
<1> QED BY <1>2, <1>5, <1>6

LEMMA RunJudgesStep ==
  ASSUME IInv, RunJudges
  PROVE  IInv'
<1>1. /\ pc = "judging" /\ Return(IF turnErr = "error" THEN "error" ELSE "nil")
      /\ UNCHANGED <<status, marks, seenQ, evicted, turnErr, troubled>>
  BY DEF RunJudges, dedup, platform, troubles, turn
<1>2. /\ cur \in Messages /\ (cur \notin evicted => marks[cur] \in Protocol)
      /\ turnErr \in {"none", "error"}
  BY <1>1, Working DEF MarksAt, IInv, Shown
<1>3. InHandOnly
  BY <1>1, Unmarked
<1>4. /\ turnErr = "none" => status[cur] = "processed"
      /\ turnErr = "error" /\ cur \notin troubled => status[cur] = "failed"
  BY <1>1 DEF IInv, Shown
<1>5. CASE turnErr = "none"
  BY <1>1, <1>2, <1>3, <1>4, <1>5, Returns
<1>6. CASE turnErr = "error"
  BY <1>1, <1>2, <1>3, <1>4, <1>6, Returns
<1> QED BY <1>2, <1>5, <1>6

LEMMA LeaveStep ==
  ASSUME IInv, Leave
  PROVE  IInv'
<1>1. /\ pc = "idle" /\ pc' = "stopped" /\ cur = 0
      /\ UNCHANGED <<status, result, marks, seenQ, evicted, cur, turnErr, sentThisTurn, final,
                     replied, troubled>>
  BY DEF Leave, dedup, platform, troubles, turn, IInv, InHand
<1>2. Typed' /\ InHand'
  BY <1>1 DEF IInv, Typed, InHand, Labels
<1>3. Marked'
  BY <1>1 DEF IInv, Marked, Seen, Messages
<1>4. Shown' /\ PlatformTold' /\ Answers'
  BY <1>1 DEF IInv, Shown, Claimed, PlatformTold, Answers
<1> QED BY <1>2, <1>3, <1>4 DEF IInv

LEMMA RestartStep ==
  ASSUME IInv, Restart
  PROVE  IInv'
<1>1. /\ pc' = "idle" /\ cur' = 0 /\ seenQ' = <<>> /\ turnErr' = "none"
      /\ result' = [m \in Messages |-> "none"] /\ marks' = [m \in Messages |-> <<>>]
      /\ UNCHANGED status
  BY DEF Restart
<1>2. <<>> \in Seq(MarkNames) /\ <<>> \in Seq(Messages) /\ 0 \notin Messages
  BY DEF Messages
<1>3. Typed' /\ InHand'
  BY <1>1, <1>2 DEF IInv, Typed, InHand, Labels
<1>4. Marked'
  BY <1>1, <1>2 DEF Marked, Protocol
<1>5. Shown' /\ PlatformTold' /\ Answers'
  BY <1>1 DEF Shown, Claimed, PlatformTold, Answers
<1> QED BY <1>3, <1>4, <1>5 DEF IInv

\* The queue holds messages, and neither it nor the memory outgrows its limit.
Buffers ==
  /\ msgs \in Seq(Messages) /\ Len(msgs) <= QueueSize
  /\ seenQ \in Seq(Messages) /\ Len(seenQ) <= SeenLimit

LEMMA Enqueued ==
  ASSUME msgs \in Seq(Messages), NEW m \in Messages, Enqueue(m)
  PROVE  /\ msgs' \in Seq(Messages) /\ Len(msgs) \in Nat
         /\ Len(msgs') = Len(msgs) + 1 /\ Len(msgs') <= QueueSize
         /\ \A i \in 1..Len(msgs) : msgs'[i] = msgs[i]
         /\ msgs'[Len(msgs')] = m
BY DEF Enqueue

LEMMA Dequeued ==
  ASSUME msgs \in Seq(Messages), msgs # <<>>, msgs' = Tail(msgs)
  PROVE  /\ msgs' \in Seq(Messages) /\ Len(msgs) \in Nat /\ Len(msgs) >= 1
         /\ Len(msgs') = Len(msgs) - 1
         /\ \A i \in 1..Len(msgs') : msgs'[i] = msgs[i + 1] /\ i + 1 \in 1..Len(msgs)
         /\ Head(msgs) = msgs[1] /\ Head(msgs) \in Messages
OBVIOUS

LEMMA HandleFrame ==
  ASSUME Handle \/ ToolSends \/ Leave
  PROVE  UNCHANGED <<msgs, seenQ>>
BY DEF Handle, ToolSends, Leave, MarkProcessing, SeedHistory, Begin, EndTurn, FinishTurn,
   StopTerminated, MarkFailed, FallbackSend, MarkProcessed, RunJudges, feed, dedup

LEMMA BuffersStep ==
  ASSUME Buffers, [Next]_vars
  PROVE  Buffers'
<1>1. ASSUME NEW m \in Messages, Drain(m) \/ Push(m)
      PROVE  Buffers'
  <2>1. Enqueue(m) /\ UNCHANGED seenQ
    BY <1>1 DEF Drain, Push, dedup
  <2> QED BY <2>1, Enqueued DEF Buffers
<1>2. CASE Take
  <2>1. msgs' \in Seq(Messages) /\ Len(msgs') <= QueueSize /\ Head(msgs) \in Messages
    BY <1>2, Dequeued DEF Take, Buffers
  <2>2. CASE UNCHANGED seenQ
    BY <2>1, <2>2 DEF Buffers
  <2>3. CASE seenQ' = Remember(seenQ, Head(msgs))
    <3>1. seenQ' \in Seq(Messages) /\ Len(seenQ') <= SeenLimit
      BY <2>1, <2>3, Remembering DEF Buffers
    <3> QED BY <2>1, <3>1 DEF Buffers
  <2> QED BY <1>2, <2>2, <2>3 DEF Take, dedup
<1>3. CASE Restart
  <2>1. msgs' = <<>> /\ seenQ' = <<>>
    BY <1>3 DEF Restart
  <2> QED BY <2>1 DEF Buffers
<1>4. CASE UNCHANGED <<msgs, seenQ>>
  BY <1>4 DEF Buffers
<1> QED
  BY <1>1, <1>2, <1>3, <1>4, HandleFrame
  DEF Next, Worker, Post, Withdraw, Platform, PushLost, DrainEnds, DrainFails, Reconnect, Stop,
      vars, feed, dedup

LEMMA NextIInv ==
  ASSUME IInv, Buffers, [Next]_vars
  PROVE  IInv'
BY OutsideStep, TakeStep, MarkProcessingStep, SeedStep, BeginStep, ToolSendsStep, EndTurnStep,
   FinishTurnStep, StopTerminatedStep, MarkFailedStep, FallbackSendStep, MarkProcessedStep,
   RunJudgesStep, LeaveStep, RestartStep
DEF Next, Worker, Handle, Buffers

LEMMA InitBuffers ==
  ASSUME Init
  PROVE  Buffers
<1>1. msgs = <<>> /\ seenQ = <<>>
  BY DEF Init, NewProcess
<1> QED BY <1>1 DEF Buffers

LEMMA Invariance == Spec => [](IInv /\ Buffers)
<1>1. Init => IInv /\ Buffers
  BY InitIInv, InitBuffers
<1>2. IInv /\ Buffers /\ [Next]_vars => (IInv /\ Buffers)'
  BY NextIInv, BuffersStep
<1> QED BY <1>1, <1>2, PTL DEF Spec

\* A message is marked by the protocol, and at most once through it, as long as the
\* process remembers it (room.go Handle, seenMessage).
THEOREM MarksFollowTheProtocol == Spec => []MarkProtocol
<1>1. \A l \in Labels : MarksAt(l) \subseteq Protocol
  BY DEF MarksAt, Protocol
<1>2. IInv => MarkProtocol
  BY <1>1 DEF IInv, Typed, Marked, Protocol, MarkProtocol
<1> QED BY <1>2, Invariance, PTL

\* What Handle returned for a message is what the platform shows of it, unless one of
\* the calls for it went wrong (room.go Handle's contract).
THEOREM ThePlatformIsTold == Spec => []PlatformTold
<1>1. IInv => PlatformTold
  BY DEF IInv
<1> QED BY <1>1, Invariance, PTL

\* A text answer that nobody sent is sent for the model before the message is marked
\* processed (room.go Handle).
THEOREM AnswersAreDelivered == Spec => []AnswerDelivered
<1>1. IInv => AnswerDelivered
  BY DEF IInv, Answers, AnswerDelivered
<1> QED BY <1>1, Invariance, PTL
-----------------------------------------------------------------------------
(***************************************************************************)
(* A room that remembers at least as many ids as its queue holds messages    *)
(* (room.go seenLimit is 1024, run.go roomMsgBuffer 64) follows Mentions: a   *)
(* duplicate that waits in the queue while its message is answered is still   *)
(* remembered when the worker gets to it.                                     *)
(***************************************************************************)
\* At most SeenLimit - i of the ids in q were remembered after m.
Remembered(q, m, i) ==
  \E p \in 1..Len(q) : q[p] = m /\ p + SeenLimit >= i + Len(q)

Answered(m) == status[m] = "processed" \/ m = cur

Fresh ==
  /\ \A i \in 1..Len(msgs) :
       status[msgs[i]] # "absent" /\ (Answered(msgs[i]) => Remembered(seenQ, msgs[i], i))
  /\ pc = "claim" => status[cur] \notin {"absent", "processed"}

LEMMA InitFresh ==
  ASSUME Init
  PROVE  Fresh
<1>1. Len(msgs) = 0 /\ pc = "idle"
  BY DEF Init, NewProcess
<1> QED BY <1>1 DEF Fresh

\* What a step does that neither takes nor queues a message nor starts a process.
Settling ==
  /\ UNCHANGED <<msgs, seenQ>>
  /\ pc' = "claim" =>
       /\ pc = "claim" /\ UNCHANGED cur
       /\ status'[cur] \in {"absent", "processed"} => status'[cur] = status[cur]
  /\ cur' \in {cur, 0}
  /\ \A m \in Messages :
       /\ status'[m] = "absent" => status[m] = "absent"
       /\ status'[m] = "processed" => Answered(m)

LEMMA SettlingFresh ==
  ASSUME Buffers, Fresh, Settling
  PROVE  Fresh'
<1>1. \A i \in 1..Len(msgs) : msgs[i] \in Messages /\ msgs[i] # 0
  BY DEF Buffers, Messages
<1>2. pc' = "claim" => status'[cur'] \notin {"absent", "processed"}
  BY DEF Settling, Fresh
<1>3. ASSUME NEW i \in 1..Len(msgs)
      PROVE  /\ status'[msgs[i]] # "absent"
             /\ status'[msgs[i]] = "processed" \/ msgs[i] = cur' =>
                  Remembered(seenQ, msgs[i], i)
  BY <1>1 DEF Fresh, Settling, Answered
<1> QED BY <1>2, <1>3 DEF Fresh, Settling, Answered

LEMMA MarkMaps ==
  ASSUME IInv, cur \in Messages, NEW new \in MarkNames, NEW r, Mark(new, r),
         IF new = "processing" THEN status[cur] \in {"queued", "processing", "failed"} \/ r = "refused"
         ELSE status[cur] = "processing"
  PROVE  /\ Lifecycle!Next \/ UNCHANGED status
         /\ \A m \in Messages : status'[m] = "absent" => status[m] = "absent"
         /\ \A m \in Messages : status'[m] = "processed" => Answered(m)
<1>1. status \in [Messages -> Statuses]
  BY DEF IInv, Typed
<1>2. CASE r = "refused"
  BY <1>2 DEF Mark, Answered
<1>3. CASE r # "refused"
  <2>1. status' = [status EXCEPT ![cur] = new]
    BY <1>3 DEF Mark
  <2>2. Lifecycle!Claim(cur) \/ Lifecycle!Settle(cur)
    BY <1>3, <2>1 DEF Lifecycle!Claim, Lifecycle!Settle, Lifecycle!Becomes, MarkNames
  <2> QED BY <1>1, <2>1, <2>2 DEF Lifecycle!Next, Answered, MarkNames
<1> QED BY <1>2, <1>3

LEMMA HandleMaps ==
  ASSUME IInv, Fresh, Handle \/ ToolSends \/ Leave
  PROVE  /\ Lifecycle!Next \/ UNCHANGED status
         /\ Settling
<1>1. UNCHANGED <<msgs, seenQ>>
  BY HandleFrame
<1>2. pc' # "claim" /\ cur' \in {cur, 0}
  BY DEF Handle, ToolSends, Leave, MarkProcessing, SeedHistory, Begin, EndTurn, FinishTurn,
     StopTerminated, MarkFailed, FallbackSend, MarkProcessed, RunJudges, Goto, Return
<1>3. CASE UNCHANGED status
  BY <1>1, <1>2, <1>3 DEF Settling, Answered
<1>4. CASE MarkProcessing
  <2>1. /\ pc = "claim" /\ cur \in Messages /\ status[cur] \in Statuses
        /\ status[cur] \notin {"absent", "processed"}
    BY <1>4, Working DEF MarkProcessing, Fresh
  <2>2. CASE UNCHANGED status
    BY <1>3, <2>2
  <2>3. ASSUME NEW r, status[cur] = "gone" => r = "refused", Mark("processing", r)
        PROVE  /\ Lifecycle!Next \/ UNCHANGED status
               /\ Settling
    <3>1. status[cur] \in {"queued", "processing", "failed"} \/ r = "refused"
      BY <2>1, <2>3 DEF Statuses
    <3> QED BY <1>1, <1>2, <2>1, <2>3, <3>1, MarkMaps DEF Settling, MarkNames
  <2> QED BY <1>4, <2>2, <2>3 DEF MarkProcessing
<1>5. CASE MarkFailed \/ MarkProcessed
  <2>1. cur \in Messages /\ status[cur] = "processing"
    BY <1>5, Claim DEF MarkFailed, MarkProcessed, Claimed
  <2>2. PICK r : Mark("failed", r) \/ Mark("processed", r)
    BY <1>5 DEF MarkFailed, MarkProcessed
  <2> QED BY <1>1, <1>2, <2>1, <2>2, MarkMaps DEF Settling, MarkNames
<1> QED
  BY <1>3, <1>4, <1>5
  DEF Handle, ToolSends, Leave, SeedHistory, Begin, EndTurn, FinishTurn, StopTerminated,
      FallbackSend, RunJudges, platform

LEMMA PlatformMaps ==
  ASSUME IInv, NEW m \in Messages, Post(m) \/ Withdraw(m)
  PROVE  /\ Lifecycle!Next
         /\ Settling
<1>1. /\ UNCHANGED <<msgs, seenQ, pc, cur>>
      /\ status \in [Messages -> Statuses]
  BY DEF Post, Withdraw, Platform, feed, dedup, IInv, Typed
<1>2. PICK to \in {"queued", "gone"} : status' = [status EXCEPT ![m] = to]
  BY DEF Post, Withdraw, Platform
<1>3. Lifecycle!Next
  BY DEF Post, Withdraw, Platform, Lifecycle!Next, Lifecycle!Post, Lifecycle!Withdraw,
     Lifecycle!Becomes
<1>4. \A k \in Messages : status'[k] \in {"absent", "processed"} => status'[k] = status[k]
  BY <1>1, <1>2
<1>5. pc = "claim" => cur \in Messages
  BY DEF IInv, Typed, InHand
<1> QED BY <1>1, <1>3, <1>4, <1>5 DEF Settling, Answered

LEMMA EnqueueFresh ==
  ASSUME IInv, Buffers, Fresh, SeenLimit >= QueueSize, NEW m \in Messages,
         Drain(m) \/ Push(m)
  PROVE  Fresh'
<1>1. /\ Enqueue(m) /\ UNCHANGED <<status, seenQ, pc, cur>>
      /\ status[m] \in {"queued", "processing", "failed"}
  BY DEF Drain, Push, dedup, Served, Servable, Pushable
<1>2. /\ Len(msgs) \in Nat /\ Len(msgs') = Len(msgs) + 1 /\ Len(msgs') <= QueueSize
      /\ \A i \in 1..Len(msgs) : msgs'[i] = msgs[i]
      /\ msgs'[Len(msgs')] = m
  BY <1>1, Enqueued DEF Buffers
<1>3. m = cur => Remembered(seenQ, m, Len(msgs'))
  <2>1. m = cur => Len(seenQ) \in 1..Len(seenQ) /\ seenQ[Len(seenQ)] = m
    BY DEF IInv, InHand, Messages, Buffers
  <2>2. Len(seenQ) + SeenLimit >= Len(msgs') + Len(seenQ)
    BY <1>2 DEF Buffers
  <2> QED BY <2>1, <2>2 DEF Remembered
<1>4. ASSUME NEW i \in 1..Len(msgs')
      PROVE  /\ status[msgs'[i]] # "absent"
             /\ status[msgs'[i]] = "processed" \/ msgs'[i] = cur =>
                  Remembered(seenQ, msgs'[i], i)
  <2>1. CASE i = Len(msgs')
    BY <1>1, <1>2, <1>3, <2>1
  <2>2. CASE i # Len(msgs')
    <3>1. i \in 1..Len(msgs) /\ msgs'[i] = msgs[i]
      BY <1>2, <2>2
    <3> QED BY <3>1 DEF Fresh, Answered
  <2> QED BY <2>1, <2>2
<1>5. pc' = "claim" => status'[cur'] \notin {"absent", "processed"}
  BY <1>1 DEF Fresh
<1> QED BY <1>1, <1>4, <1>5 DEF Fresh, Answered

\* Taking a message brings the others one nearer; a new one pushes out the oldest id.
LEMMA TakeFresh ==
  ASSUME IInv, Buffers, Fresh, SeenLimit >= QueueSize, Take
  PROVE  Fresh'
<1>1. /\ msgs \in Seq(Messages) /\ msgs # <<>> /\ msgs' = Tail(msgs)
      /\ UNCHANGED status /\ pc = "idle" /\ cur = 0
  BY DEF Take, Buffers, platform, IInv, InHand
<1>2. /\ msgs' \in Seq(Messages) /\ Len(msgs) \in Nat /\ Len(msgs') = Len(msgs) - 1
      /\ \A i \in 1..Len(msgs') : msgs'[i] = msgs[i + 1] /\ i + 1 \in 1..Len(msgs)
      /\ Head(msgs) = msgs[1] /\ Head(msgs) \in Messages /\ 1 \in 1..Len(msgs)
  BY <1>1, Dequeued
<1>3. /\ Len(seenQ) \in Nat /\ Len(seenQ) <= SeenLimit /\ Len(msgs') < SeenLimit
  BY <1>2 DEF Buffers
<1>4. CASE UNCHANGED <<pc, cur, dedup>>
  <2>1. ASSUME NEW i \in 1..Len(msgs')
        PROVE  /\ status[msgs'[i]] # "absent"
               /\ status[msgs'[i]] = "processed" \/ msgs'[i] = cur =>
                    Remembered(seenQ, msgs'[i], i)
    <3>1. ASSUME NEW p \in 1..Len(seenQ), p + SeenLimit >= i + 1 + Len(seenQ)
          PROVE  p + SeenLimit >= i + Len(seenQ)
      BY <1>2, <1>3, <3>1
    <3>2. Remembered(seenQ, msgs[i + 1], i + 1) => Remembered(seenQ, msgs[i + 1], i)
      BY <3>1 DEF Remembered
    <3> QED BY <1>2, <3>2 DEF Fresh, Answered
  <2> QED BY <1>1, <1>4, <2>1 DEF Fresh, Answered, dedup
<1>5. ASSUME NEW m \in Messages, m = Head(msgs), m \notin Seen, pc' = "claim", cur' = m,
             seenQ' = Remember(seenQ, m)
      PROVE  Fresh'
  <2> DEFINE q == seenQ
             r == Remember(q, m)
  <2>1. q \in Seq(Messages)
    BY DEF Buffers
  <2>7. q = seenQ /\ r = seenQ'
    BY <1>5
  <2> HIDE DEF q
  <2>2. /\ Len(q) \in Nat /\ Len(r) > 0 /\ r[Len(r)] = m
        /\ \/ /\ Len(q) + 1 <= SeenLimit /\ Len(r) = Len(q) + 1
              /\ \A i \in 1..Len(q) : r[i] = q[i]
           \/ /\ Len(q) + 1 > SeenLimit /\ Len(r) = Len(q) /\ Len(q) >= 1
              /\ \A i \in 2..Len(q) : r[i - 1] = q[i]
    BY <2>1, Remembering
  <2> HIDE DEF r
  <2>3. ASSUME NEW i \in 1..Len(msgs'), NEW p \in 1..Len(q), p + SeenLimit >= i + 1 + Len(q)
        PROVE  Remembered(r, q[p], i)
    <3>1. CASE /\ Len(q) + 1 <= SeenLimit /\ Len(r) = Len(q) + 1
               /\ \A j \in 1..Len(q) : r[j] = q[j]
      <4>1. p \in 1..Len(r) /\ r[p] = q[p] /\ p + SeenLimit >= i + Len(r)
        BY <1>2, <2>2, <2>3, <3>1
      <4> QED BY <4>1 DEF Remembered
    <3>2. CASE /\ Len(q) + 1 > SeenLimit /\ Len(r) = Len(q) /\ Len(q) >= 1
               /\ \A j \in 2..Len(q) : r[j - 1] = q[j]
      <4>1. Len(q) = SeenLimit
        BY <1>3, <2>2, <2>7, <3>2
      <4>2. /\ p \in 2..Len(q) /\ p - 1 \in 1..Len(r)
            /\ (p - 1) + SeenLimit >= i + Len(r)
        BY <1>2, <2>2, <2>3, <3>2, <4>1
      <4>3. r[p - 1] = q[p]
        BY <3>2, <4>2
      <4> QED BY <4>2, <4>3 DEF Remembered
    <3> QED BY <2>2, <3>1, <3>2
  <2>4. ASSUME NEW i \in 1..Len(msgs')
        PROVE  Remembered(r, m, i)
    <3>1. Len(r) \in 1..Len(r) /\ Len(r) + SeenLimit >= i + Len(r)
      BY <1>2, <1>3, <2>2
    <3> QED BY <2>2, <3>1 DEF Remembered
  <2>5. ASSUME NEW i \in 1..Len(msgs')
        PROVE  /\ status[msgs'[i]] # "absent"
               /\ status[msgs'[i]] = "processed" \/ msgs'[i] = m =>
                    Remembered(r, msgs'[i], i)
    <3>1. status[msgs'[i]] # "absent"
      BY <1>2 DEF Fresh
    <3>2. status[msgs'[i]] = "processed" => Remembered(q, msgs[i + 1], i + 1)
      BY <1>2, <2>7 DEF Fresh, Answered
    <3>3. Remembered(q, msgs[i + 1], i + 1) => Remembered(r, msgs[i + 1], i)
      BY <2>3 DEF Remembered
    <3> QED BY <1>2, <2>4, <3>1, <3>2, <3>3
  <2>6. status[m] \notin {"absent", "processed"}
    <3>1. status[m] # "absent" /\ (status[m] = "processed" => Remembered(seenQ, m, 1))
      BY <1>2, <1>5 DEF Fresh, Answered
    <3>2. ~ Remembered(seenQ, m, 1)
      BY <1>5 DEF Remembered, Seen
    <3> QED BY <3>1, <3>2
  <2> QED BY <1>1, <1>5, <2>7, <2>5, <2>6 DEF Fresh, Answered
<1> QED BY <1>1, <1>2, <1>4, <1>5 DEF Take, AlreadySeen

LEMMA FreshStep ==
  ASSUME IInv, Buffers, Fresh, SeenLimit >= QueueSize, [Next]_vars
  PROVE  /\ Fresh'
         /\ Lifecycle!Next \/ UNCHANGED status
<1>1. CASE \E m \in Messages : Post(m) \/ Withdraw(m)
  BY <1>1, PlatformMaps, SettlingFresh
<1>2. CASE \E m \in Messages : Drain(m) \/ Push(m)
  BY <1>2, EnqueueFresh DEF Drain, Push
<1>3. CASE Take
  BY <1>3, TakeFresh DEF Take, platform
<1>4. CASE Handle \/ ToolSends \/ Leave
  BY <1>4, HandleMaps, SettlingFresh
<1>5. CASE Restart
  <2>1. msgs' = <<>> /\ pc' = "idle" /\ UNCHANGED status
    BY <1>5 DEF Restart
  <2>2. Len(msgs') = 0
    BY <2>1
  <2> QED BY <2>1, <2>2 DEF Fresh
<1>6. CASE \/ \E m \in Messages : PushLost(m)
           \/ DrainEnds \/ DrainFails \/ Reconnect \/ Stop \/ UNCHANGED vars
  <2>1. UNCHANGED <<msgs, seenQ, pc, cur, status>>
    BY <1>6 DEF PushLost, DrainEnds, DrainFails, Reconnect, Stop, vars, feed, dedup, platform
  <2>2. Settling
    BY <2>1 DEF Settling, Answered
  <2> QED BY <2>1, <2>2, SettlingFresh
<1> QED BY <1>1, <1>2, <1>3, <1>4, <1>5, <1>6 DEF Next, Worker

\* A room that remembers as many ids as its queue holds messages follows the life of a
\* mention on the platform: no message is claimed again once it is marked processed, in
\* any order of pushes, drains, stops and restarts (room.go Handle and seenMessage; the
\* limits are room.go:26 and run.go:32).
THEOREM RoomFollowsLifecycle ==
  ASSUME SeenLimit >= QueueSize
  PROVE  Spec => FollowsLifecycle
<1>1. Init => Lifecycle!Init /\ Fresh
  BY InitFresh DEF Init, Lifecycle!Init
<1>2. IInv /\ Buffers /\ Fresh /\ [Next]_vars => Fresh' /\ [Lifecycle!Next]_status
  BY FreshStep
<1> QED BY <1>1, <1>2, Invariance, PTL DEF Spec, FollowsLifecycle, Lifecycle!Spec
-----------------------------------------------------------------------------
(***************************************************************************)
(* What the model is shown.  On a platform that serves the oldest message    *)
(* first, the queue never brings a message before an older one that is still *)
(* to be handled, unless that one was missed: so the context seeded for a     *)
(* message holds only what is over or was worked on already.                  *)
(***************************************************************************)
Known == Seen \cup evicted \cup missed
Over(m) == status[m] \in {"processed", "gone"}
Waits(m) == \E i \in 1..Len(msgs) : msgs[i] = m

\* Messages are posted one after the other, and handled and pushed only then.
Posted ==
  /\ \A m \in Messages, k \in Messages :
       k < m /\ status[m] # "absent" => status[k] # "absent"
  /\ \A m \in Messages : status[m] = "absent" => pushes[m] = 0
  /\ \A i \in 1..Len(msgs) : status[msgs[i]] # "absent"
  /\ cur \in Messages => status[cur] # "absent"

\* What waits is not answered, and what is older comes before it.
InOrder ==
  \A i \in 1..Len(msgs) :
    /\ msgs[i] \in Known \/ status[msgs[i]] # "processed"
    /\ \A k \in Messages : k < msgs[i] =>
         k \in Known \/ Over(k) \/ \E j \in 1..(i - 1) : msgs[j] = k

\* The same of the message in hand, until its context is seeded.
Oldest ==
  pc \in {"claim", "seed"} => \A k \in Messages : k < cur => k \in Known \/ Over(k)

\* What was handed out on this connection, and what nobody owes this process any more.
HandedOut == \A k \in served : k \in Known \/ Over(k) \/ Waits(k)
NotOwed ==
  ~draining => \A k \in Messages :
    \/ k \in Known \/ Over(k) \/ Waits(k) \/ status[k] = "absent"
    \/ status[k] = "queued" /\ pushes[k] = 0

\* What was shown to the model and never handled here does not come any more.
SeededOnce ==
  \A m \in Messages \ Known : history[m] > 0 => status[m] = "processed" /\ ~Waits(m)

Unshown == pc \in {"claim", "seed", "begin", "untraced", "turn"}
HandledOnce ==
  \A m \in Messages \ (missed \cup evicted) :
    history[m] <= 1 /\ (Unshown /\ m = cur => history[m] = 0)

Counts ==
  /\ pushes \in [Messages -> Nat] /\ history \in [Messages -> Nat]
  /\ served \subseteq Messages /\ draining \in BOOLEAN

OInv == Counts /\ Posted /\ InOrder /\ Oldest /\ HandedOut /\ NotOwed /\ SeededOnce /\ HandledOnce

LEMMA InitOrder ==
  ASSUME Init
  PROVE  OInv
<1>1. /\ status = [m \in Messages |-> "absent"] /\ pushes = [m \in Messages |-> 0]
      /\ history = [m \in Messages |-> 0] /\ served = {} /\ Len(msgs) = 0
      /\ pc = "idle" /\ cur = 0 /\ draining = TRUE
  BY DEF Init, NewProcess
<1>2. 0 \notin Messages
  BY DEF Messages
<1>3. Counts /\ Posted /\ InOrder
  BY <1>1, <1>2 DEF Counts, Posted, InOrder
<1>4. Oldest /\ HandedOut /\ NotOwed /\ SeededOnce /\ HandledOnce
  BY <1>1, <1>2 DEF Oldest, HandedOut, NotOwed, SeededOnce, HandledOnce, Unshown
<1> QED BY <1>3, <1>4 DEF OInv

LEMMA CurKnown ==
  ASSUME IInv, cur \in Messages, Buffers
  PROVE  cur \in Known
<1>1. Len(seenQ) \in 1..Len(seenQ) /\ seenQ[Len(seenQ)] = cur
  BY DEF IInv, InHand, Messages, Buffers
<1> QED BY <1>1 DEF Known, Seen

\* Steps of the worker on the message in hand: the queue and what is known stay.
Calm ==
  /\ UNCHANGED <<msgs, seenQ, evicted, missed, pushes, served, draining>>
  /\ \A m \in Messages \ {cur} : status'[m] = status[m]
  /\ cur \in Messages => status'[cur] # "absent"
  /\ cur' \in {cur, 0}

LEMMA CalmOrder ==
  ASSUME IInv, Buffers, OInv, Calm
  PROVE  /\ Posted' /\ InOrder' /\ HandedOut' /\ NotOwed' /\ Known' = Known
         /\ \A m \in Messages \ Known : status'[m] = status[m]
<1>1. Known' = Known /\ Seen' = Seen
  BY DEF Calm, Known, Seen
<1>2. \A m \in Messages \ Known : status'[m] = status[m] /\ (Over(m) => Over(m)')
  BY CurKnown DEF Calm, Over
<1>3. /\ \A i \in 1..Len(msgs) : msgs[i] \in Messages
      /\ \A m \in Messages : Waits(m)' <=> Waits(m)
      /\ 0 \notin Messages /\ served \subseteq Messages
  <2>1. msgs \in Seq(Messages) => \A i \in 1..Len(msgs) : msgs[i] \in Messages
    OBVIOUS
  <2>2. 0 \notin Messages
    BY DEF Messages
  <2> QED BY <2>1, <2>2 DEF Buffers, Calm, Waits, OInv, Counts
<1>4. \A m \in Messages : status'[m] = "absent" <=> status[m] = "absent"
  BY DEF Calm, OInv, Posted
<1>5. Posted'
  BY <1>3, <1>4 DEF OInv, Posted, Calm
<1>6. InOrder'
  BY <1>1, <1>2, <1>3 DEF OInv, InOrder, Calm
<1>7. HandedOut'
  BY <1>1, <1>2, <1>3 DEF OInv, HandedOut, Calm
<1>8. NotOwed'
  <2>1. draining' = draining /\ pushes' = pushes
    BY DEF Calm
  <2> QED BY <1>1, <1>2, <1>3, <2>1 DEF OInv, NotOwed
<1> QED BY <1>1, <1>2, <1>5, <1>6, <1>7, <1>8

LEMMA QuietOrder ==
  ASSUME IInv, Buffers, OInv, Calm, UNCHANGED history,
         pc' \in {"claim", "seed"} => pc \in {"claim", "seed"} /\ cur' = cur,
         cur' \in Messages /\ Unshown' => Unshown /\ cur' = cur
  PROVE  OInv'
<1>1. /\ Posted' /\ InOrder' /\ HandedOut' /\ NotOwed' /\ Known' = Known
      /\ \A m \in Messages \ Known : status'[m] = status[m]
  BY CalmOrder
<1>2. Counts'
  BY DEF OInv, Counts, Calm
<1>3. Oldest'
  BY <1>1 DEF OInv, Oldest, Over
<1>4. SeededOnce'
  <2>1. \A m \in Messages : Waits(m)' <=> Waits(m)
    BY DEF Waits, Calm
  <2> QED BY <1>1, <2>1 DEF OInv, SeededOnce
<1>5. HandledOnce'
  BY DEF OInv, HandledOnce, Calm
<1> QED BY <1>1, <1>2, <1>3, <1>4, <1>5 DEF OInv

LEMMA HandleCalm ==
  ASSUME IInv, OInv, Handle \/ ToolSends \/ Leave
  PROVE  Calm
<1>1. UNCHANGED <<msgs, seenQ, evicted, missed, pushes, served, draining>>
  BY DEF Handle, ToolSends, Leave, MarkProcessing, SeedHistory, Begin, EndTurn, FinishTurn,
     StopTerminated, MarkFailed, FallbackSend, MarkProcessed, RunJudges, feed, dedup, platform,
     troubles
<1>2. cur' \in {cur, 0}
  BY DEF Handle, ToolSends, Leave, MarkProcessing, SeedHistory, Begin, EndTurn, FinishTurn,
     StopTerminated, MarkFailed, FallbackSend, MarkProcessed, RunJudges, Goto, Return
<1>3. \/ UNCHANGED status
      \/ \E new \in MarkNames : status' = [status EXCEPT ![cur] = new]
  BY DEF Handle, ToolSends, Leave, MarkProcessing, SeedHistory, Begin, EndTurn, FinishTurn,
     StopTerminated, MarkFailed, FallbackSend, MarkProcessed, RunJudges, Mark, platform,
     MarkNames
<1>4. /\ \A m \in Messages \ {cur} : status'[m] = status[m]
      /\ cur \in Messages => status'[cur] # "absent"
  BY <1>3 DEF IInv, Typed, OInv, Posted, MarkNames
<1> QED BY <1>1, <1>2, <1>4 DEF Calm

LEMMA HandleOrder ==
  ASSUME IInv, Buffers, OInv, Handle \/ ToolSends \/ Leave, UNCHANGED history
  PROVE  OInv'
<1>1. Calm
  BY HandleCalm
<1>2. cur \in Messages \cup {0} /\ 0 \notin Messages
  BY DEF IInv, Typed, Messages
<1>3. pc' \in {"claim", "seed"} => pc \in {"claim", "seed"} /\ cur' = cur
  BY DEF Handle, ToolSends, Leave, MarkProcessing, SeedHistory, Begin, EndTurn, FinishTurn,
     StopTerminated, MarkFailed, FallbackSend, MarkProcessed, RunJudges, Goto, Return
<1>4. cur' \in Messages /\ Unshown' => Unshown /\ cur' = cur
  BY <1>2 DEF Handle, ToolSends, Leave, MarkProcessing, SeedHistory, Begin, EndTurn, FinishTurn,
     StopTerminated, MarkFailed, FallbackSend, MarkProcessed, RunJudges, Goto, Return, Unshown
<1> QED BY <1>1, <1>3, <1>4, QuietOrder

\* The context of the message in hand: what is older is known, or over and gone by.
LEMMA SeedOrder ==
  ASSUME IInv, Buffers, OInv, SeedHistory
  PROVE  OInv'
<1>1. CASE UNCHANGED history
  BY <1>1, HandleOrder DEF Handle
<1>2. CASE pc = "seed" /\ history' = Seeds(cur) /\ pc' = "begin" /\ UNCHANGED <<cur, status>>
  <2>1. Calm /\ cur \in Messages
    BY <1>2, HandleCalm DEF Handle, IInv, InHand, Typed
  <2>2. Posted' /\ InOrder' /\ HandedOut' /\ NotOwed' /\ Known' = Known
    BY <2>1, CalmOrder
  <2>3. \A m \in Messages :
          /\ history'[m] \in {0, 1}
          /\ history'[m] > 0 => m < cur /\ status[m] # "gone"
    BY <1>2 DEF Seeds
  <2>4. Counts'
    BY <1>2, <2>1 DEF OInv, Counts, Calm, Seeds
  <2>5. SeededOnce'
    <3>1. ASSUME NEW m \in Messages \ Known, history'[m] > 0
          PROVE  status[m] = "processed" /\ ~Waits(m)
      <4>1. status[m] = "processed"
        BY <1>2, <2>3, <3>1 DEF OInv, Oldest, Over
      <4> QED BY <3>1, <4>1 DEF OInv, InOrder, Waits
    <3>2. \A m \in Messages : Waits(m)' <=> Waits(m)
      BY <2>1 DEF Waits, Calm
    <3> QED BY <1>2, <2>2, <3>1, <3>2 DEF SeededOnce
  <2>6. HandledOnce'
    <3>1. ~(cur < cur)
      BY <2>1 DEF Messages
    <3> QED BY <1>2, <2>3, <3>1 DEF HandledOnce
  <2>7. Oldest'
    BY <1>2 DEF Oldest
  <2> QED BY <2>2, <2>4, <2>5, <2>6, <2>7 DEF OInv
<1> QED BY <1>1, <1>2 DEF SeedHistory, platform, Goto

LEMMA EndTurnOrder ==
  ASSUME IInv, Buffers, OInv, EndTurn
  PROVE  OInv'
<1>1. CASE UNCHANGED history
  BY <1>1, HandleOrder DEF Handle
<1>2. CASE history' = [history EXCEPT ![cur] = @ + 1]
  <2>1. /\ Calm /\ cur \in Messages /\ cur \in Known
        /\ pc = "turn" /\ pc' = "ended" /\ UNCHANGED status
    BY HandleCalm, CurKnown DEF Handle, EndTurn, Goto, IInv, InHand, Typed, platform
  <2>2. Posted' /\ InOrder' /\ HandedOut' /\ NotOwed' /\ Known' = Known
    BY <2>1, CalmOrder
  <2>3. Counts'
    BY <1>2, <2>1 DEF OInv, Counts, Calm
  <2>4. \A m \in Messages \ {cur} : history'[m] = history[m]
    BY <1>2 DEF OInv, Counts
  <2>5. SeededOnce'
    <3>1. \A m \in Messages : Waits(m)' <=> Waits(m)
      BY <2>1 DEF Waits, Calm
    <3> QED BY <2>1, <2>2, <2>4, <3>1 DEF OInv, SeededOnce
  <2>6. HandledOnce'
    <3>1. UNCHANGED <<evicted, missed>>
      BY <2>1 DEF Calm
    <3>2. history'[cur] = history[cur] + 1
      BY <1>2, <2>1 DEF OInv, Counts
    <3>3. cur \notin missed \cup evicted => history[cur] = 0
      BY <2>1 DEF OInv, HandledOnce, Unshown
    <3>4. ~Unshown'
      BY <2>1 DEF Unshown
    <3> QED BY <2>4, <3>1, <3>2, <3>3, <3>4 DEF OInv, HandledOnce
  <2>7. Oldest'
    BY <2>1 DEF Oldest
  <2> QED BY <2>2, <2>3, <2>5, <2>6, <2>7 DEF OInv
<1> QED BY <1>1, <1>2 DEF EndTurn

LEMMA PlatformOrder ==
  ASSUME IInv, Buffers, OInv, NEW m \in Messages, Post(m) \/ Withdraw(m)
  PROVE  OInv'
<1>1. /\ UNCHANGED <<pushes, served, draining, msgs, pc, cur, seenQ, evicted, missed, history>>
      /\ status \in [Messages -> Statuses]
  BY DEF Post, Withdraw, Platform, feed, dedup, memory, troubles, IInv, Typed
<1>2. PICK from \in {"absent", "queued"} :
        /\ status[m] = from
        /\ status' = [status EXCEPT ![m] = IF from = "absent" THEN "queued" ELSE "gone"]
        /\ from = "absent" => \A k \in 1..(m - 1) : status[k] # "absent"
  BY DEF Post, Withdraw, Platform
<1>3. /\ \A k \in Messages \ {m} : status'[k] = status[k]
      /\ status'[m] \in {"queued", "gone"}
      /\ status'[m] = "queued" => from = "absent" /\ pushes[m] = 0
  BY <1>1, <1>2 DEF OInv, Posted
<1>4. Known' = Known /\ \A k \in Messages : (Waits(k)' <=> Waits(k)) /\ (Over(k) => Over(k)')
  BY <1>1, <1>2, <1>3 DEF Known, Seen, Waits, Over
<1>5. /\ \A i \in 1..Len(msgs) : msgs[i] \in Messages
      /\ served \subseteq Messages
      /\ \A k \in Messages : k < m => k \in 1..(m - 1)
  <2>1. msgs \in Seq(Messages) => \A i \in 1..Len(msgs) : msgs[i] \in Messages
    OBVIOUS
  <2>2. \A k \in Messages : k < m => k \in 1..(m - 1)
    BY DEF Messages
  <2> QED BY <2>1, <2>2 DEF Buffers, OInv, Counts
<1>6. Counts' /\ Posted'
  BY <1>1, <1>2, <1>3, <1>5 DEF OInv, Counts, Posted
<1>7. InOrder' /\ Oldest'
  BY <1>1, <1>3, <1>4, <1>5 DEF OInv, InOrder, Oldest
<1>8. HandedOut'
  BY <1>1, <1>4, <1>5 DEF OInv, HandedOut
<1>9. NotOwed'
  <2>1. ASSUME NEW k \in Messages, ~draining
        PROVE  \/ k \in Known \/ Over(k)' \/ Waits(k) \/ status'[k] = "absent"
               \/ status'[k] = "queued" /\ pushes[k] = 0
    <3>1. CASE k = m
      BY <1>3, <3>1 DEF Over
    <3>2. CASE k # m
      BY <1>3, <1>4, <2>1, <3>2 DEF OInv, NotOwed
    <3> QED BY <3>1, <3>2
  <2> QED BY <1>1, <1>4, <2>1 DEF NotOwed
<1>10. SeededOnce'
  BY <1>1, <1>2, <1>3, <1>4 DEF OInv, SeededOnce
<1>11. HandledOnce'
  BY <1>1 DEF OInv, HandledOnce, Unshown
<1> QED BY <1>6, <1>7, <1>8, <1>9, <1>10, <1>11 DEF OInv

\* A message queued behind the others, all older ones being known, over or in the queue.
LEMMA EnqueueOrder ==
  ASSUME IInv, Buffers, OInv, NEW m \in Messages, Enqueue(m),
         UNCHANGED <<status, draining, pc, cur, seenQ, evicted, missed, history>>,
         pushes' \in [Messages -> Nat], \A k \in Messages \ {m} : pushes'[k] = pushes[k],
         served' \subseteq served \cup {m},
         status[m] \in {"queued", "processing", "failed"},
         \A k \in Messages : k < m => k \in Known \/ Over(k) \/ Waits(k)
  PROVE  OInv'
<1>1. /\ msgs \in Seq(Messages) => \A i \in 1..Len(msgs) : msgs[i] \in Messages
      /\ msgs \in Seq(Messages)
  BY DEF Buffers
<1>2. /\ Len(msgs) \in Nat /\ Len(msgs') = Len(msgs) + 1
      /\ \A i \in 1..Len(msgs) : msgs'[i] = msgs[i]
      /\ msgs'[Len(msgs')] = m
  BY <1>1, Enqueued
<1>3. /\ Known' = Known /\ \A k \in Messages : Over(k)' <=> Over(k)
      /\ \A k \in Messages : Waits(k)' <=> Waits(k) \/ k = m
  <2>1. Known' = Known /\ \A k \in Messages : Over(k)' <=> Over(k)
    BY DEF Known, Seen, Over
  <2>2. \A k \in Messages : Waits(k)' <=> Waits(k) \/ k = m
    BY <1>2 DEF Waits
  <2> QED BY <2>1, <2>2
<1>4. \A i \in 1..Len(msgs') : i \in 1..Len(msgs) \/ i = Len(msgs')
  BY <1>2
<1>5. Counts' /\ Posted'
  <2>1. Counts'
    BY DEF OInv, Counts
  <2>2. \A i \in 1..Len(msgs') : status[msgs'[i]] # "absent"
    BY <1>2, <1>4 DEF OInv, Posted
  <2>3. \A k \in Messages : status[k] = "absent" => pushes'[k] = 0
    BY DEF OInv, Posted
  <2> QED BY <2>1, <2>2, <2>3 DEF OInv, Posted
<1>6. InOrder'
  <2>1. ASSUME NEW i \in 1..Len(msgs), NEW k \in Messages, k < msgs[i]
        PROVE  k \in Known \/ Over(k) \/ \E j \in 1..(i - 1) : msgs'[j] = k
    <3>1. \A j \in 1..(i - 1) : j \in 1..Len(msgs)
      BY <1>2
    <3> QED BY <1>2, <2>1, <3>1 DEF OInv, InOrder
  <2>2. ASSUME NEW k \in Messages, k < m
        PROVE  k \in Known \/ Over(k) \/ \E j \in 1..(Len(msgs') - 1) : msgs'[j] = k
    BY <1>2, <2>2 DEF Waits
  <2>3. ASSUME NEW i \in 1..Len(msgs')
        PROVE  /\ msgs'[i] \in Known \/ status[msgs'[i]] # "processed"
               /\ \A k \in Messages : k < msgs'[i] =>
                    k \in Known \/ Over(k) \/ \E j \in 1..(i - 1) : msgs'[j] = k
    <3>1. CASE i \in 1..Len(msgs)
      BY <1>2, <2>1, <3>1 DEF OInv, InOrder
    <3>2. CASE i = Len(msgs')
      BY <1>2, <2>2, <3>2
    <3> QED BY <1>4, <3>1, <3>2
  <2> QED BY <1>3, <2>3 DEF InOrder
<1>7. HandedOut' /\ NotOwed'
  <2>1. served \subseteq Messages
    BY DEF OInv, Counts
  <2>2. HandedOut'
    BY <1>3, <2>1 DEF OInv, HandedOut
  <2>3. NotOwed'
    BY <1>3 DEF OInv, NotOwed
  <2> QED BY <2>2, <2>3
<1>8. Oldest' /\ SeededOnce' /\ HandledOnce'
  <2>1. Oldest'
    BY <1>3 DEF OInv, Oldest
  <2>2. SeededOnce'
    BY <1>3 DEF OInv, SeededOnce
  <2>3. HandledOnce'
    BY DEF OInv, HandledOnce, Unshown
  <2> QED BY <2>1, <2>2, <2>3
<1> QED BY <1>5, <1>6, <1>7, <1>8 DEF OInv

LEMMA DrainOrder ==
  ASSUME IInv, Buffers, OInv, OldestFirst, NEW m \in Messages, Drain(m)
  PROVE  OInv'
<1>1. /\ draining /\ Served(m) /\ Enqueue(m) /\ served' = served \cup {m}
      /\ UNCHANGED <<status, pushes, draining, pc, cur, seenQ, evicted, missed, history>>
  BY DEF Drain, dedup, memory, troubles
<1>2. status[m] \in {"queued", "processing", "failed"}
  BY <1>1 DEF Served, Servable
<1>3. ASSUME NEW k \in Messages, k < m
      PROVE  k \in Known \/ Over(k) \/ Waits(k)
  <2>1. k \notin Servable
    BY <1>1, <1>3 DEF Served, Messages
  <2>2. status[k] \in Statuses /\ status[k] # "absent"
    BY <1>2, <1>3 DEF IInv, Typed, OInv, Posted
  <2>3. k \in served \/ Over(k)
    BY <2>1, <2>2 DEF Servable, Over, Statuses
  <2> QED BY <2>3 DEF OInv, HandedOut
<1>4. pushes' \in [Messages -> Nat]
  BY <1>1 DEF OInv, Counts
<1> QED BY <1>1, <1>2, <1>3, <1>4, EnqueueOrder

LEMMA PushOrder ==
  ASSUME IInv, Buffers, OInv, NEW m \in Messages, Push(m)
  PROVE  OInv'
<1>1. /\ ~draining /\ Pushable(m) /\ Enqueue(m) /\ pushes' = [pushes EXCEPT ![m] = @ + 1]
      /\ UNCHANGED <<status, served, draining, pc, cur, seenQ, evicted, missed, history>>
  BY DEF Push, dedup, memory, troubles
<1>2. status[m] \in {"queued", "processing", "failed"}
  BY <1>1 DEF Pushable
<1>3. ASSUME NEW k \in Messages, k < m
      PROVE  k \in Known \/ Over(k) \/ Waits(k)
  <2>1. k \in 1..(m - 1)
    BY <1>3 DEF Messages
  <2>2. pushes[k] > 0 \/ status[k] # "queued"
    BY <1>1, <2>1 DEF Pushable
  <2>3. status[k] # "absent"
    BY <1>2, <1>3 DEF OInv, Posted
  <2> QED BY <1>1, <2>2, <2>3 DEF OInv, NotOwed
<1>4. pushes' \in [Messages -> Nat] /\ \A k \in Messages \ {m} : pushes'[k] = pushes[k]
  BY <1>1 DEF OInv, Counts
<1> QED BY <1>1, <1>2, <1>3, <1>4, EnqueueOrder

\* Steps that only make more messages known, or forget what was handed out.
LEMMA WiderOrder ==
  ASSUME IInv, Buffers, OInv, missed \subseteq missed', served' \subseteq served,
         UNCHANGED <<status, msgs, pc, cur, seenQ, evicted, history>>
  PROVE  InOrder' /\ HandedOut' /\ Oldest' /\ SeededOnce' /\ HandledOnce'
<1>1. /\ Known \subseteq Known' /\ served \subseteq Messages
      /\ \A k \in Messages : (Waits(k)' <=> Waits(k)) /\ (Over(k)' <=> Over(k))
  BY DEF Known, Seen, Waits, Over, OInv, Counts
<1>2. InOrder'
  BY <1>1 DEF OInv, InOrder
<1>3. HandedOut' /\ Oldest'
  BY <1>1 DEF OInv, HandedOut, Oldest
<1>4. SeededOnce'
  BY <1>1 DEF OInv, SeededOnce
<1>5. HandledOnce'
  BY DEF OInv, HandledOnce, Unshown
<1> QED BY <1>2, <1>3, <1>4, <1>5

LEMMA PushLostOrder ==
  ASSUME IInv, Buffers, OInv, NEW m \in Messages, PushLost(m)
  PROVE  OInv'
<1>1. /\ missed' = missed \cup {m} /\ pushes' = [pushes EXCEPT ![m] = @ + 1]
      /\ status[m] # "absent"
      /\ UNCHANGED <<status, served, draining, msgs, pc, cur, seenQ, evicted, history>>
  BY DEF PushLost, Pushable, feed, dedup, memory
<1>2. InOrder' /\ HandedOut' /\ Oldest' /\ SeededOnce' /\ HandledOnce'
  BY <1>1, WiderOrder
<1>3. pushes' \in [Messages -> Nat] /\ \A k \in Messages \ {m} : pushes'[k] = pushes[k]
  BY <1>1 DEF OInv, Counts
<1>4. Counts' /\ Posted'
  BY <1>1, <1>3 DEF OInv, Counts, Posted
<1>5. NotOwed'
  <2>1. /\ Known \subseteq Known' /\ m \in Known'
        /\ \A k \in Messages : (Waits(k)' <=> Waits(k)) /\ (Over(k)' <=> Over(k))
    BY <1>1 DEF Known, Seen, Waits, Over
  <2> QED BY <1>1, <1>3, <2>1 DEF OInv, NotOwed
<1> QED BY <1>2, <1>4, <1>5 DEF OInv

\* A drain that ends leaves nothing behind but what is missed from now on.
LEMMA DrainEndsOrder ==
  ASSUME IInv, Buffers, OInv, DrainEnds
  PROVE  OInv'
<1>1. /\ missed' = missed \/ missed' = missed \cup (Servable \ Seen)
      /\ Servable = {} \/ missed' = missed \cup (Servable \ Seen)
      /\ draining' = FALSE
      /\ UNCHANGED <<status, served, pushes, msgs, pc, cur, seenQ, evicted, history>>
  BY DEF DrainEnds, platform, dedup, memory
<1>2. InOrder' /\ HandedOut' /\ Oldest' /\ SeededOnce' /\ HandledOnce'
  BY <1>1, WiderOrder
<1>3. Counts' /\ Posted'
  BY <1>1 DEF OInv, Counts, Posted
<1>4. NotOwed'
  <2>1. /\ Known \subseteq Known' /\ \A k \in Servable : k \in Known'
        /\ \A k \in Messages : (Waits(k)' <=> Waits(k)) /\ (Over(k)' <=> Over(k))
    BY <1>1 DEF Known, Seen, Waits, Over
  <2>2. \A k \in Messages : k \in Servable \/ k \in served \/ Over(k) \/ status[k] = "absent"
    BY DEF Servable, Over, IInv, Typed, Statuses
  <2> QED BY <1>1, <2>1, <2>2 DEF OInv, HandedOut, NotOwed
<1> QED BY <1>2, <1>3, <1>4 DEF OInv

\* One that fails leaves what was queued behind as missed, or the connection with it.
LEMMA DrainFailsOrder ==
  ASSUME IInv, Buffers, OInv, DrainFails
  PROVE  OInv'
<1>1. /\ \/ missed' = missed \cup (Servable \ Seen) /\ draining' = FALSE /\ served' = served
         \/ missed' = missed /\ draining' = TRUE /\ served' = {}
      /\ UNCHANGED <<status, pushes, msgs, pc, cur, seenQ, evicted, history>>
  BY DEF DrainFails, dedup, memory
<1>2. InOrder' /\ HandedOut' /\ Oldest' /\ SeededOnce' /\ HandledOnce'
  <2>1. missed \subseteq missed' /\ served' \subseteq served
    BY <1>1
  <2> QED BY <1>1, <2>1, WiderOrder
<1>3. Counts' /\ Posted'
  BY <1>1 DEF OInv, Counts, Posted
<1>4. CASE draining' = TRUE
  <2>1. NotOwed'
    BY <1>4 DEF NotOwed
  <2> QED BY <1>2, <1>3, <2>1 DEF OInv
<1>5. CASE missed' = missed \cup (Servable \ Seen) /\ served' = served
  <2>1. /\ Known \subseteq Known' /\ \A k \in Servable : k \in Known'
        /\ \A k \in Messages : (Waits(k)' <=> Waits(k)) /\ (Over(k)' <=> Over(k))
    BY <1>1, <1>5 DEF Known, Seen, Waits, Over
  <2>2. \A k \in Messages : k \in Servable \/ k \in served \/ Over(k) \/ status[k] = "absent"
    BY DEF Servable, Over, IInv, Typed, Statuses
  <2>3. NotOwed'
    BY <1>1, <2>1, <2>2 DEF OInv, HandedOut, NotOwed
  <2> QED BY <1>2, <1>3, <2>3 DEF OInv
<1> QED BY <1>1, <1>4, <1>5

LEMMA ReconnectOrder ==
  ASSUME IInv, Buffers, OInv, Reconnect
  PROVE  OInv'
<1>1. /\ draining' = TRUE /\ served' = {}
      /\ UNCHANGED <<status, pushes, msgs, pc, cur, seenQ, evicted, missed, history>>
  BY DEF Reconnect, dedup, memory, troubles
<1>2. InOrder' /\ HandedOut' /\ Oldest' /\ SeededOnce' /\ HandledOnce'
  BY <1>1, WiderOrder
<1>3. Counts' /\ Posted' /\ NotOwed'
  BY <1>1 DEF OInv, Counts, Posted, NotOwed
<1> QED BY <1>2, <1>3 DEF OInv

\* Taking the first message moves it from the queue to what is known.
LEMMA TakeQueue ==
  ASSUME Buffers, OInv, msgs # <<>>, msgs' = Tail(msgs), Known \subseteq Known',
         Head(msgs) \in Known',
         UNCHANGED <<status, pushes, served, draining, history>>
  PROVE  /\ InOrder' /\ HandedOut' /\ NotOwed' /\ SeededOnce' /\ Counts'
         /\ \A i \in 1..Len(msgs') : status'[msgs'[i]] # "absent"
<1>1. msgs \in Seq(Messages)
  BY DEF Buffers
<1>2. /\ Len(msgs) \in Nat /\ Len(msgs') = Len(msgs) - 1
      /\ \A i \in 1..Len(msgs') : msgs'[i] = msgs[i + 1] /\ i + 1 \in 1..Len(msgs)
      /\ Head(msgs) = msgs[1]
  BY <1>1, Dequeued
<1>3. /\ \A k \in Messages : Over(k)' <=> Over(k)
      /\ \A k \in Messages : Waits(k)' => Waits(k)
      /\ \A k \in Messages : Waits(k) => Waits(k)' \/ k \in Known'
  <2>1. ASSUME NEW i \in 1..Len(msgs), i # 1
        PROVE  i - 1 \in 1..Len(msgs') /\ msgs'[i - 1] = msgs[i]
    BY <1>2, <2>1
  <2>2. ASSUME NEW k \in Messages, Waits(k)
        PROVE  Waits(k)' \/ k \in Known'
    <3>1. PICK i \in 1..Len(msgs) : msgs[i] = k
      BY <2>2 DEF Waits
    <3>2. CASE i = 1
      BY <1>2, <3>1, <3>2
    <3>3. CASE i # 1
      BY <2>1, <3>1, <3>3 DEF Waits
    <3> QED BY <3>2, <3>3
  <2>3. \A k \in Messages : Waits(k)' => Waits(k)
    BY <1>2 DEF Waits
  <2> QED BY <2>2, <2>3 DEF Over
<1>4. InOrder'
  <2>1. ASSUME NEW i \in 1..Len(msgs')
        PROVE  /\ msgs'[i] \in Known' \/ status[msgs'[i]] # "processed"
               /\ \A k \in Messages : k < msgs'[i] =>
                    k \in Known' \/ Over(k) \/ \E j \in 1..(i - 1) : msgs'[j] = k
    <3>1. msgs'[i] \in Known' \/ status[msgs'[i]] # "processed"
      BY <1>2 DEF OInv, InOrder
    <3>2. ASSUME NEW k \in Messages, k < msgs'[i], k \notin Known', ~Over(k)
          PROVE  \E j \in 1..(i - 1) : msgs'[j] = k
      <4>1. PICK j \in 1..((i + 1) - 1) : msgs[j] = k
        BY <1>2, <3>2 DEF OInv, InOrder
      <4>2. j # 1
        BY <1>2, <3>2, <4>1
      <4>3. j - 1 \in 1..(i - 1) /\ j - 1 \in 1..Len(msgs') /\ (j - 1) + 1 = j
        BY <1>2, <4>1, <4>2
      <4>4. msgs'[j - 1] = msgs[j]
        BY <1>2, <4>3
      <4> QED BY <4>1, <4>3, <4>4
    <3> QED BY <3>1, <3>2
  <2> QED BY <1>3, <2>1 DEF InOrder
<1>5. HandedOut'
  BY <1>3 DEF OInv, HandedOut, Counts
<1>6. NotOwed'
  BY <1>3 DEF OInv, NotOwed
<1>7. SeededOnce'
  BY <1>3 DEF OInv, SeededOnce
<1>8. \A i \in 1..Len(msgs') : status'[msgs'[i]] # "absent"
  BY <1>2 DEF OInv, Posted
<1> QED BY <1>4, <1>5, <1>6, <1>7, <1>8 DEF OInv, Counts

LEMMA TakeOrder ==
  ASSUME IInv, Buffers, OInv, Take
  PROVE  OInv'
<1>1. /\ pc = "idle" /\ msgs # <<>> /\ msgs' = Tail(msgs)
      /\ UNCHANGED <<status, pushes, served, draining, history, missed>>
      /\ msgs \in Seq(Messages) /\ seenQ \in Seq(Messages)
  BY DEF Take, platform, memory, troubles, Buffers
<1>2. Head(msgs) \in Messages /\ Head(msgs) = msgs[1] /\ 1 \in 1..Len(msgs)
  BY <1>1, Dequeued
<1>3. CASE Head(msgs) \in Seen /\ UNCHANGED <<pc, cur, dedup>>
  <2>1. Known' = Known /\ Head(msgs) \in Known /\ UNCHANGED <<cur, pc, evicted>>
    BY <1>1, <1>3 DEF Known, Seen, dedup
  <2>2. /\ InOrder' /\ HandedOut' /\ NotOwed' /\ SeededOnce' /\ Counts'
        /\ \A i \in 1..Len(msgs') : status'[msgs'[i]] # "absent"
    BY <1>1, <2>1, TakeQueue
  <2>3. Posted'
    BY <1>1, <2>1, <2>2 DEF OInv, Posted
  <2>4. Oldest' /\ HandledOnce'
    BY <1>1, <2>1 DEF Oldest, OInv, HandledOnce, Unshown
  <2> QED BY <2>2, <2>3, <2>4 DEF OInv
<1>4. ASSUME NEW m \in Messages, m = Head(msgs), m \notin Seen, pc' = "claim", cur' = m,
             seenQ' = Remember(seenQ, m), evicted' = evicted \cup Forgotten(seenQ, m)
      PROVE  OInv'
  <2>1. \A k \in Messages : k \notin Seen' /\ k \notin evicted' =>
          k # m /\ k \notin Seen /\ k \notin evicted
    BY <1>1, <1>4, SeenGrows
  <2>2. Known \subseteq Known' /\ m \in Known'
    <3>1. Seen \subseteq Messages
      BY <1>1 DEF Seen
    <3> QED BY <1>1, <1>4, <2>1, <3>1 DEF Known
  <2>3. /\ InOrder' /\ HandedOut' /\ NotOwed' /\ SeededOnce' /\ Counts'
        /\ \A i \in 1..Len(msgs') : status'[msgs'[i]] # "absent"
    BY <1>1, <1>4, <2>2, TakeQueue
  <2>4. Posted'
    <3>1. status[m] # "absent"
      BY <1>2, <1>4 DEF OInv, Posted
    <3> QED BY <1>1, <1>4, <2>3, <3>1 DEF OInv, Posted
  <2>5. Oldest'
    <3>1. ~(\E j \in 1..(1 - 1) : TRUE)
      OBVIOUS
    <3>2. \A k \in Messages : k < m => k \in Known \/ Over(k)
      BY <1>2, <1>4, <3>1 DEF OInv, InOrder
    <3> QED BY <1>1, <1>4, <2>2, <3>2 DEF Oldest, Over
  <2>6. HandledOnce'
    <3>1. m \notin missed \cup evicted => history[m] = 0
      <4>1. Waits(m)
        BY <1>2, <1>4 DEF Waits
      <4>2. history[m] \in Nat
        BY DEF OInv, Counts
      <4> QED BY <1>4, <4>1, <4>2 DEF OInv, SeededOnce, Known
    <3>2. \A k \in Messages \ (missed \cup evicted) : history[k] <= 1
      BY DEF OInv, HandledOnce
    <3> QED BY <1>1, <1>4, <3>1, <3>2 DEF HandledOnce
  <2> QED BY <2>3, <2>4, <2>5, <2>6 DEF OInv
<1> QED BY <1>2, <1>3, <1>4 DEF Take, AlreadySeen

LEMMA RestartOrder ==
  ASSUME IInv, Buffers, OInv, Restart
  PROVE  OInv'
<1>1. /\ UNCHANGED <<status, pushes>> /\ served' = {} /\ draining' = TRUE /\ msgs' = <<>>
      /\ pc' = "idle" /\ cur' = 0 /\ history' = [m \in Messages |-> 0]
  BY DEF Restart
<1>2. Len(msgs') = 0 /\ 0 \notin Messages
  BY <1>1 DEF Messages
<1>3. Counts' /\ Posted' /\ InOrder'
  BY <1>1, <1>2 DEF OInv, Counts, Posted, InOrder
<1>4. Oldest' /\ HandedOut' /\ NotOwed' /\ SeededOnce' /\ HandledOnce'
  BY <1>1, <1>2 DEF Oldest, HandedOut, NotOwed, SeededOnce, HandledOnce, Unshown
<1> QED BY <1>3, <1>4 DEF OInv

LEMMA OrderStep ==
  ASSUME IInv, Buffers, OInv, OldestFirst, [Next]_vars
  PROVE  OInv'
<1>1. CASE \E m \in Messages : Post(m) \/ Withdraw(m) \/ Drain(m) \/ Push(m) \/ PushLost(m)
  BY <1>1, PlatformOrder, DrainOrder, PushOrder, PushLostOrder
<1>2. CASE SeedHistory \/ EndTurn
  BY <1>2, SeedOrder, EndTurnOrder
<1>3. CASE (Handle \/ ToolSends \/ Leave) /\ ~SeedHistory /\ ~EndTurn
  <2>1. UNCHANGED history
    BY <1>3 DEF Handle, ToolSends, Leave, MarkProcessing, Begin, FinishTurn, StopTerminated,
       MarkFailed, FallbackSend, MarkProcessed, RunJudges, memory
  <2> QED BY <1>3, <2>1, HandleOrder
<1>4. CASE Stop \/ UNCHANGED vars
  <2>1. UNCHANGED <<platform, feed, pc, cur, dedup, memory, troubles>>
    BY <1>4 DEF Stop, vars
  <2>2. Calm /\ UNCHANGED <<history, pc, cur>>
    BY <2>1 DEF Calm, platform, feed, dedup, memory, troubles, OInv, Posted
  <2> QED BY <2>2, QuietOrder DEF Unshown
<1> QED
  BY <1>1, <1>2, <1>3, <1>4, TakeOrder, DrainEndsOrder, DrainFailsOrder, ReconnectOrder,
     RestartOrder
  DEF Next, Worker

\* On a platform that serves the oldest message first, the model is shown each message
\* once, as context or as a prompt, whatever else fails, but for the four kinds ShownOnce
\* names: those whose push was lost, those left in the queue by a drain that met a handled
\* message or failed after room_added, and those this process forgot (room.go
\* seedHistory, run.go drainRoom).
THEOREM MessagesAreShownOnce ==
  ASSUME OldestFirst
  PROVE  Spec => []ShownOnce
<1>1. Init => OInv
  BY InitOrder
<1>2. IInv /\ Buffers /\ OInv /\ [Next]_vars => OInv'
  BY OrderStep
<1>3. OInv => ShownOnce
  BY DEF OInv, HandledOnce, ShownOnce
<1> QED BY <1>1, <1>2, <1>3, Invariance, PTL DEF Spec
=============================================================================

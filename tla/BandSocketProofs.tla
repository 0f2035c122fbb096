-------------------------- MODULE BandSocketProofs --------------------------
(***************************************************************************)
(* Theorems about BandSocket and the websocket connection under it, for      *)
(* every set of rooms and every number of heartbeats, answers, pushes and    *)
(* stalls.  One part follows the refs: a reply on its way, in whatever        *)
(* frames, carries the ref of a request the platform has answered.  The       *)
(* other follows the frames: what a peer that keeps to the protocol has sent  *)
(* is put together again, whatever comes between the parts.                   *)
(***************************************************************************)
EXTENDS BandSocket, SequenceTheorems, TLAPS

USE SocketAssumption, WritersAssumption

Envelopes ==
  [event : {"reply", "push", "phx_close"}, about : Nat \cup Topics,
   what : {"ok", "rejected", "room_added", "other", "none"}]
Parts == Envelopes \X {1, 2}
Frames ==
  [op : {"text", "continuation", "ping", "pong", "close", "invalid"}, fin : BOOLEAN,
   pieces : Seq(Parts)]

Typed == inq \in Seq(Frames) /\ payload \in Seq(Parts)

LEMMA PartsOf ==
  ASSUME NEW m \in Envelopes
  PROVE  /\ Pieces(m) \in Seq(Parts) /\ Len(Pieces(m)) = 2
         /\ Pieces(m)[1] = <<m, 1>> /\ Pieces(m)[2] = <<m, 2>>
         /\ SubSeq(Pieces(m), 1, 1) = <<<<m, 1>>>> /\ SubSeq(Pieces(m), 2, 2) = <<<<m, 2>>>>
         /\ <<<<m, 1>>>> \in Seq(Parts) /\ <<<<m, 2>>>> \in Seq(Parts)
         /\ <<<<m, 1>>>> \o <<<<m, 2>>>> = Pieces(m)
<1> DEFINE a == <<m, 1>>
           b == <<m, 2>>
<1>1. a \in Parts /\ b \in Parts
  BY DEF Parts
<1>2. Pieces(m) = <<a, b>>
  BY DEF Pieces
<1>3. a = <<m, 1>> /\ b = <<m, 2>>
  OBVIOUS
<1> HIDE DEF a, b
<1>4. /\ <<a, b>> \in Seq(Parts) /\ Len(<<a, b>>) = 2 /\ <<a, b>>[1] = a /\ <<a, b>>[2] = b
      /\ <<a>> \in Seq(Parts) /\ <<b>> \in Seq(Parts)
  BY <1>1
<1>5. SubSeq(<<a, b>>, 1, 1) = <<a>>
  <2>1. /\ SubSeq(<<a, b>>, 1, 1) \in Seq(Parts) /\ Len(SubSeq(<<a, b>>, 1, 1)) = 1
        /\ Len(<<a>>) = 1
        /\ \A i \in 1..1 : SubSeq(<<a, b>>, 1, 1)[i] = <<a>>[i]
    BY <1>4
  <2> QED BY <1>4, <2>1, SeqEqual
<1>6. SubSeq(<<a, b>>, 2, 2) = <<b>>
  <2>1. /\ SubSeq(<<a, b>>, 2, 2) \in Seq(Parts) /\ Len(SubSeq(<<a, b>>, 2, 2)) = 1
        /\ Len(<<b>>) = 1
        /\ \A i \in 1..1 : SubSeq(<<a, b>>, 2, 2)[i] = <<b>>[i]
    BY <1>4
  <2> QED BY <1>4, <2>1, SeqEqual
<1>7. <<a>> \o <<b>> = <<a, b>>
  <2>1. /\ <<a>> \o <<b>> \in Seq(Parts) /\ Len(<<a>> \o <<b>>) = 2
        /\ \A i \in 1..2 : (<<a>> \o <<b>>)[i] = <<a, b>>[i]
    BY <1>4
  <2> QED BY <1>4, <2>1, SeqEqual
<1> QED BY <1>2, <1>3, <1>4, <1>5, <1>6, <1>7

LEMMA Listed ==
  ASSUME NEW S, NEW a \in S, NEW b \in S, NEW c \in S, NEW d \in S
  PROVE  /\ <<a>> \in Seq(S) /\ <<a, b, c, d>> \in Seq(S)
         /\ Len(<<a>>) = 1 /\ <<a>>[1] = a
         /\ Len(<<a, b, c, d>>) = 4 /\ <<a, b, c, d>>[1] = a /\ <<a, b, c, d>>[2] = b
         /\ <<a, b, c, d>>[3] = c /\ <<a, b, c, d>>[4] = d
OBVIOUS

LEMMA FramesOf ==
  ASSUME NEW m \in Envelopes
  PROVE  Whole(m) \in Seq(Frames) /\ Split(m) \in Seq(Frames)
<1>1. \A op \in {"text", "continuation", "ping", "pong", "close", "invalid"}, fin \in BOOLEAN,
         ps \in Seq(Parts) : Frame(op, fin, ps) \in Frames
  BY DEF Frame, Frames
<1>2. <<>> \in Seq(Parts) /\ TRUE \in BOOLEAN /\ FALSE \in BOOLEAN
  OBVIOUS
<1>3. /\ Frame("text", TRUE, Pieces(m)) \in Frames
      /\ Frame("text", FALSE, SubSeq(Pieces(m), 1, 1)) \in Frames
      /\ Frame("continuation", TRUE, SubSeq(Pieces(m), 2, 2)) \in Frames
  BY <1>1, <1>2, PartsOf
<1>4. Frame("ping", TRUE, <<>>) \in Frames /\ Frame("pong", TRUE, <<>>) \in Frames
  BY <1>1, <1>2
<1> QED BY <1>3, <1>4, Listed DEF Whole, Split
-----------------------------------------------------------------------------
(***************************************************************************)
(* How the frames of a peer that keeps to the protocol change the pieces     *)
(* ReadMessage has put together, one by one.                                 *)
(***************************************************************************)
Accepts(p, f, q) ==
  \/ f.op \in {"ping", "pong", "close"} /\ q = p
  \/ \E m \in Envelopes :
       \/ f = Frame("text", TRUE, Pieces(m)) /\ p = <<>> /\ q = <<>>
       \/ f = Frame("text", FALSE, <<<<m, 1>>>>) /\ p = <<>> /\ q = <<<<m, 1>>>>
       \/ f = Frame("continuation", TRUE, <<<<m, 2>>>>) /\ p = <<<<m, 1>>>> /\ q = <<>>

\* The frames fs lead from the pieces p to the pieces q.
Leads(fs, p, q) ==
  \E o \in [1..(Len(fs) + 1) -> Seq(Parts)] :
    /\ o[1] = p /\ o[Len(fs) + 1] = q
    /\ \A i \in 1..Len(fs) : Accepts(o[i], fs[i], o[i + 1])

LEMMA LeadsOn ==
  ASSUME NEW f \in Seq(Frames), NEW g \in Seq(Frames), NEW p, NEW q, NEW r,
         Leads(f, p, q), Leads(g, q, r)
  PROVE  Leads(f \o g, p, r)
<1>1. PICK a \in [1..(Len(f) + 1) -> Seq(Parts)] :
        /\ a[1] = p /\ a[Len(f) + 1] = q
        /\ \A i \in 1..Len(f) : Accepts(a[i], f[i], a[i + 1])
  BY DEF Leads
<1>2. PICK b \in [1..(Len(g) + 1) -> Seq(Parts)] :
        /\ b[1] = q /\ b[Len(g) + 1] = r
        /\ \A i \in 1..Len(g) : Accepts(b[i], g[i], b[i + 1])
  BY DEF Leads
<1>3. /\ Len(f) \in Nat /\ Len(g) \in Nat /\ Len(f \o g) = Len(f) + Len(g)
      /\ \A i \in 1..(Len(f) + Len(g)) :
           (f \o g)[i] = IF i <= Len(f) THEN f[i] ELSE g[i - Len(f)]
  BY ConcatProperties
<1> DEFINE h == f \o g
           o == [i \in 1..(Len(h) + 1) |-> IF i <= Len(f) THEN a[i] ELSE b[i - Len(f)]]
<1>4. o \in [1..(Len(h) + 1) -> Seq(Parts)]
  <2>1. ASSUME NEW i \in 1..(Len(h) + 1)
        PROVE  (IF i <= Len(f) THEN a[i] ELSE b[i - Len(f)]) \in Seq(Parts)
    <3>1. CASE i <= Len(f)
      <4>1. i \in 1..(Len(f) + 1)
        BY <1>3, <3>1
      <4> QED BY <1>1, <3>1, <4>1
    <3>2. CASE ~(i <= Len(f))
      <4>1. i - Len(f) \in 1..(Len(g) + 1)
        BY <1>3, <3>2
      <4> QED BY <1>2, <3>2, <4>1
    <3> QED BY <3>1, <3>2
  <2> QED BY <2>1
<1>5. /\ \A i \in 1..Len(f) : o[i] = a[i]
      /\ \A i \in 1..(Len(g) + 1) : o[Len(f) + i] = b[i]
  <2>1. \A i \in 1..Len(f) : o[i] = a[i]
    BY <1>3
  <2>2. ASSUME NEW i \in 1..(Len(g) + 1)
        PROVE  o[Len(f) + i] = b[i]
    <3>1. /\ Len(f) + i \in 1..(Len(h) + 1) /\ ~(Len(f) + i <= Len(f))
          /\ (Len(f) + i) - Len(f) = i
      BY <1>3
    <3> QED BY <3>1
  <2> QED BY <2>1, <2>2
<1> HIDE DEF o, h
<1>6. Len(h) = Len(f) + Len(g)
  BY <1>3 DEF h
<1>7. o[Len(f) + 1] = q
  <2>1. 1 \in 1..(Len(g) + 1)
    BY <1>3
  <2> QED BY <1>2, <1>5, <2>1
<1>8. o[1] = p
  <2>1. CASE Len(f) = 0
    <3>1. Len(f) + 1 = 1
      BY <2>1
    <3> QED BY <1>1, <1>7, <3>1
  <2>2. CASE 1 \in 1..Len(f)
    BY <1>1, <1>5, <2>2
  <2> QED BY <1>3, <2>1, <2>2
<1>9. o[Len(h) + 1] = r
  <2>1. Len(g) + 1 \in 1..(Len(g) + 1) /\ Len(h) + 1 = Len(f) + (Len(g) + 1)
    BY <1>3, <1>6
  <2> QED BY <1>2, <1>5, <2>1
<1>10. ASSUME NEW i \in 1..Len(h)
       PROVE  Accepts(o[i], h[i], o[i + 1])
  <2>1. CASE i <= Len(f)
    <3>1. i \in 1..Len(f) /\ h[i] = f[i]
      BY <1>3, <1>6, <2>1 DEF h
    <3>2. o[i] = a[i]
      BY <1>5, <3>1
    <3>3. CASE i = Len(f)
      BY <1>1, <1>7, <3>1, <3>2, <3>3
    <3>4. CASE i # Len(f)
      <4>1. i + 1 \in 1..Len(f)
        BY <1>3, <3>1, <3>4
      <4> QED BY <1>1, <1>5, <3>1, <3>2, <4>1
    <3> QED BY <3>3, <3>4
  <2>2. CASE ~(i <= Len(f))
    <3> DEFINE j == i - Len(f)
    <3>1. /\ j \in 1..Len(g) /\ j \in 1..(Len(g) + 1) /\ j + 1 \in 1..(Len(g) + 1)
          /\ i = Len(f) + j /\ i + 1 = Len(f) + (j + 1)
      BY <1>3, <1>6, <2>2
    <3>2. h[i] = g[j]
      BY <1>3, <1>6, <2>2 DEF h
    <3> HIDE DEF j
    <3>3. o[i] = b[j] /\ o[i + 1] = b[j + 1]
      BY <1>5, <3>1
    <3> QED BY <1>2, <3>1, <3>2, <3>3
  <2> QED BY <2>1, <2>2
<1> QED BY <1>4, <1>8, <1>9, <1>10 DEF Leads, h

LEMMA LeadsAfter ==
  ASSUME NEW f \in Seq(Frames), NEW p, NEW r, f # <<>>, Leads(f, p, r)
  PROVE  \E q \in Seq(Parts) : Accepts(p, Head(f), q) /\ Leads(Tail(f), q, r)
<1>1. PICK a \in [1..(Len(f) + 1) -> Seq(Parts)] :
        /\ a[1] = p /\ a[Len(f) + 1] = r
        /\ \A i \in 1..Len(f) : Accepts(a[i], f[i], a[i + 1])
  BY DEF Leads
<1>2. /\ Len(f) \in Nat /\ Len(f) >= 1 /\ Head(f) = f[1] /\ Len(Tail(f)) = Len(f) - 1
      /\ \A i \in 1..(Len(f) - 1) : Tail(f)[i] = f[i + 1]
  OBVIOUS
<1> DEFINE g == Tail(f)
           o == [i \in 1..(Len(g) + 1) |-> a[i + 1]]
<1>3. \A i \in 1..(Len(g) + 1) : i + 1 \in 1..(Len(f) + 1)
  BY <1>2
<1>4. o \in [1..(Len(g) + 1) -> Seq(Parts)] /\ \A i \in 1..(Len(g) + 1) : o[i] = a[i + 1]
  BY <1>1, <1>3
<1> HIDE DEF o
<1>5. o[1] = a[2] /\ o[Len(g) + 1] = r
  BY <1>1, <1>2, <1>4
<1>6. ASSUME NEW i \in 1..Len(g)
      PROVE  Accepts(o[i], g[i], o[i + 1])
  <2>1. /\ i \in 1..(Len(g) + 1) /\ i + 1 \in 1..(Len(g) + 1) /\ i + 1 \in 1..Len(f)
        /\ g[i] = f[i + 1]
    BY <1>2
  <2>2. o[i] = a[i + 1] /\ o[i + 1] = a[(i + 1) + 1]
    BY <1>4, <2>1
  <2> QED BY <1>1, <2>1, <2>2
<1>7. Leads(Tail(f), a[2], r)
  BY <1>4, <1>5, <1>6 DEF Leads
<1>8. a[2] \in Seq(Parts) /\ Accepts(p, Head(f), a[2])
  BY <1>1, <1>2
<1> QED BY <1>7, <1>8

\* A frame on its own, and the frames of one message.
LEMMA LeadsOne ==
  ASSUME NEW f \in Frames, NEW p \in Seq(Parts), NEW q \in Seq(Parts), Accepts(p, f, q)
  PROVE  Leads(<<f>>, p, q)
<1> DEFINE o == [i \in 1..2 |-> IF i = 1 THEN p ELSE q]
<1>1. Len(<<f>>) = 1 /\ <<f>>[1] = f /\ 1 + 1 = 2
  OBVIOUS
<1>2. o \in [1..2 -> Seq(Parts)] /\ o[1] = p /\ o[2] = q
  OBVIOUS
<1> HIDE DEF o
<1>3. \A i \in 1..1 : Accepts(o[i], <<f>>[i], o[i + 1])
  <2>1. \A i \in 1..1 : i = 1
    OBVIOUS
  <2> QED BY <1>1, <1>2, <2>1
<1> QED BY <1>1, <1>2, <1>3 DEF Leads

LEMMA LeadsWhole ==
  ASSUME NEW m \in Envelopes
  PROVE  Leads(Whole(m), <<>>, <<>>)
<1>1. Frame("text", TRUE, Pieces(m)) \in Frames
  BY PartsOf DEF Frame, Frames
<1>2. Accepts(<<>>, Frame("text", TRUE, Pieces(m)), <<>>)
  BY DEF Accepts
<1>3. <<>> \in Seq(Parts)
  OBVIOUS
<1> QED BY <1>1, <1>2, <1>3, LeadsOne DEF Whole

LEMMA LeadsSplit ==
  ASSUME NEW m \in Envelopes
  PROVE  Leads(Split(m), <<>>, <<>>)
<1> DEFINE begin == Frame("text", FALSE, <<<<m, 1>>>>)
           ping == Frame("ping", TRUE, <<>>)
           pong == Frame("pong", TRUE, <<>>)
           end == Frame("continuation", TRUE, <<<<m, 2>>>>)
           half == <<<<m, 1>>>>
           o == [i \in 1..5 |-> IF i \in {2, 3, 4} THEN half ELSE <<>>]
<1>1. Split(m) = <<begin, ping, pong, end>>
  BY PartsOf DEF Split
<1>2. /\ Accepts(<<>>, begin, half) /\ Accepts(half, end, <<>>)
      /\ Accepts(half, ping, half) /\ Accepts(half, pong, half)
  BY DEF Accepts, Frame
<1>3. half \in Seq(Parts)
  BY PartsOf
<1> HIDE DEF begin, ping, pong, end, half
<1>4. /\ o \in [1..5 -> Seq(Parts)]
      /\ o[1] = <<>> /\ o[2] = half /\ o[3] = half /\ o[4] = half /\ o[5] = <<>>
  <2>1. <<>> \in Seq(Parts)
    OBVIOUS
  <2> QED BY <1>3, <2>1
<1> HIDE DEF o
<1>5. /\ Len(Split(m)) = 4 /\ Split(m)[1] = begin /\ Split(m)[2] = ping
      /\ Split(m)[3] = pong /\ Split(m)[4] = end
  BY <1>1
<1>6. ASSUME NEW i \in 1..4
      PROVE  Accepts(o[i], Split(m)[i], o[i + 1])
  <2>1. i \in {1, 2, 3, 4} /\ 1 + 1 = 2 /\ 2 + 1 = 3 /\ 3 + 1 = 4 /\ 4 + 1 = 5
    OBVIOUS
  <2> QED BY <1>2, <1>4, <1>5, <2>1
<1> QED BY <1>4, <1>5, <1>6 DEF Leads

LEMMA PartsOfFrames ==
  ASSUME NEW m \in Envelopes, NEW fs \in {Whole(m), Split(m)}
  PROVE  \A i \in 1..Len(fs) : \A j \in 1..Len(fs[i].pieces) : fs[i].pieces[j][1] = m
<1>1. /\ \A j \in 1..Len(Pieces(m)) : Pieces(m)[j][1] = m
      /\ \A j \in 1..Len(<<<<m, 1>>>>) : <<<<m, 1>>>>[j][1] = m
      /\ \A j \in 1..Len(<<<<m, 2>>>>) : <<<<m, 2>>>>[j][1] = m
  BY DEF Pieces
<1>2. CASE fs = Whole(m)
  BY <1>1, <1>2 DEF Whole, Frame
<1>3. CASE fs = Split(m)
  <2> DEFINE a == Frame("text", FALSE, <<<<m, 1>>>>)
             b == Frame("ping", TRUE, <<>>)
             c == Frame("pong", TRUE, <<>>)
             d == Frame("continuation", TRUE, <<<<m, 2>>>>)
  <2>1. fs = <<a, b, c, d>>
    BY <1>3, PartsOf DEF Split
  <2>2. /\ \A j \in 1..Len(a.pieces) : a.pieces[j][1] = m
        /\ \A j \in 1..Len(d.pieces) : d.pieces[j][1] = m
        /\ Len(b.pieces) = 0 /\ Len(c.pieces) = 0
    BY <1>1 DEF Frame
  <2> HIDE DEF a, b, c, d
  <2>3. Len(fs) = 4 /\ fs[1] = a /\ fs[2] = b /\ fs[3] = c /\ fs[4] = d
    BY <2>1
  <2>4. ASSUME NEW i \in 1..4
        PROVE  \A j \in 1..Len(fs[i].pieces) : fs[i].pieces[j][1] = m
    <3>1. i \in {1, 2, 3, 4}
      OBVIOUS
    <3> QED BY <2>2, <2>3, <3>1
  <2> QED BY <2>3, <2>4
<1> QED BY <1>2, <1>3
-----------------------------------------------------------------------------
(***************************************************************************)
(* The refs: no two requests share one, so what the pump waits for is its    *)
(* own join.                                                                 *)
(***************************************************************************)
Waiting == ppc \in {"send", "wait"}

RefInv ==
  /\ nextRef \in Nat /\ ref \in 0..nextRef /\ beat \in 0..nextRef
  /\ ref # 0 => beat # ref
  /\ \A q \in wire : q.ref \in 0..nextRef /\ (ref # 0 /\ q.ref = ref => q.topic = topic)
  /\ \A a \in replies : a.to \in wire
  /\ Waiting => ref # 0 /\ ref \in DOMAIN pending

LEMMA RefInit ==
  ASSUME Init
  PROVE  RefInv
BY DEF Init, RefInv, Waiting

LEMMA Receives ==
  ASSUME NEW req, NEW w, Received(req, w)
  PROVE  wire' = wire \/ wire' = wire \cup {req}
BY DEF Received

\* A request of its own: the next ref is nobody's yet.
LEMMA JoinRefs ==
  ASSUME RefInv, Join
  PROVE  RefInv'
<1>1. /\ nextRef' = nextRef + 1 /\ ref' = nextRef' /\ UNCHANGED <<replies, beat>>
      /\ DOMAIN pending' = DOMAIN pending \cup {ref'}
  BY DEF Join, Awaits, heart
<1>2. \/ wire' = wire
      \/ wire' = wire \cup {[ref |-> ref', topic |-> topic', join |-> joinRefs'[topic']]}
  BY Receives DEF Join
<1>3. \A q \in wire' : q.ref \in 0..nextRef' /\ (q.ref = ref' => q.topic = topic')
  BY <1>1, <1>2 DEF RefInv
<1>4. /\ nextRef' \in Nat /\ ref' \in 0..nextRef' /\ beat' \in 0..nextRef' /\ beat' # ref'
      /\ ref' # 0
  BY <1>1 DEF RefInv
<1>5. \A a \in replies' : a.to \in wire'
  BY <1>1, <1>2 DEF RefInv
<1> QED BY <1>1, <1>3, <1>4, <1>5 DEF RefInv

LEMMA BeatRefs ==
  ASSUME RefInv, Beat
  PROVE  RefInv'
<1>1. /\ nextRef' = nextRef + 1 /\ beat' = nextRef'
      /\ UNCHANGED <<replies, ref, topic, ppc, pending>>
  BY DEF Beat, pump
<1>2. \/ wire' = wire
      \/ wire' = wire \cup {[ref |-> beat', topic |-> "phoenix", join |-> 0]}
  BY Receives DEF Beat
<1>3. /\ nextRef' \in Nat /\ ref' \in 0..nextRef' /\ beat' \in 0..nextRef' /\ beat' # ref'
      /\ nextRef \in Nat
  BY <1>1 DEF RefInv
<1>4. \A q \in wire' : q.ref \in 0..nextRef' /\ (ref' # 0 /\ q.ref = ref' => q.topic = topic')
  BY <1>1, <1>2, <1>3 DEF RefInv
<1>5. \A a \in replies' : a.to \in wire'
  BY <1>1, <1>2 DEF RefInv
<1> QED BY <1>1, <1>3, <1>4, <1>5 DEF RefInv, Waiting

LEMMA WriteRefs ==
  ASSUME RefInv, NEW w \in Writers, Writes(w)
  PROVE  RefInv'
<1>1. UNCHANGED <<nextRef, ref, beat, topic, ppc, pending, replies>>
  BY DEF Writes, Blocked, Unblocked, session, heart, pump, platform
<1>2. wire' = wire \/ wire' = wire \cup {Request(w)}
  BY Receives DEF Writes, Blocked, Unblocked, platform
<1>3. /\ Request(w).ref \in 0..nextRef
      /\ ref # 0 /\ Request(w).ref = ref => Request(w).topic = topic
  BY DEF Request, RefInv
<1> QED BY <1>1, <1>2, <1>3 DEF RefInv, Waiting

LEMMA AnswerRefs ==
  ASSUME RefInv, Answer
  PROVE  RefInv'
<1>1. UNCHANGED <<nextRef, ref, beat, topic, ppc, pending, wire>>
  BY DEF Answer, session, heart, pump
<1>2. \A a \in replies' : a.to \in wire
  BY DEF Answer, RefInv
<1> QED BY <1>1, <1>2 DEF RefInv, Waiting

LEMMA CloseRefs ==
  ASSUME RefInv, CloseBegins
  PROVE  RefInv'
<1>1. /\ UNCHANGED <<nextRef, beat>> /\ ref' = 0 /\ wire' = {} /\ replies' = {}
      /\ ppc' = "closing"
  BY DEF CloseBegins, heart
<1> QED BY <1>1 DEF RefInv, Waiting

\* What no other step does.
LEMMA RefFrame ==
  ASSUME RefInv, UNCHANGED <<nextRef, ref, topic, wire, replies>>, beat' \in {beat, 0},
         Waiting' => Waiting /\ DOMAIN pending' = DOMAIN pending
  PROVE  RefInv'
BY DEF RefInv, Waiting

LEMMA RefStep ==
  ASSUME RefInv, [Next]_vars
  PROVE  RefInv'
<1>1. CASE \/ PushEvent \/ Oddity \/ CtxEnds \/ ConnectionDrops \/ PeerResumes
           \/ DeadlinePasses \/ BeatsEnd \/ Reads \/ ReadEnds \/ TakeMessage \/ UNCHANGED vars
  <2>1. UNCHANGED <<nextRef, ref, topic, wire, replies, beat, ppc, pending>>
    BY <1>1 DEF PushEvent, Oddity, CtxEnds, ConnectionDrops, PeerResumes, DeadlinePasses,
       Unobserved, BeatsEnd, Reads, ReadEnds, TakeMessage, vars, session, heart, pump, platform
  <2> QED BY <2>1, RefFrame DEF Waiting
<1>2. CASE BeatSent \/ Deliver
  <2>1. /\ UNCHANGED <<nextRef, ref, topic, wire, replies, ppc>> /\ beat' \in {beat, 0}
        /\ DOMAIN pending' = DOMAIN pending
    BY <1>2 DEF BeatSent, Deliver, pump, heart, platform
  <2> QED BY <2>1, RefFrame DEF Waiting
<1>3. CASE Connect \/ JoinRefused \/ JoinEnds \/ Serve \/ CloseEnds
  <2>1. UNCHANGED <<nextRef, ref, topic, wire, replies, beat>>
    BY <1>3 DEF Connect, JoinRefused, JoinEnds, Serve, CloseEnds, session, heart, platform
  <2>2. ~Waiting'
    BY <1>3 DEF Connect, JoinRefused, JoinEnds, Serve, CloseEnds, Failed, Waiting
  <2> QED BY <2>1, <2>2, RefFrame
<1>4. CASE JoinSent
  <2>1. UNCHANGED <<nextRef, ref, topic, wire, replies, beat>>
    BY <1>4 DEF JoinSent, heart, platform
  <2>2. ppc = "send" /\ ((ppc' = "wait" /\ UNCHANGED pending) \/ ppc' \in {"live", "close"})
    BY <1>4 DEF JoinSent, Failed
  <2> QED BY <2>1, <2>2, RefFrame DEF Waiting
<1> QED
  BY <1>1, <1>2, <1>3, <1>4, JoinRefs, BeatRefs, WriteRefs, AnswerRefs, CloseRefs
  DEF Next, Heart, ReadLoop, Pump
-----------------------------------------------------------------------------
(***************************************************************************)
(* The frames.                                                              *)
(***************************************************************************)
\* Unless the peer sent something else, what it has sent still leads to whole messages.
Assembled ==
  ~garbled => (fragment <=> payload # <<>>) /\ Leads(inq, payload, <<>>)

FrameInv == Typed /\ Assembled

LEMMA EnvelopesOf ==
  ASSUME RefInv
  PROVE  /\ \A q \in wire, st \in {"ok", "rejected"} : Envelope("reply", q.ref, st) \in Envelopes
         /\ \A r \in Rooms : Envelope("push", r, "room_added") \in Envelopes
         /\ Envelope("push", RoomsTopic, "other") \in Envelopes
         /\ Envelope("phx_close", 0, "none") \in Envelopes
<1>1. \A q \in wire : q.ref \in Nat
  BY DEF RefInv
<1>2. Rooms \subseteq Topics /\ RoomsTopic \in Topics
  BY DEF Topics
<1> QED BY <1>1, <1>2 DEF Envelope, Envelopes

LEMMA ArrivesStep ==
  ASSUME Typed, NEW fs \in Seq(Frames), Arrives(fs)
  PROVE  /\ Typed' /\ inq' = inq \o fs /\ UNCHANGED <<payload, fragment, rpc>>
         /\ Assembled /\ UNCHANGED garbled /\ Leads(fs, <<>>, <<>>) => Assembled'
         /\ garbled' => Assembled'
<1>1. inq' = inq \o fs /\ UNCHANGED <<payload, fragment, rpc>>
  BY DEF Arrives, reader
<1>2. inq' \in Seq(Frames)
  BY <1>1, ConcatProperties DEF Typed
<1>3. ASSUME Assembled, UNCHANGED garbled, Leads(fs, <<>>, <<>>)
      PROVE  Assembled'
  <2>1. CASE garbled
    BY <1>3, <2>1 DEF Assembled
  <2>2. CASE ~garbled
    <3>1. Leads(inq, payload, <<>>) /\ (fragment <=> payload # <<>>)
      BY <1>3, <2>2 DEF Assembled
    <3>2. Leads(inq \o fs, payload, <<>>)
      BY <1>3, <3>1, LeadsOn DEF Typed
    <3> QED BY <1>1, <3>1, <3>2 DEF Assembled
  <2> QED BY <2>1, <2>2
<1>4. garbled' => Assembled'
  BY DEF Assembled
<1> QED BY <1>1, <1>2, <1>3, <1>4 DEF Typed

LEMMA SendsStep ==
  ASSUME Typed, NEW m \in Envelopes, Sends(m)
  PROVE  \E fs \in {Whole(m), Split(m)} : Arrives(fs)
BY DEF Sends

LEMMA AnswerFrames ==
  ASSUME RefInv, FrameInv, Answer
  PROVE  FrameInv'
<1>1. PICK q \in wire, st \in {"ok", "rejected"} : Sends(Envelope("reply", q.ref, st))
  BY DEF Answer
<1>2. PICK m \in Envelopes : Sends(m)
  BY <1>1, EnvelopesOf
<1>3. PICK fs \in {Whole(m), Split(m)} : Arrives(fs)
  BY <1>2, SendsStep DEF FrameInv
<1>4. fs \in Seq(Frames) /\ Leads(fs, <<>>, <<>>)
  BY FramesOf, LeadsWhole, LeadsSplit
<1>5. UNCHANGED garbled
  BY DEF Answer
<1> QED BY <1>3, <1>4, <1>5, ArrivesStep DEF FrameInv

LEMMA PushFrames ==
  ASSUME RefInv, FrameInv, PushEvent
  PROVE  FrameInv'
<1>1. PICK r \in Rooms :
        LET added == Whole(Envelope("push", r, "room_added"))
            other == Whole(Envelope("push", RoomsTopic, "other"))
        IN  Arrives(added) \/ Arrives(other \o added)
  BY DEF PushEvent
<1>2. PICK m \in Envelopes, n \in Envelopes : Arrives(Whole(m)) \/ Arrives(Whole(n) \o Whole(m))
  BY <1>1, EnvelopesOf
<1>3. /\ Whole(m) \in Seq(Frames) /\ Whole(n) \in Seq(Frames)
      /\ Leads(Whole(m), <<>>, <<>>) /\ Leads(Whole(n), <<>>, <<>>)
  BY FramesOf, LeadsWhole
<1>4. /\ Whole(n) \o Whole(m) \in Seq(Frames)
      /\ Leads(Whole(n) \o Whole(m), <<>>, <<>>)
  BY <1>3, ConcatProperties, LeadsOn
<1>5. UNCHANGED garbled
  BY DEF PushEvent
<1> QED BY <1>2, <1>3, <1>4, <1>5, ArrivesStep DEF FrameInv

LEMMA OddityFrames ==
  ASSUME RefInv, FrameInv, Oddity
  PROVE  FrameInv'
<1>1. CASE Arrives(Whole(Envelope("phx_close", 0, "none"))) /\ UNCHANGED garbled
  <2>1. PICK m \in Envelopes : Arrives(Whole(m))
    BY <1>1, EnvelopesOf
  <2>2. Whole(m) \in Seq(Frames) /\ Leads(Whole(m), <<>>, <<>>)
    BY FramesOf, LeadsWhole
  <2> QED BY <1>1, <2>1, <2>2, ArrivesStep DEF FrameInv
<1>2. ASSUME NEW op \in {"text", "invalid"}, Arrives(<<Frame(op, TRUE, <<>>)>>), garbled' = TRUE
      PROVE  FrameInv'
  <2>1. Frame(op, TRUE, <<>>) \in Frames
    <3>1. <<>> \in Seq(Parts) /\ TRUE \in BOOLEAN
      OBVIOUS
    <3> QED BY <3>1 DEF Frame, Frames
  <2>2. <<Frame(op, TRUE, <<>>)>> \in Seq(Frames)
    BY <2>1, Listed
  <2> QED BY <1>2, <2>2, ArrivesStep DEF FrameInv
<1>3. CASE Arrives(<<Frame("close", TRUE, <<>>)>>) /\ UNCHANGED garbled
  <2>1. <<>> \in Seq(Parts) /\ TRUE \in BOOLEAN
    OBVIOUS
  <2>2. Frame("close", TRUE, <<>>) \in Frames
    BY <2>1 DEF Frame, Frames
  <2>3. Accepts(<<>>, Frame("close", TRUE, <<>>), <<>>)
    BY DEF Accepts, Frame
  <2>4. /\ <<Frame("close", TRUE, <<>>)>> \in Seq(Frames)
        /\ Leads(<<Frame("close", TRUE, <<>>)>>, <<>>, <<>>)
    BY <2>1, <2>2, <2>3, Listed, LeadsOne
  <2> QED BY <1>3, <2>4, ArrivesStep DEF FrameInv
<1> QED BY <1>1, <1>2, <1>3 DEF Oddity

\* Reading a frame.
LEMMA Reading ==
  ASSUME FrameInv, Arrived
  PROVE  /\ inq' \in Seq(Frames) /\ Head(inq) \in Frames
         /\ ~garbled => \E q \in Seq(Parts) : /\ Accepts(payload, Head(inq), q)
                                               /\ Leads(inq', q, <<>>)
<1>1. inq \in Seq(Frames) /\ inq # <<>> /\ inq' = Tail(inq)
  BY DEF FrameInv, Typed, Arrived
<1>2. inq' \in Seq(Frames) /\ Head(inq) \in Frames
  BY <1>1
<1>3. ~garbled => \E q \in Seq(Parts) : Accepts(payload, Head(inq), q) /\ Leads(inq', q, <<>>)
  BY <1>1, LeadsAfter DEF FrameInv, Assembled
<1> QED BY <1>2, <1>3

LEMMA ReadsFrames ==
  ASSUME FrameInv, Reads
  PROVE  FrameInv'
<1>1. UNCHANGED garbled
  BY DEF Reads, platform
<1>2. CASE ReadPart
  <2>1. /\ Arrived /\ Head(inq).op = "text" /\ ~fragment /\ ~Head(inq).fin
        /\ payload' = Head(inq).pieces /\ fragment' = TRUE
    BY <1>2 DEF ReadPart
  <2>2. inq' \in Seq(Frames) /\ payload' \in Seq(Parts)
    BY <2>1, Reading DEF Frames
  <2>3. ASSUME ~garbled
        PROVE  payload' # <<>> /\ Leads(inq', payload', <<>>)
    <3>1. PICK q \in Seq(Parts) : Accepts(payload, Head(inq), q) /\ Leads(inq', q, <<>>)
      BY <2>1, <2>3, Reading
    <3>2. PICK m \in Envelopes : Head(inq) = Frame("text", FALSE, <<<<m, 1>>>>) /\ q = <<<<m, 1>>>>
      BY <2>1, <3>1 DEF Accepts, Frame
    <3>3. payload' = <<<<m, 1>>>> /\ <<<<m, 1>>>> # <<>>
      BY <2>1, <3>2 DEF Frame
    <3> QED BY <3>1, <3>2, <3>3
  <2> QED BY <1>1, <2>1, <2>2, <2>3 DEF FrameInv, Typed, Assembled
<1>3. CASE ReadPing \/ ReadPong
  <2>1. /\ Arrived /\ Head(inq).op \in {"ping", "pong"}
        /\ fragment' = fragment /\ payload' = payload
    BY <1>3 DEF ReadPing, ReadPong, Kept
  <2>2. inq' \in Seq(Frames)
    BY <2>1, Reading
  <2>3. ASSUME ~garbled
        PROVE  Leads(inq', payload, <<>>)
    <3>1. PICK q \in Seq(Parts) : Accepts(payload, Head(inq), q) /\ Leads(inq', q, <<>>)
      BY <2>1, <2>3, Reading
    <3>2. q = payload
      BY <2>1, <3>1 DEF Accepts, Frame
    <3> QED BY <3>1, <3>2
  <2> QED BY <1>1, <2>1, <2>2, <2>3 DEF FrameInv, Typed, Assembled
<1>4. CASE PongWritten
  BY <1>1, <1>4 DEF PongWritten, FrameInv, Typed, Assembled
<1> QED BY <1>2, <1>3, <1>4 DEF Reads

\* A message the peer has completed is an envelope.
LEMMA Messages ==
  ASSUME FrameInv, NEW m, ReadLast(m)
  PROVE  /\ m = payload \o Head(inq).pieces /\ Head(inq) \in Frames
         /\ Typed' /\ payload' = <<>> /\ fragment' = FALSE
         /\ ~garbled => Decodes(m) /\ Leads(inq', <<>>, <<>>)
<1>1. /\ Arrived /\ m = payload \o Head(inq).pieces /\ payload' = <<>> /\ fragment' = FALSE
      /\ Head(inq).op \in {"text", "continuation"} /\ Head(inq).fin /\ ~Misplaced(Head(inq))
  BY DEF ReadLast
<1>2. inq' \in Seq(Frames) /\ Head(inq) \in Frames
  BY <1>1, Reading
<1>3. Typed'
  <2>1. <<>> \in Seq(Parts)
    OBVIOUS
  <2> QED BY <1>1, <1>2, <2>1 DEF Typed
<1>4. ASSUME ~garbled
      PROVE  Decodes(m) /\ Leads(inq', <<>>, <<>>)
  <2>1. PICK q \in Seq(Parts) : Accepts(payload, Head(inq), q) /\ Leads(inq', q, <<>>)
    BY <1>1, <1>4, Reading
  <2>2. PICK e \in Envelopes :
          \/ Head(inq).pieces = Pieces(e) /\ payload = <<>> /\ q = <<>>
          \/ Head(inq).pieces = <<<<e, 2>>>> /\ payload = <<<<e, 1>>>> /\ q = <<>>
    BY <1>1, <2>1 DEF Accepts, Frame
  <2>3. m = Pieces(e)
    <3>1. <<>> \o Pieces(e) = Pieces(e)
      BY PartsOf, ConcatEmptySeq
    <3> QED BY <1>1, <2>2, <3>1, PartsOf
  <2>4. m[1][1] = e /\ m # <<>>
    BY <2>3 DEF Pieces
  <2> QED BY <2>1, <2>2, <2>3, <2>4 DEF Decodes
<1> QED BY <1>1, <1>2, <1>3, <1>4

\* What no other step touches.
Unread == UNCHANGED <<inq, fragment, payload, garbled>>

LEMMA FrameSame ==
  ASSUME FrameInv, Unread
  PROVE  FrameInv'
BY DEF FrameInv, Typed, Assembled, Unread

LEMMA Quiet ==
  ASSUME \/ CtxEnds \/ ConnectionDrops \/ PeerResumes \/ DeadlinePasses
         \/ \E w \in Writers : Writes(w)
         \/ Heart \/ ReadEnds \/ Deliver \/ Pump \/ UNCHANGED vars
  PROVE  Unread
<1>1. CASE CtxEnds \/ ConnectionDrops \/ PeerResumes \/ DeadlinePasses \/ UNCHANGED vars
  BY <1>1 DEF CtxEnds, ConnectionDrops, PeerResumes, DeadlinePasses, Drop, Resume, Expire,
     Unobserved, vars, conn, reader, platform, Unread
<1>2. ASSUME NEW w \in Writers, Writes(w)
      PROVE  Unread
  BY <1>2 DEF Writes, Blocked, TakesTurn, Unblocked, WriteEnds, reader, platform, Unread
<1>3. CASE Heart
  BY <1>3 DEF Heart, Beat, BeatSent, BeatsEnd, conn, reader, platform, Unread
<1>4. CASE ReadEnds \/ Deliver
  BY <1>4 DEF ReadEnds, ReadFails, PongFails, Deliver, platform, Unread
<1>5. CASE Connect \/ Join \/ JoinRefused \/ JoinSent
  BY <1>5 DEF Connect, Dial, Join, JoinRefused, JoinSent, conn, reader, platform, Unread
<1>6. CASE JoinEnds \/ Serve \/ CloseBegins \/ CloseEnds
  BY <1>6 DEF JoinEnds, Serve, CloseBegins, CloseEnds, conn, reader, platform, Unread
<1> QED BY <1>1, <1>2, <1>3, <1>4, <1>5, <1>6 DEF Pump

LEMMA TakeFrames ==
  ASSUME FrameInv, TakeMessage
  PROVE  FrameInv'
<1>1. PICK m : ReadLast(m) /\ UNCHANGED garbled
  BY DEF TakeMessage, platform
<1> QED BY <1>1, Messages DEF FrameInv, Assembled

LEMMA FrameStep ==
  ASSUME RefInv, FrameInv, [Next]_vars
  PROVE  FrameInv'
BY AnswerFrames, PushFrames, OddityFrames, ReadsFrames, TakeFrames, Quiet, FrameSame
DEF Next, ReadLoop

LEMMA FrameInit ==
  ASSUME Init
  PROVE  FrameInv
<1>1. inq = <<>> /\ payload = <<>> /\ fragment = FALSE
  BY DEF Init, ConnInit
<1>2. <<>> \in Seq(Frames) /\ <<>> \in Seq(Parts) /\ Len(<<>>) = 0
  OBVIOUS
<1>3. Leads(<<>>, <<>>, <<>>)
  <2> DEFINE o == [i \in 1..1 |-> <<>>]
  <2>1. o \in [1..1 -> Seq(Parts)] /\ o[1] = <<>> /\ 0 + 1 = 1
    BY <1>2
  <2> HIDE DEF o
  <2> QED BY <1>2, <2>1 DEF Leads
<1> QED BY <1>1, <1>2, <1>3 DEF FrameInv, Typed, Assembled

-----------------------------------------------------------------------------
(***************************************************************************)
(* How the socket ends.                                                     *)
(***************************************************************************)
LEMMA ShutDownEnds ==
  ASSUME EndJustified, garbled => garbled', NEW err, err # "none", ShutDown(err),
         err = "garbage" => garbled
  PROVE  EndJustified'
BY DEF EndJustified, ShutDown, Dead

LEMMA EndSame ==
  ASSUME EndJustified, garbled => garbled', UNCHANGED signal
  PROVE  EndJustified'
BY DEF EndJustified, Dead, signal

LEMMA ReadEndsWell ==
  ASSUME FrameInv, EndJustified, ReadEnds
  PROVE  EndJustified'
<1>1. UNCHANGED garbled
  BY DEF ReadEnds, platform
<1>2. CASE ShutDown("lost")
  BY <1>1, <1>2, ShutDownEnds
<1>3. ASSUME NEW err \in ReadErrors, ReadFails(err), ShutDown(err)
      PROVE  EndJustified'
  <2>1. err \in {"lost", "closed", "garbage"}
    BY <1>3 DEF ReadErrors
  <2>2. ASSUME err = "garbage", ~garbled
        PROVE  FALSE
    <3>1. inq # <<>> /\ (Misplaced(Head(inq)) \/ Invalid(Head(inq)))
      BY <1>3, <2>2 DEF ReadErrors
    <3>2. PICK q \in Seq(Parts) : Accepts(payload, Head(inq), q)
      BY <2>2, <3>1, LeadsAfter DEF FrameInv, Typed, Assembled
    <3>3. fragment <=> payload # <<>>
      BY <2>2 DEF FrameInv, Assembled
    <3>4. \A m : <<<<m, 1>>>> # <<>>
      OBVIOUS
    <3> QED BY <3>1, <3>2, <3>3, <3>4 DEF Accepts, Frame, Misplaced, Invalid
  <2> QED BY <1>1, <1>3, <2>1, <2>2, ShutDownEnds
<1> QED BY <1>2, <1>3 DEF ReadEnds

LEMMA TakeEndsWell ==
  ASSUME FrameInv, EndJustified, TakeMessage
  PROVE  EndJustified'
<1>1. UNCHANGED garbled
  BY DEF TakeMessage, platform
<1>2. PICK m : /\ ReadLast(m)
               /\ \/ ~Decodes(m) /\ Hangs("garbage")
                  \/ Hangs("closed")
                  \/ UNCHANGED signal
  BY DEF TakeMessage, TakePush, TakeReply
<1>3. ~Decodes(m) => garbled
  BY <1>2, Messages
<1> QED BY <1>1, <1>2, <1>3, ShutDownEnds, EndSame DEF Hangs

LEMMA EndStep ==
  ASSUME FrameInv, EndJustified, [Next]_vars
  PROVE  EndJustified'
<1>1. CASE BeatSent \/ JoinSent
  <2>1. /\ UNCHANGED garbled
        /\ UNCHANGED signal \/ ShutDown("lost")
    BY <1>1 DEF BeatSent, JoinSent, platform
  <2> QED BY <2>1, ShutDownEnds, EndSame
<1>2. CASE CloseBegins
  BY <1>2, ShutDownEnds DEF CloseBegins
<1>3. CASE UNCHANGED signal /\ (garbled => garbled')
  BY <1>3, EndSame
<1>4. CASE Answer \/ PushEvent \/ Oddity \/ CtxEnds \/ Beat \/ BeatsEnd
  BY <1>3, <1>4 DEF Answer, PushEvent, Oddity, CtxEnds, Beat, BeatsEnd, platform
<1>5. CASE \/ ConnectionDrops \/ PeerResumes \/ DeadlinePasses \/ Reads \/ Deliver
           \/ \E w \in Writers : Writes(w)
  BY <1>3, <1>5 DEF ConnectionDrops, PeerResumes, DeadlinePasses, Unobserved, Reads, Deliver,
     Writes, Blocked, Unblocked, platform
<1>6. CASE Connect \/ JoinRefused \/ CloseEnds \/ UNCHANGED vars
  <2>1. UNCHANGED <<signal, garbled>>
    BY <1>6 DEF Connect, JoinRefused, CloseEnds, vars, platform
  <2> QED BY <1>3, <2>1
<1>9. CASE Join
  BY <1>3, <1>9 DEF Join
<1>7. CASE JoinEnds
  BY <1>3, <1>7 DEF JoinEnds, platform
<1>8. CASE Serve
  BY <1>3, <1>8 DEF Serve, platform
<1> QED
  BY <1>1, <1>2, <1>4, <1>5, <1>6, <1>7, <1>8, <1>9, ReadEndsWell, TakeEndsWell DEF Next, Heart, ReadLoop, Pump
-----------------------------------------------------------------------------
(***************************************************************************)
(* Until the connection is being closed, whatever is on its way to the       *)
(* caller of a ref is an answer to the request with that ref.                *)
(***************************************************************************)
Backed(answers, r, st) == \E a \in answers : a.to.ref = r /\ a.status = st

Backs(answers, part) ==
  part[1].event = "reply" => Backed(answers, part[1].about, part[1].what)

Open == ppc \notin {"closing", "returned"}

InFlight ==
  Open => /\ \A i \in 1..Len(inq) : \A j \in 1..Len(inq[i].pieces) :
               Backs(replies, inq[i].pieces[j])
          /\ \A j \in 1..Len(payload) : Backs(replies, payload[j])

Held ==
  Open => /\ rpc = "deliver" => Backed(replies, target[1], target[2])
          /\ \A r \in DOMAIN pending :
               pending[r] # "empty" => Backed(replies, r, pending[r])

Heard ==
  /\ heard \in {"ok", "rejected"} => ref # 0 /\ Backed(replies, ref, heard)
  /\ ppc = "dial" \/ ~Open => heard = "none"

BackInv == InFlight /\ Held /\ Heard

LEMMA BackInit ==
  ASSUME Init
  PROVE  BackInv
BY DEF Init, ConnInit, BackInv, InFlight, Held, Heard

LEMMA Grows ==
  ASSUME replies \subseteq replies'
  PROVE  /\ \A r, st : Backed(replies, r, st) => Backed(replies', r, st)
         /\ \A part : Backs(replies, part) => Backs(replies', part)
BY DEF Backed, Backs

\* The steps outside the pump neither close the connection nor take an answer back.
LEMMA OutsidePump ==
  ASSUME \/ Answer \/ PushEvent \/ Oddity \/ CtxEnds
         \/ ConnectionDrops \/ PeerResumes \/ DeadlinePasses
         \/ \E w \in Writers : Writes(w)
         \/ Heart \/ ReadLoop \/ UNCHANGED vars
  PROVE  UNCHANGED <<ppc, heard, ref>> /\ replies \subseteq replies'
<1>1. UNCHANGED pump
  BY DEF Answer, PushEvent, Oddity, CtxEnds, ConnectionDrops, PeerResumes, DeadlinePasses,
     Unobserved, Writes, Blocked, Unblocked, Heart, Beat, BeatSent, BeatsEnd, ReadLoop, Reads,
     ReadEnds, TakeMessage, Deliver, vars
<1>2. replies \subseteq replies'
  <2>1. CASE Answer
    BY <2>1 DEF Answer
  <2>2. CASE PushEvent \/ Oddity \/ CtxEnds
    BY <2>2 DEF PushEvent, Oddity, CtxEnds, platform
  <2>3. CASE \/ ConnectionDrops \/ PeerResumes \/ DeadlinePasses
             \/ (\E w \in Writers : Writes(w)) \/ UNCHANGED vars
    BY <2>3 DEF ConnectionDrops, PeerResumes, DeadlinePasses, Unobserved, Writes, Blocked,
       Unblocked, vars, platform
  <2>4. CASE Heart \/ ReadLoop
    BY <2>4 DEF Heart, Beat, BeatSent, BeatsEnd, ReadLoop, Reads, ReadEnds, TakeMessage,
       Deliver, platform
  <2> QED BY <2>1, <2>2, <2>3, <2>4
<1> QED BY <1>1, <1>2 DEF pump

LEMMA OutsideHeard ==
  ASSUME Heard, UNCHANGED <<ppc, heard, ref>>, replies \subseteq replies'
  PROVE  Heard'
BY Grows DEF Heard, Open

LEMMA InFlightSame ==
  ASSUME InFlight, Open' => Open /\ replies \subseteq replies', UNCHANGED <<inq, payload>>
  PROVE  InFlight'
BY Grows DEF InFlight

LEMMA HeldSame ==
  ASSUME Held, Open' => Open /\ replies \subseteq replies', UNCHANGED target,
         rpc' = "deliver" => rpc = "deliver",
         \A r \in DOMAIN pending' :
           pending'[r] # "empty" => r \in DOMAIN pending /\ pending[r] = pending'[r]
  PROVE  Held'
BY Grows DEF Held

\* What arrives is on its way.
LEMMA ArrivesBacked ==
  ASSUME Typed, InFlight, UNCHANGED ppc, replies \subseteq replies',
         NEW fs \in Seq(Frames), Arrives(fs),
         \A i \in 1..Len(fs) : \A j \in 1..Len(fs[i].pieces) : Backs(replies', fs[i].pieces[j])
  PROVE  InFlight'
<1>1. inq' = inq \o fs /\ UNCHANGED payload
  BY ArrivesStep
<1>2. /\ Len(inq) \in Nat /\ Len(fs) \in Nat /\ Len(inq') = Len(inq) + Len(fs)
      /\ \A i \in 1..(Len(inq) + Len(fs)) :
           inq'[i] = IF i <= Len(inq) THEN inq[i] ELSE fs[i - Len(inq)]
  BY <1>1, ConcatProperties DEF Typed
<1>3. ASSUME Open, NEW i \in 1..Len(inq'), NEW j \in 1..Len(inq'[i].pieces)
      PROVE  Backs(replies', inq'[i].pieces[j])
  <2>1. CASE i <= Len(inq)
    <3>1. i \in 1..Len(inq) /\ inq'[i] = inq[i]
      BY <1>2, <2>1
    <3> QED BY <1>3, <3>1, Grows DEF InFlight
  <2>2. CASE ~(i <= Len(inq))
    <3>1. i - Len(inq) \in 1..Len(fs) /\ inq'[i] = fs[i - Len(inq)]
      BY <1>2, <2>2
    <3> QED BY <3>1
  <2> QED BY <2>1, <2>2
<1>4. ASSUME Open, NEW j \in 1..Len(payload')
      PROVE  Backs(replies', payload'[j])
  BY <1>1, <1>4, Grows DEF InFlight
<1> QED BY <1>3, <1>4 DEF InFlight, Open

LEMMA AnswerInFlight ==
  ASSUME RefInv, Typed, InFlight, Answer
  PROVE  InFlight'
<1>1. PICK q \in wire, st \in {"ok", "rejected"} :
        /\ replies' = replies \cup {[to |-> q, n |-> Cardinality(AnswersTo(q)), status |-> st]}
        /\ Sends(Envelope("reply", q.ref, st))
  BY DEF Answer
<1> DEFINE m == Envelope("reply", q.ref, st)
<1>2. m \in Envelopes
  BY EnvelopesOf
<1>3. m.event = "reply" /\ m.about = q.ref /\ m.what = st
  BY DEF Envelope
<1>4. Sends(m)
  BY <1>1
<1> HIDE DEF m
<1>5. PICK fs \in {Whole(m), Split(m)} : Arrives(fs)
  BY <1>2, <1>4, SendsStep
<1>6. Backed(replies', m.about, m.what)
  <2> DEFINE a == [to |-> q, n |-> Cardinality(AnswersTo(q)), status |-> st]
  <2>1. a \in replies' /\ a.to = q /\ a.status = st
    BY <1>1
  <2> QED BY <1>3, <2>1 DEF Backed
<1>7. \A i \in 1..Len(fs) : \A j \in 1..Len(fs[i].pieces) : Backs(replies', fs[i].pieces[j])
  <2>1. \A i \in 1..Len(fs) : \A j \in 1..Len(fs[i].pieces) : fs[i].pieces[j][1] = m
    BY <1>2, PartsOfFrames
  <2>2. ASSUME NEW part, part[1] = m
        PROVE  Backs(replies', part)
    BY <1>6, <2>2 DEF Backs
  <2> QED BY <2>1, <2>2
<1>8. fs \in Seq(Frames) /\ UNCHANGED ppc /\ replies \subseteq replies'
  BY <1>1, <1>2, FramesOf, OutsidePump
<1> QED BY <1>5, <1>7, <1>8, ArrivesBacked

\* Frames that carry no reply.
Unanswering(fs) ==
  \A i \in 1..Len(fs) : \A j \in 1..Len(fs[i].pieces) : fs[i].pieces[j][1].event # "reply"

LEMMA ArrivesUnanswering ==
  ASSUME Typed, InFlight, UNCHANGED ppc, replies \subseteq replies',
         NEW fs \in Seq(Frames), Arrives(fs), Unanswering(fs)
  PROVE  InFlight'
BY ArrivesBacked DEF Unanswering, Backs

LEMMA PushInFlight ==
  ASSUME Typed, RefInv, InFlight, PushEvent
  PROVE  InFlight'
<1>1. PICK r \in Rooms :
        LET added == Whole(Envelope("push", r, "room_added"))
            other == Whole(Envelope("push", RoomsTopic, "other"))
        IN  Arrives(added) \/ Arrives(other \o added)
  BY DEF PushEvent
<1>2. PICK m \in Envelopes, n \in Envelopes :
        /\ Arrives(Whole(m)) \/ Arrives(Whole(n) \o Whole(m))
        /\ m.event = "push" /\ n.event = "push"
  <2>1. \A about, what : Envelope("push", about, what).event = "push"
    BY DEF Envelope
  <2> QED BY <1>1, <2>1, EnvelopesOf
<1>3. /\ Whole(m) \in Seq(Frames) /\ Whole(n) \in Seq(Frames)
      /\ Whole(n) \o Whole(m) \in Seq(Frames)
  BY FramesOf, ConcatProperties
<1>4. Unanswering(Whole(m)) /\ Unanswering(Whole(n))
  BY <1>2, PartsOfFrames DEF Unanswering
<1>5. Unanswering(Whole(n) \o Whole(m))
  <2> DEFINE f == Whole(n)  g == Whole(m)
  <2>1. f \in Seq(Frames) /\ g \in Seq(Frames) /\ Unanswering(f) /\ Unanswering(g)
    BY <1>3, <1>4
  <2> HIDE DEF f, g
  <2>2. /\ Len(f) \in Nat /\ Len(g) \in Nat /\ Len(f \o g) = Len(f) + Len(g)
        /\ \A i \in 1..(Len(f) + Len(g)) :
             (f \o g)[i] = IF i <= Len(f) THEN f[i] ELSE g[i - Len(f)]
    BY <2>1, ConcatProperties
  <2>3. ASSUME NEW i \in 1..Len(f \o g)
        PROVE  \A j \in 1..Len((f \o g)[i].pieces) : (f \o g)[i].pieces[j][1].event # "reply"
    <3>1. CASE i <= Len(f)
      <4>1. i \in 1..Len(f) /\ (f \o g)[i] = f[i]
        BY <2>2, <3>1
      <4> QED BY <2>1, <4>1 DEF Unanswering
    <3>2. CASE ~(i <= Len(f))
      <4>1. i - Len(f) \in 1..Len(g) /\ (f \o g)[i] = g[i - Len(f)]
        BY <2>2, <3>2
      <4> QED BY <2>1, <4>1 DEF Unanswering
    <3> QED BY <3>1, <3>2
  <2> QED BY <2>3 DEF Unanswering, f, g
<1> QED BY <1>2, <1>3, <1>4, <1>5, OutsidePump, ArrivesUnanswering

LEMMA OddityInFlight ==
  ASSUME Typed, RefInv, InFlight, Oddity
  PROVE  InFlight'
<1>1. CASE Arrives(Whole(Envelope("phx_close", 0, "none")))
  <2>1. PICK m \in Envelopes : Arrives(Whole(m)) /\ m.event = "phx_close"
    BY <1>1, EnvelopesOf DEF Envelope
  <2>2. Whole(m) \in Seq(Frames) /\ Unanswering(Whole(m))
    BY <2>1, FramesOf, PartsOfFrames DEF Unanswering
  <2> QED BY <2>1, <2>2, OutsidePump, ArrivesUnanswering
<1>2. ASSUME NEW op \in {"text", "invalid", "close"}, Arrives(<<Frame(op, TRUE, <<>>)>>)
      PROVE  InFlight'
  <2> DEFINE f == Frame(op, TRUE, <<>>)
  <2>1. f \in Frames
    <3>1. <<>> \in Seq(Parts) /\ TRUE \in BOOLEAN
      OBVIOUS
    <3> QED BY <3>1 DEF Frame, Frames
  <2>2. Len(f.pieces) = 0
    BY DEF Frame
  <2> HIDE DEF f
  <2>3. <<f>> \in Seq(Frames) /\ Len(<<f>>) = 1 /\ <<f>>[1] = f
    BY <2>1, Listed
  <2>4. Unanswering(<<f>>)
    BY <2>2, <2>3 DEF Unanswering
  <2> QED BY <1>2, <2>3, <2>4, OutsidePump, ArrivesUnanswering DEF f
<1> QED BY <1>1, <1>2 DEF Oddity

\* Frames leave in order, and what they hold goes on.
LEMMA NextFrame ==
  ASSUME Typed, InFlight, Open, Arrived
  PROVE  /\ \A i \in 1..Len(inq') : \A j \in 1..Len(inq'[i].pieces) :
              Backs(replies, inq'[i].pieces[j])
         /\ \A j \in 1..Len(Head(inq).pieces) : Backs(replies, Head(inq).pieces[j])
         /\ \A j \in 1..Len(payload) : Backs(replies, payload[j])
<1>1. inq \in Seq(Frames) /\ inq # <<>> /\ inq' = Tail(inq)
  BY DEF Typed, Arrived
<1>2. /\ Len(inq) \in Nat /\ Len(inq) >= 1 /\ Head(inq) = inq[1] /\ 1 \in 1..Len(inq)
      /\ \A i \in 1..Len(inq') : inq'[i] = inq[i + 1] /\ i + 1 \in 1..Len(inq)
  BY <1>1
<1> QED BY <1>2 DEF InFlight

LEMMA ReadsInFlight ==
  ASSUME Typed, InFlight, Reads
  PROVE  InFlight'
<1>1. UNCHANGED <<ppc, replies>>
  BY DEF Reads, pump, platform
<1>2. CASE ReadPart
  <2>1. Arrived /\ payload' = Head(inq).pieces
    BY <1>2 DEF ReadPart
  <2> QED BY <1>1, <2>1, NextFrame DEF InFlight, Open
<1>3. CASE ReadPing \/ ReadPong
  <2>1. Arrived /\ payload' = payload
    BY <1>3 DEF ReadPing, ReadPong, Kept
  <2> QED BY <1>1, <2>1, NextFrame DEF InFlight, Open
<1>4. CASE PongWritten
  BY <1>1, <1>4, InFlightSame DEF PongWritten, Open
<1> QED BY <1>2, <1>3, <1>4 DEF Reads

LEMMA TakeInFlight ==
  ASSUME Typed, InFlight, TakeMessage
  PROVE  InFlight'
<1>1. UNCHANGED <<ppc, replies>>
  BY DEF TakeMessage, pump, platform
<1>2. Arrived /\ payload' = <<>>
  BY DEF TakeMessage, ReadLast
<1>3. Len(payload') = 0
  BY <1>2
<1> QED BY <1>1, <1>2, <1>3, NextFrame DEF InFlight, Open

\* Closing takes the answers away, and is never undone.
LEMMA PumpOpen ==
  ASSUME Pump, Open'
  PROVE  Open /\ UNCHANGED replies
<1>1. CASE Connect \/ Join \/ JoinRefused \/ JoinSent
  BY <1>1 DEF Connect, Join, JoinRefused, JoinSent, platform, Open
<1>2. CASE JoinEnds
  BY <1>2 DEF JoinEnds, platform, Open
<1>3. CASE Serve
  BY <1>3 DEF Serve, platform, Open
<1>4. CASE CloseBegins \/ CloseEnds
  BY <1>4 DEF CloseBegins, CloseEnds, Open
<1> QED BY <1>1, <1>2, <1>3, <1>4 DEF Pump

LEMMA InFlightStep ==
  ASSUME RefInv, Typed, InFlight, [Next]_vars
  PROVE  InFlight'
<1>1. CASE \/ CtxEnds \/ ConnectionDrops \/ PeerResumes \/ DeadlinePasses
           \/ \E w \in Writers : Writes(w)
           \/ Heart \/ ReadEnds \/ Deliver \/ UNCHANGED vars
  <2>1. UNCHANGED ppc /\ replies \subseteq replies'
    BY <1>1, OutsidePump DEF ReadLoop
  <2>2. UNCHANGED <<inq, payload>>
    BY <1>1, Quiet DEF Unread
  <2> QED BY <2>1, <2>2, InFlightSame DEF Open
<1>2. CASE Pump
  <2>1. UNCHANGED <<inq, payload>>
    BY <1>2, Quiet DEF Unread
  <2> QED BY <1>2, <2>1, PumpOpen, InFlightSame
<1> QED
  BY <1>1, <1>2, AnswerInFlight, PushInFlight, OddityInFlight, ReadsInFlight, TakeInFlight
  DEF Next, ReadLoop

\* The reply a message holds is handed on as it is.
LEMMA TakeHeld ==
  ASSUME Typed, InFlight, Held, TakeMessage
  PROVE  Held'
<1>1. UNCHANGED <<ppc, replies, pending>>
  BY DEF TakeMessage, session, pump, platform
<1>2. PICK m : /\ ReadLast(m) /\ m = payload \o Head(inq).pieces
               /\ \/ Hangs("garbage")
                  \/ Hangs("closed")
                  \/ rpc' = "read"
                  \/ Decodes(m) /\ Decoded(m).event = "reply" /\ TakeReply(Decoded(m))
  BY DEF TakeMessage, TakePush
<1>3. CASE rpc' # "deliver"
  BY <1>1, <1>3 DEF Held, Open
<1>4. CASE Decodes(m) /\ Decoded(m).event = "reply" /\ TakeReply(Decoded(m))
  <2>1. /\ Arrived /\ payload \in Seq(Parts) /\ Head(inq).pieces \in Seq(Parts) /\ m # <<>>
    <3>1. Arrived
      BY <1>2 DEF ReadLast
    <3>2. Head(inq) \in Frames
      BY <3>1 DEF Arrived, Typed
    <3> QED BY <1>4, <3>1, <3>2 DEF Decodes, Frames, Typed
  <2>2. ASSUME Open
        PROVE  Backs(replies, m[1])
    <3>1. /\ m \in Seq(Parts) /\ Len(m) = Len(payload) + Len(Head(inq).pieces)
          /\ \A i \in 1..(Len(payload) + Len(Head(inq).pieces)) :
               m[i] = IF i <= Len(payload) THEN payload[i] ELSE Head(inq).pieces[i - Len(payload)]
      BY <1>2, <2>1, ConcatProperties
    <3>2. Len(payload) \in Nat /\ Len(Head(inq).pieces) \in Nat /\ Len(m) >= 1
      BY <2>1, <3>1
    <3>3. CASE Len(payload) = 0
      <4>1. 1 \in 1..Len(Head(inq).pieces) /\ m[1] = Head(inq).pieces[1]
        BY <3>1, <3>2, <3>3
      <4> QED BY <2>1, <2>2, <4>1, NextFrame
    <3>4. CASE Len(payload) # 0
      <4>1. 1 \in 1..Len(payload) /\ m[1] = payload[1]
        BY <3>1, <3>2, <3>4
      <4> QED BY <2>1, <2>2, <4>1, NextFrame
    <3> QED BY <3>3, <3>4
  <2>3. rpc' = "deliver" => target' = <<m[1][1].about, m[1][1].what>> /\ m[1][1].event = "reply"
    BY <1>4 DEF TakeReply, Decoded
  <2>4. Open /\ rpc' = "deliver" => Backed(replies, target'[1], target'[2])
    BY <2>2, <2>3 DEF Backs
  <2> QED BY <1>1, <2>4 DEF Held, Open
<1> QED BY <1>2, <1>3, <1>4 DEF Hangs

LEMMA DeliverHeld ==
  ASSUME Held, Deliver
  PROVE  Held'
<1>1. /\ UNCHANGED <<ppc, replies>> /\ rpc = "deliver" /\ rpc' = "read"
      /\ \/ UNCHANGED pending
         \/ pending' = [pending EXCEPT ![target[1]] = target[2]]
  BY DEF Deliver, pump, platform
<1>2. ASSUME Open, NEW r \in DOMAIN pending', pending'[r] # "empty"
      PROVE  Backed(replies, r, pending'[r])
  BY <1>1, <1>2 DEF Held
<1> QED BY <1>1, <1>2 DEF Held, Open

LEMMA PumpHeld ==
  ASSUME Held, Pump
  PROVE  Held'
<1>1. UNCHANGED <<target, rpc>>
  <2>1. CASE Connect \/ Join \/ JoinRefused \/ JoinSent
    BY <2>1 DEF Connect, Dial, Join, JoinRefused, JoinSent, conn, reader
  <2>2. CASE JoinEnds \/ Serve \/ CloseBegins \/ CloseEnds
    BY <2>2 DEF JoinEnds, Serve, CloseBegins, CloseEnds, conn, reader
  <2> QED BY <2>1, <2>2 DEF Pump
<1>2. \/ UNCHANGED pending \/ Abandons(ref) \/ Awaits(ref')
  <2>1. CASE Connect \/ Join \/ JoinRefused \/ JoinSent
    BY <2>1 DEF Connect, Join, JoinRefused, JoinSent, session
  <2>2. CASE JoinEnds \/ Serve \/ CloseBegins \/ CloseEnds
    BY <2>2 DEF JoinEnds, Serve, CloseBegins, CloseEnds, session
  <2> QED BY <2>1, <2>2 DEF Pump
<1>3. \A r \in DOMAIN pending' :
        pending'[r] # "empty" => r \in DOMAIN pending /\ pending[r] = pending'[r]
  BY <1>2 DEF Abandons, Awaits
<1> QED BY <1>1, <1>3, PumpOpen, HeldSame

LEMMA HeldStep ==
  ASSUME Typed, InFlight, Held, [Next]_vars
  PROVE  Held'
<1>1. CASE \/ Answer \/ PushEvent \/ Oddity \/ CtxEnds
           \/ ConnectionDrops \/ PeerResumes \/ DeadlinePasses
           \/ \E w \in Writers : Writes(w)
           \/ Heart \/ Reads \/ ReadEnds \/ UNCHANGED vars
  <2>1. UNCHANGED <<target, pending>> /\ (rpc' = "deliver" => rpc = "deliver")
    <3>1. CASE Answer \/ PushEvent \/ Oddity \/ CtxEnds
      BY <3>1 DEF Answer, PushEvent, Oddity, CtxEnds, Sends, Arrives, session, conn, reader
    <3>2. CASE ConnectionDrops \/ PeerResumes \/ DeadlinePasses \/ UNCHANGED vars
      BY <3>2 DEF ConnectionDrops, PeerResumes, DeadlinePasses, Drop, Resume, Expire,
         Unobserved, vars, session, conn, reader
    <3>3. CASE \E w \in Writers : Writes(w)
      BY <3>3 DEF Writes, Blocked, Unblocked, TakesTurn, WriteEnds, session, reader
    <3>4. CASE Heart
      BY <3>4 DEF Heart, Beat, BeatSent, BeatsEnd, session, conn, reader
    <3>5. CASE Reads \/ ReadEnds
      BY <3>5 DEF Reads, ReadPart, ReadPing, ReadPong, PongWritten, ReadEnds, session
    <3> QED BY <1>1, <3>1, <3>2, <3>3, <3>4, <3>5
  <2>2. UNCHANGED ppc /\ replies \subseteq replies'
    BY <1>1, OutsidePump DEF ReadLoop
  <2> QED BY <2>1, <2>2, HeldSame DEF Open
<1> QED BY <1>1, TakeHeld, DeliverHeld, PumpHeld DEF Next, ReadLoop

\* What a join returns is what it held, and its ref is not used again.
LEMMA PumpHeard ==
  ASSUME RefInv, Held, Heard, Pump
  PROVE  Heard'
<1>1. CASE Connect
  BY <1>1 DEF Connect, Heard, Open
<1>2. CASE Join
  BY <1>2 DEF Join, Heard, Open
<1>3. CASE JoinRefused
  BY <1>3 DEF JoinRefused, Failed, Heard, Open, platform
<1>4. CASE JoinSent
  BY <1>4 DEF JoinSent, Failed, Heard, Open, platform
<1>5. CASE JoinEnds
  <2>1. /\ ppc = "wait" /\ UNCHANGED <<ref, replies>> /\ ppc' \in {"live", "next", "close"}
        /\ heard' = "error" \/ (pending[ref] # "empty" /\ heard' = pending[ref])
    BY <1>5 DEF JoinEnds, Failed, platform
  <2>2. ref # 0 /\ ref \in DOMAIN pending
    BY <2>1 DEF RefInv, Waiting
  <2> QED BY <2>1, <2>2 DEF Held, Heard, Open
<1>6. CASE Serve
  <2>1. UNCHANGED <<heard, ref, replies>> /\ ppc' \in {"close", "next", "live"}
    BY <1>6 DEF Serve, platform
  <2> QED BY <2>1 DEF Heard, Open
<1>7. CASE CloseBegins
  BY <1>7 DEF CloseBegins, Heard, Open
<1>8. CASE CloseEnds
  BY <1>8 DEF CloseEnds, Heard, Open
<1> QED BY <1>1, <1>2, <1>3, <1>4, <1>5, <1>6, <1>7, <1>8 DEF Pump

LEMMA HeardStep ==
  ASSUME RefInv, Held, Heard, [Next]_vars
  PROVE  Heard'
BY OutsidePump, OutsideHeard, PumpHeard DEF Next
-----------------------------------------------------------------------------
IInv == RefInv /\ FrameInv /\ EndJustified /\ BackInv

LEMMA Invariance == Spec => []IInv
<1>1. Init => IInv
  BY RefInit, FrameInit, BackInit DEF IInv, Init, EndJustified
<1>2. IInv /\ [Next]_vars => IInv'
  BY RefStep, FrameStep, EndStep, InFlightStep, HeldStep, HeardStep DEF IInv, BackInv, FrameInv
<1> QED BY <1>1, <1>2, PTL DEF Spec

\* What a join returns is what the platform answered to that join, not to a heartbeat or
\* to an earlier join, in whatever frames and after whatever delay the answer came
\* (socket.go roundTrip, routeReply).
THEOREM JoinsGetTheirOwnAnswer == Spec => []OwnAnswer
<1>1. IInv => OwnAnswer
  BY DEF IInv, BackInv, Heard, Backed, RefInv, OwnAnswer
<1> QED BY <1>1, Invariance, PTL

\* Whoever finds the events closed finds the reason too, and a peer that keeps to the
\* protocol is never hung up on for what it sent, however its messages were cut into
\* frames and wherever the pings came (socket.go readLoop, shutdown; ws ReadMessage).
THEOREM SocketEndsJustified == Spec => []EndJustified
<1>1. IInv => EndJustified
  BY DEF IInv
<1> QED BY <1>1, Invariance, PTL
=============================================================================

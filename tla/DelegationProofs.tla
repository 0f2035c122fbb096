-------------------------- MODULE DelegationProofs --------------------------
(***************************************************************************)
(* Theorems about agents that run agents, for every set of configurations   *)
(* of any size and every number of turns: a configuration that passes       *)
(* Validate has a graph of agents without a cycle, so no agent runs below   *)
(* itself, runs nest at most as deep as there are agents, and the judges a  *)
(* turn owes are well defined; from there an invariant of the whole run     *)
(* gives the outcomes in their order and the usage nobody hears.  The last  *)
(* part equates Validate, which walks the configuration, with Sound, which  *)
(* says what a sound one is.                                                *)
(***************************************************************************)
EXTENDS Delegation, DataLemmas

-----------------------------------------------------------------------------
(***************************************************************************)
(* detectCycle.                                                             *)
(***************************************************************************)
Colored(color, c) == {n \in DOMAIN color : color[n] = c}
White(color) == Colored(color, "white")
WalkArgs(N) == Seq(N) \X Colorings(N)
WalkResults(N, color) ==
  {r \in [cycle : BOOLEAN, color : Colorings(N)] : White(r.color) \subseteq White(color)}
WalkBelow(N) ==
  {p \in WalkArgs(N) \X WalkArgs(N) :
     LET y == p[1]  x == p[2]
     IN  \/ Cardinality(White(y[2])) < Cardinality(White(x[2]))
         \/ White(y[2]) = White(x[2]) /\ Len(y[1]) < Len(x[1])}

\* The walk asks for fewer white nodes, or for a shorter list with the same ones.
LEMMA WalkWF ==
  ASSUME NEW N, IsFiniteSet(N)
  PROVE  IsWellFoundedOn(WalkBelow(N), WalkArgs(N))
<1> DEFINE S == WalkArgs(N)
           M == [x \in S |-> Cardinality(White(x[2]))]
           L == [x \in S |-> Len(x[1])]
           R == WalkBelow(N)
<1>1. \A x \in S : M[x] \in Nat /\ L[x] \in Nat
  <2> SUFFICES ASSUME NEW x \in S PROVE M[x] \in Nat /\ L[x] \in Nat
    OBVIOUS
  <2>1. x[1] \in Seq(N) /\ x[2] \in Colorings(N)
    BY DEF WalkArgs
  <2>2. White(x[2]) \subseteq N
    BY <2>1 DEF White, Colored, Colorings
  <2>3. Cardinality(White(x[2])) \in Nat
    BY <2>2, FS_Subset, FS_CardinalityType
  <2> QED BY <2>1, <2>3
<1>2. \A x, y \in S : <<y, x>> \in R => \/ M[y] < M[x]
                                        \/ M[y] = M[x] /\ L[y] < L[x]
  BY DEF WalkBelow
<1> QED
  <2> HIDE DEF S, M, L, R
  <2>1. IsWellFoundedOn(R, S)
    BY <1>1, <1>2, LexicographicWF
  <2> QED BY <2>1 DEF R, S

LEMMA VisitBlack ==
  ASSUME NEW E, NEW W, NEW s, NEW color, s # <<>>, color[Head(s)] = "black"
  PROVE  Visit(W, E, s, color) = W[<<Tail(s), color>>]
<1> DEFINE n == Head(s)
           below == W[<<E[n], [color EXCEPT ![n] = "gray"]>>]
           v == Visit(W, E, s, color)
<1> HIDE DEF n, below
<1>1. v = LET here == IF color[n] = "gray" THEN [cycle |-> TRUE, color |-> color]
                      ELSE IF color[n] # "white" THEN [cycle |-> FALSE, color |-> color]
                      ELSE [below EXCEPT !.color = [@ EXCEPT ![n] = "black"]]
          IN  IF here.cycle THEN here ELSE W[<<Tail(s), here.color>>]
  BY DEF Visit, Meets, n, below
<1> HIDE DEF v
<1>2. v = W[<<Tail(s), color>>]
  BY <1>1 DEF n
<1> QED BY <1>2 DEF v

LEMMA VisitGray ==
  ASSUME NEW E, NEW W, NEW s, NEW color, s # <<>>, color[Head(s)] = "gray"
  PROVE  Visit(W, E, s, color) = [cycle |-> TRUE, color |-> color]
<1> DEFINE n == Head(s)
           below == W[<<E[n], [color EXCEPT ![n] = "gray"]>>]
           v == Visit(W, E, s, color)
<1> HIDE DEF n, below
<1>1. v = LET here == IF color[n] = "gray" THEN [cycle |-> TRUE, color |-> color]
                      ELSE IF color[n] # "white" THEN [cycle |-> FALSE, color |-> color]
                      ELSE [below EXCEPT !.color = [@ EXCEPT ![n] = "black"]]
          IN  IF here.cycle THEN here ELSE W[<<Tail(s), here.color>>]
  BY DEF Visit, Meets, n, below
<1> HIDE DEF v
<1>2. v = [cycle |-> TRUE, color |-> color]
  BY <1>1 DEF n
<1> QED BY <1>2 DEF v

WhiteStep(W, E, s, color, n, below, after) ==
  /\ s # <<>> /\ n = Head(s) /\ color[n] = "white"
  /\ below = W[<<E[n], [color EXCEPT ![n] = "gray"]>>]
  /\ after = [below.color EXCEPT ![n] = "black"]

LEMMA VisitWhite ==
  ASSUME NEW E, NEW W, NEW s, NEW color, NEW n, NEW below, NEW after, NEW C,
         WhiteStep(W, E, s, color, n, below, after), below \in [cycle : BOOLEAN, color : C]
  PROVE  Visit(W, E, s, color) = IF below.cycle THEN [cycle |-> TRUE, color |-> after]
                                 ELSE W[<<Tail(s), after>>]
<1>1. [below EXCEPT !.color = [below.color EXCEPT ![n] = "black"]]
        = [cycle |-> below.cycle, color |-> after]
  <2>1. ASSUME NEW a PROVE [below EXCEPT !.color = a] = [cycle |-> below.cycle, color |-> a]
    OBVIOUS
  <2> QED BY <2>1 DEF WhiteStep
<1>2. Visit(W, E, s, color) =
        LET here == [below EXCEPT !.color = [below.color EXCEPT ![n] = "black"]]
        IN  IF here.cycle THEN here ELSE W[<<Tail(s), here.color>>]
  <2> DEFINE b == [below EXCEPT !.color = [below.color EXCEPT ![n] = "black"]]
  <2>1. /\ s # <<>> /\ n = Head(s) /\ color[n] = "white"
        /\ below = W[<<E[n], [color EXCEPT ![n] = "gray"]>>]
    BY DEF WhiteStep
  <2>2. Visit(W, E, s, color) =
          LET here == IF color[n] = "gray" THEN [cycle |-> TRUE, color |-> color]
                      ELSE IF color[n] # "white" THEN [cycle |-> FALSE, color |-> color]
                      ELSE b
          IN  IF here.cycle THEN here ELSE W[<<Tail(s), here.color>>]
    BY <2>1, Zenon DEF Visit, Meets
  <2> HIDE DEF b
  <2> QED BY <2>1, <2>2 DEF b
<1>3. Visit(W, E, s, color) =
        LET here == [cycle |-> below.cycle, color |-> after]
        IN  IF here.cycle THEN here ELSE W[<<Tail(s), here.color>>]
  BY <1>1, <1>2
<1>4. below.cycle \in BOOLEAN
  OBVIOUS
<1> QED BY <1>3, <1>4

\* What Visit asks of the walk lies below what it is asked.
LEMMA VisitBelow ==
  ASSUME NEW N, IsFiniteSet(N), NEW E \in [N -> Seq(N)], NEW s \in Seq(N),
         NEW color \in Colorings(N), s # <<>>
  PROVE  LET n == Head(s)
             x == <<s, color>>
         IN  /\ n \in N /\ x \in WalkArgs(N)
             /\ <<Tail(s), color>> \in WalkArgs(N) /\ <<<<Tail(s), color>>, x>> \in WalkBelow(N)
             /\ color[n] = "white" =>
                  /\ [color EXCEPT ![n] = "gray"] \in Colorings(N)
                  /\ White([color EXCEPT ![n] = "gray"]) \subseteq White(color) \ {n}
                  /\ <<E[n], [color EXCEPT ![n] = "gray"]>> \in WalkArgs(N)
                  /\ <<<<E[n], [color EXCEPT ![n] = "gray"]>>, x>> \in WalkBelow(N)
                  /\ \A c \in Colorings(N) : White(c) \subseteq White(color) \ {n} =>
                       /\ [c EXCEPT ![n] = "black"] \in Colorings(N)
                       /\ White([c EXCEPT ![n] = "black"]) \subseteq White(color) \ {n}
                       /\ <<Tail(s), [c EXCEPT ![n] = "black"]>> \in WalkArgs(N)
                       /\ <<<<Tail(s), [c EXCEPT ![n] = "black"]>>, x>> \in WalkBelow(N)
<1> DEFINE n == Head(s)
           x == <<s, color>>
<1>1. n \in N /\ Tail(s) \in Seq(N) /\ Len(Tail(s)) < Len(s)
  OBVIOUS
<1> HIDE DEF n
<1>2. x \in WalkArgs(N) /\ <<Tail(s), color>> \in WalkArgs(N)
  BY <1>1 DEF WalkArgs
<1>3. <<<<Tail(s), color>>, x>> \in WalkBelow(N)
  BY <1>1, <1>2 DEF WalkBelow
<1>4. ASSUME color[n] = "white", NEW c \in Colorings(N), White(c) \subseteq White(color) \ {n},
             NEW t \in Seq(N)
      PROVE  <<t, c>> \in WalkArgs(N) /\ <<<<t, c>>, x>> \in WalkBelow(N)
  <2>1. <<t, c>> \in WalkArgs(N)
    BY DEF WalkArgs
  <2>2. n \in White(color) /\ White(color) \subseteq N
    BY <1>1, <1>4 DEF White, Colored, Colorings
  <2>3. IsFiniteSet(White(color))
    BY <2>2, FS_Subset
  <2>4. White(c) \subseteq White(color) /\ White(c) # White(color)
    BY <1>4, <2>2
  <2>5. Cardinality(White(c)) < Cardinality(White(color))
    BY <2>3, <2>4, FS_Subset, FS_CardinalityType, SMT
  <2> QED BY <1>2, <2>1, <2>5 DEF WalkBelow
<1>5. ASSUME color[n] = "white"
      PROVE  /\ [color EXCEPT ![n] = "gray"] \in Colorings(N)
             /\ White([color EXCEPT ![n] = "gray"]) \subseteq White(color) \ {n}
  BY <1>1 DEF White, Colored, Colorings
<1>6. ASSUME NEW c \in Colorings(N), White(c) \subseteq White(color) \ {n}
      PROVE  /\ [c EXCEPT ![n] = "black"] \in Colorings(N)
             /\ White([c EXCEPT ![n] = "black"]) \subseteq White(color) \ {n}
  BY <1>1, <1>6 DEF White, Colored, Colorings
<1>7. E[n] \in Seq(N)
  BY <1>1
<1>8. ASSUME color[n] = "white"
      PROVE  /\ <<E[n], [color EXCEPT ![n] = "gray"]>> \in WalkArgs(N)
             /\ <<<<E[n], [color EXCEPT ![n] = "gray"]>>, x>> \in WalkBelow(N)
  <2> HIDE DEF x
  <2> QED BY <1>4, <1>5, <1>7, <1>8
<1>9. ASSUME color[n] = "white", NEW c \in Colorings(N), White(c) \subseteq White(color) \ {n}
      PROVE  /\ <<Tail(s), [c EXCEPT ![n] = "black"]>> \in WalkArgs(N)
             /\ <<<<Tail(s), [c EXCEPT ![n] = "black"]>>, x>> \in WalkBelow(N)
  <2> HIDE DEF x
  <2> QED BY <1>1, <1>4, <1>6, <1>9
<1> HIDE DEF x
<1>10. /\ n \in N /\ x \in WalkArgs(N)
       /\ <<Tail(s), color>> \in WalkArgs(N) /\ <<<<Tail(s), color>>, x>> \in WalkBelow(N)
       /\ color[n] = "white" =>
            /\ [color EXCEPT ![n] = "gray"] \in Colorings(N)
            /\ White([color EXCEPT ![n] = "gray"]) \subseteq White(color) \ {n}
            /\ <<E[n], [color EXCEPT ![n] = "gray"]>> \in WalkArgs(N)
            /\ <<<<E[n], [color EXCEPT ![n] = "gray"]>>, x>> \in WalkBelow(N)
            /\ \A c \in Colorings(N) : White(c) \subseteq White(color) \ {n} =>
                 /\ [c EXCEPT ![n] = "black"] \in Colorings(N)
                 /\ White([c EXCEPT ![n] = "black"]) \subseteq White(color) \ {n}
                 /\ <<Tail(s), [c EXCEPT ![n] = "black"]>> \in WalkArgs(N)
                 /\ <<<<Tail(s), [c EXCEPT ![n] = "black"]>>, x>> \in WalkBelow(N)
  BY <1>1, <1>2, <1>3, <1>5, <1>6, <1>8, <1>9
<1> QED BY <1>10 DEF n, x

Agree(N, W, W2, x) ==
  \A y \in WalkArgs(N) :
    <<y, x>> \in WalkBelow(N) => W[y] \in WalkResults(N, y[2]) /\ W2[y] = W[y]

\* Visit gives the same for two walks that agree below, and a result of its type.
LEMMA VisitFollows ==
  ASSUME NEW N, IsFiniteSet(N), NEW E \in [N -> Seq(N)], NEW s \in Seq(N),
         NEW color \in Colorings(N), NEW W, NEW W2, Agree(N, W, W2, <<s, color>>)
  PROVE  /\ Visit(W, E, s, color) \in WalkResults(N, color)
         /\ Visit(W2, E, s, color) = Visit(W, E, s, color)
<1>1. CASE s = <<>>
  BY <1>1 DEF Visit, WalkResults
<1>2. CASE s # <<>> /\ color[Head(s)] = "gray"
  <2>1. Visit(W, E, s, color) = [cycle |-> TRUE, color |-> color]
    BY <1>2, VisitGray
  <2>2. Visit(W2, E, s, color) = [cycle |-> TRUE, color |-> color]
    BY <1>2, VisitGray
  <2> QED BY <2>1, <2>2 DEF WalkResults
<1>3. CASE s # <<>> /\ color[Head(s)] = "black"
  <2>1. /\ Visit(W, E, s, color) = W[<<Tail(s), color>>]
        /\ Visit(W2, E, s, color) = W2[<<Tail(s), color>>]
    BY <1>3, VisitBlack
  <2>2. <<Tail(s), color>> \in WalkArgs(N)
        /\ <<<<Tail(s), color>>, <<s, color>>>> \in WalkBelow(N)
    BY <1>3, VisitBelow
  <2> QED BY <2>1, <2>2 DEF Agree
<1>4. CASE s # <<>> /\ color[Head(s)] = "white"
  <2>1. PICK n, g, below, after :
          /\ n = Head(s) /\ g = [color EXCEPT ![n] = "gray"] /\ below = W[<<E[n], g>>]
          /\ after = [below.color EXCEPT ![n] = "black"]
    OBVIOUS
  <2>2. /\ n \in N /\ White(g) \subseteq White(color) \ {n}
        /\ <<E[n], g>> \in WalkArgs(N) /\ <<<<E[n], g>>, <<s, color>>>> \in WalkBelow(N)
    BY <1>4, <2>1, VisitBelow
  <2>3. ASSUME NEW c \in Colorings(N), White(c) \subseteq White(color) \ {n}
        PROVE  /\ [c EXCEPT ![n] = "black"] \in Colorings(N)
               /\ White([c EXCEPT ![n] = "black"]) \subseteq White(color) \ {n}
               /\ <<Tail(s), [c EXCEPT ![n] = "black"]>> \in WalkArgs(N)
               /\ <<<<Tail(s), [c EXCEPT ![n] = "black"]>>, <<s, color>>>> \in WalkBelow(N)
    BY <1>4, <2>1, <2>3, VisitBelow, ZenonT(60)
  <2>4. below \in WalkResults(N, g) /\ W2[<<E[n], g>>] = below
    BY <2>1, <2>2 DEF Agree
  <2>5. /\ below.color \in Colorings(N) /\ below.cycle \in BOOLEAN
        /\ below \in [cycle : BOOLEAN, color : Colorings(N)]
        /\ White(below.color) \subseteq White(color) \ {n}
    BY <2>2, <2>4, SMTT(30) DEF WalkResults
  <2>6. /\ after \in Colorings(N) /\ White(after) \subseteq White(color)
        /\ <<Tail(s), after>> \in WalkArgs(N)
        /\ <<<<Tail(s), after>>, <<s, color>>>> \in WalkBelow(N)
    BY <2>1, <2>3, <2>5
  <2>7. /\ WhiteStep(W, E, s, color, n, below, after)
        /\ WhiteStep(W2, E, s, color, n, below, after)
    BY <1>4, <2>1, <2>4 DEF WhiteStep
  <2>8. Visit(W, E, s, color) = IF below.cycle THEN [cycle |-> TRUE, color |-> after]
                                ELSE W[<<Tail(s), after>>]
    BY <2>5, <2>7, VisitWhite
  <2>9. Visit(W2, E, s, color) = IF below.cycle THEN [cycle |-> TRUE, color |-> after]
                                 ELSE W2[<<Tail(s), after>>]
    BY <2>5, <2>7, VisitWhite
  <2>10. W[<<Tail(s), after>>] \in WalkResults(N, after)
        /\ W2[<<Tail(s), after>>] = W[<<Tail(s), after>>]
    BY <2>6 DEF Agree
  <2>11. CASE below.cycle
    BY <2>6, <2>8, <2>9, <2>11 DEF WalkResults
  <2>12. CASE ~below.cycle
    BY <2>6, <2>8, <2>9, <2>10, <2>12 DEF WalkResults
  <2> QED BY <2>11, <2>12
<1>5. s # <<>> => color[Head(s)] \in {"white", "gray", "black"}
  <2>1. s # <<>> => Head(s) \in N
    OBVIOUS
  <2> QED BY <2>1 DEF Colorings
<1> QED BY <1>1, <1>2, <1>3, <1>4, <1>5

\* detectCycle's walk is defined for every graph: it is what Visit makes of it.
LEMMA WalkFixpoint ==
  ASSUME NEW N, IsFiniteSet(N), NEW E \in [N -> Seq(N)]
  PROVE  \A x \in WalkArgs(N) : Walk(E)[x] = Visit(Walk(E), E, x[1], x[2])
<1> DEFINE S == WalkArgs(N)
           R == WalkBelow(N)
           U == [cycle : BOOLEAN, color : Colorings(N)]
           V == [x \in S |-> WalkResults(N, x[2])]
           A == Typed(S, U, V)
           F == [f \in A |-> [x \in S |-> Visit(f, E, x[1], x[2])]]
           Flat(W) == [x \in S |-> Visit(W, E, x[1], x[2])]
<1>1. \A x \in S : x[1] \in Seq(N) /\ x[2] \in Colorings(N) /\ x = <<x[1], x[2]>>
  BY DEF WalkArgs
<1>2. \A x \in S : V[x] # {} /\ V[x] \subseteq U
  <2> SUFFICES ASSUME NEW x \in S PROVE V[x] # {} /\ V[x] \subseteq U
    OBVIOUS
  <2>1. [cycle |-> TRUE, color |-> x[2]] \in V[x]
    BY <1>1 DEF WalkResults
  <2> QED BY <2>1 DEF WalkResults
<1>3. ASSUME NEW f \in A, NEW x \in S PROVE F[f][x] \in V[x]
  <2>1. \A y \in S : f[y] \in WalkResults(N, y[2])
    BY DEF Typed
  <2>2. Agree(N, f, f, <<x[1], x[2]>>)
    BY <2>1 DEF Agree
  <2>3. Visit(f, E, x[1], x[2]) \in WalkResults(N, x[2])
    <3> HIDE DEF A
    <3> QED BY <1>1, <2>2, VisitFollows
  <2> QED BY <2>3
<1>4. ASSUME NEW f \in A, NEW g \in A, NEW x \in S,
             \A y \in S : <<y, x>> \in R => f[y] = g[y]
      PROVE  F[f][x] = F[g][x]
  <2>1. \A y \in S : f[y] \in WalkResults(N, y[2])
    BY DEF Typed
  <2>2. Agree(N, f, g, <<x[1], x[2]>>)
    BY <1>1, <1>4, <2>1 DEF Agree
  <2>3. Visit(g, E, x[1], x[2]) = Visit(f, E, x[1], x[2])
    <3> HIDE DEF A
    <3> QED BY <1>1, <2>2, VisitFollows
  <2> QED BY <2>3
<1>5. PICK w \in A : \A x \in S : w[x] = F[w][x]
  <2>1. IsWellFoundedOn(R, S)
    BY WalkWF
  <2> HIDE DEF S, R, U, V, F
  <2>2. Contracting(S, R, U, V, F)
    BY <2>1, <1>2, <1>3, <1>4 DEF Contracting
  <2> QED BY <2>2, Recursion
<1>6. w = Flat(w)
  <2> HIDE DEF S, U, V
  <2> QED BY <1>5 DEF Typed
<1> DEFINE h == CHOOSE W : W = Flat(W)
<1>7. h = Flat(h)
  <2> HIDE DEF Flat
  <2> QED BY <1>6
<1>8. Walk(E) = h
  <2>1. DOMAIN E = N
    OBVIOUS
  <2> QED BY <2>1 DEF Walk, WalkArgs
<1> HIDE DEF h
<1>9. \A x \in S : h[x] = Visit(h, E, x[1], x[2])
  <2> HIDE DEF S
  <2> QED BY <1>7
<1> QED BY <1>8, <1>9

Acyclic(N, E, B) ==
  \A T \in SUBSET B : T # {} => \E n \in T : ToSet(E[n]) \cap T = {}

Settled(N, E, B) ==
  /\ B \subseteq N
  /\ \A n \in B : ToSet(E[n]) \subseteq B
  /\ Acyclic(N, E, B)

Black(color) == Colored(color, "black")
Gray(color) == Colored(color, "gray")

Explored(N, E, s, color, r) ==
  ~r.cycle /\ Settled(N, E, Black(color)) =>
    /\ Settled(N, E, Black(r.color)) /\ Black(color) \subseteq Black(r.color)
    /\ Gray(r.color) = Gray(color) /\ ToSet(s) \subseteq Black(r.color)

\* A node all of whose successors are settled settles.
LEMMA SettledGrows ==
  ASSUME NEW N, NEW E, NEW B, Settled(N, E, B), NEW n \in N \ B, ToSet(E[n]) \subseteq B
  PROVE  Settled(N, E, B \cup {n})
<1>1. ASSUME NEW T \in SUBSET (B \cup {n}), T # {}
      PROVE  \E m \in T : ToSet(E[m]) \cap T = {}
  <2>1. CASE T \cap B = {}
    BY <1>1, <2>1
  <2>2. CASE T \cap B # {}
    <3>1. PICK m \in T \cap B : ToSet(E[m]) \cap (T \cap B) = {}
      BY <2>2 DEF Settled, Acyclic
    <3> QED BY <3>1 DEF Settled
  <2> QED BY <2>1, <2>2
<1> QED BY <1>1 DEF Settled, Acyclic

\* A walk that meets no cycle leaves its nodes and all they lead to black, without a cycle
\* among them, and the gray ones as they were.
LEMMA WalkExplores ==
  ASSUME NEW N, IsFiniteSet(N), NEW E \in [N -> Seq(N)]
  PROVE  \A x \in WalkArgs(N) : /\ Walk(E)[x] \in WalkResults(N, x[2])
                                /\ Explored(N, E, x[1], x[2], Walk(E)[x])
<1> DEFINE W == Walk(E)
           OK(x) == W[x] \in WalkResults(N, x[2]) /\ Explored(N, E, x[1], x[2], W[x])
<1> HIDE DEF W
<1>1. ASSUME NEW s \in Seq(N), NEW color \in Colorings(N), <<s, color>> \in WalkArgs(N),
             \A y \in WalkArgs(N) : <<y, <<s, color>>>> \in WalkBelow(N) => OK(y)
      PROVE  OK(<<s, color>>)
  <2> DEFINE r == Visit(W, E, s, color)
  <2>1. W[<<s, color>>] = r
    BY <1>1, WalkFixpoint DEF W
  <2>2. r \in WalkResults(N, color)
    <3>1. Agree(N, W, W, <<s, color>>)
      BY <1>1 DEF Agree
    <3> QED BY <3>1, VisitFollows
  <2>3. Explored(N, E, s, color, r)
    <3>1. CASE s = <<>>
      <4>1. r = [cycle |-> FALSE, color |-> color]
        BY <3>1 DEF Visit
      <4> QED BY <3>1, <4>1 DEF Explored, ToSet
    <3>2. CASE s # <<>> /\ color[Head(s)] = "gray"
      <4>1. r = [cycle |-> TRUE, color |-> color]
        BY <3>2, VisitGray
      <4> QED BY <4>1 DEF Explored
    <3> DEFINE n == Head(s)
               t == Tail(s)
    <3>3. s # <<>> => /\ n \in N /\ t \in Seq(N) /\ ToSet(s) = {n} \cup ToSet(t)
                      /\ color[n] \in {"white", "gray", "black"}
      <4> SUFFICES ASSUME s # <<>>
                   PROVE /\ n \in N /\ t \in Seq(N) /\ ToSet(s) = {n} \cup ToSet(t)
                         /\ color[n] \in {"white", "gray", "black"}
        OBVIOUS
      <4>1. n \in N /\ t \in Seq(N)
        OBVIOUS
      <4>2. ToSet(s) = {n} \cup ToSet(t)
        <5>1. \A i \in 1 .. Len(s) : (i = 1 /\ s[i] = n)
                                         \/ (i - 1 \in 1 .. Len(t) /\ s[i] = t[i - 1])
          OBVIOUS
        <5>2. 1 \in 1 .. Len(s) /\ s[1] = n
          OBVIOUS
        <5>3. \A i \in 1 .. Len(t) : i + 1 \in 1 .. Len(s) /\ s[i + 1] = t[i]
          OBVIOUS
        <5>4. DOMAIN s = 1 .. Len(s) /\ DOMAIN t = 1 .. Len(t)
          OBVIOUS
        <5> HIDE DEF n, t
        <5>5. ToSet(s) \subseteq {n} \cup ToSet(t)
          BY <5>1, <5>4 DEF ToSet
        <5>6. {n} \cup ToSet(t) \subseteq ToSet(s)
          BY <5>2, <5>3, <5>4 DEF ToSet
        <5> QED BY <5>5, <5>6
      <4> HIDE DEF n
      <4> QED BY <4>1, <4>2 DEF Colorings
    <3>4. CASE s # <<>> /\ color[n] = "black"
      <4>1. r = W[<<t, color>>]
        BY <3>4, VisitBlack
      <4>2. <<t, color>> \in WalkArgs(N) /\ <<<<t, color>>, <<s, color>>>> \in WalkBelow(N)
        BY <3>4, VisitBelow
      <4>3. Explored(N, E, t, color, r)
        BY <1>1, <4>1, <4>2
      <4>4. n \in Black(color)
        <5> HIDE DEF n
        <5> QED BY <3>3, <3>4 DEF Black, Colored, Colorings
      <4> HIDE DEF n, t, r
      <4> QED BY <3>3, <3>4, <4>3, <4>4 DEF Explored
    <3>5. CASE s # <<>> /\ color[n] = "white"
      <4>1. PICK g, below, after :
              /\ g = [color EXCEPT ![n] = "gray"] /\ below = W[<<E[n], g>>]
              /\ after = [below.color EXCEPT ![n] = "black"]
        OBVIOUS
      <4>2. /\ n \in N /\ g \in Colorings(N) /\ White(g) \subseteq White(color) \ {n}
            /\ <<E[n], g>> \in WalkArgs(N) /\ <<<<E[n], g>>, <<s, color>>>> \in WalkBelow(N)
        BY <3>5, <4>1, VisitBelow
      <4>3. below \in WalkResults(N, g) /\ Explored(N, E, E[n], g, below)
        BY <1>1, <4>1, <4>2
      <4>4. /\ below \in [cycle : BOOLEAN, color : Colorings(N)] /\ below.color \in Colorings(N)
            /\ White(below.color) \subseteq White(color) \ {n}
        BY <4>2, <4>3 DEF WalkResults
      <4>5. /\ <<t, after>> \in WalkArgs(N) /\ <<<<t, after>>, <<s, color>>>> \in WalkBelow(N)
        <5>1. ASSUME NEW c \in Colorings(N), White(c) \subseteq White(color) \ {n}
              PROVE  /\ [c EXCEPT ![n] = "black"] \in Colorings(N)
                     /\ White([c EXCEPT ![n] = "black"]) \subseteq White(color) \ {n}
                     /\ <<Tail(s), [c EXCEPT ![n] = "black"]>> \in WalkArgs(N)
                     /\ <<<<Tail(s), [c EXCEPT ![n] = "black"]>>, <<s, color>>>> \in WalkBelow(N)
          <6>1. PICK m : m = n
            OBVIOUS
          <6>2. s # <<>> /\ color[m] = "white" /\ m = Head(s)
                /\ White(c) \subseteq White(color) \ {m}
            BY <3>5, <5>1, <6>1
          <6> HIDE DEF n
          <6> QED BY <6>1, <6>2, VisitBelow, ZenonT(60)
        <5> HIDE DEF n
        <5> QED BY <4>1, <4>4, <5>1
      <4>6. r = IF below.cycle THEN [cycle |-> TRUE, color |-> after] ELSE W[<<t, after>>]
        <5>1. WhiteStep(W, E, s, color, n, below, after)
          BY <3>5, <4>1 DEF WhiteStep
        <5>2. Visit(W, E, s, color) = IF below.cycle THEN [cycle |-> TRUE, color |-> after]
                                      ELSE W[<<Tail(s), after>>]
          <6> HIDE DEF n
          <6> QED BY <5>1, <4>4, VisitWhite
        <5> QED BY <5>2
      <4>7. Explored(N, E, t, after, W[<<t, after>>])
        BY <1>1, <4>5
      <4> HIDE DEF n, t, r
      <4>8. Black(g) = Black(color) /\ Gray(g) = Gray(color) \cup {n} /\ n \notin Gray(color)
        BY <4>1, <4>2, <3>5 DEF Black, Gray, Colored, Colorings
      <4>9. ASSUME ~below.cycle, Settled(N, E, Black(color))
            PROVE  /\ Settled(N, E, Black(after)) /\ Black(color) \subseteq Black(after)
                   /\ Gray(after) = Gray(color) /\ n \in Black(after)
        <5>1. /\ Settled(N, E, Black(below.color)) /\ Black(color) \subseteq Black(below.color)
              /\ Gray(below.color) = Gray(color) \cup {n}
                    /\ ToSet(E[n]) \subseteq Black(below.color)
          BY <4>3, <4>8, <4>9 DEF Explored
        <5>2. n \notin Black(below.color)
          BY <5>1 DEF Black, Gray, Colored
        <5>3. /\ Black(after) = Black(below.color) \cup {n}
              /\ Gray(after) = Gray(below.color) \ {n}
          BY <4>1, <4>2, <4>4 DEF Black, Gray, Colored, Colorings
        <5>4. Settled(N, E, Black(after))
          <6> DEFINE B == Black(below.color)
          <6>1. Settled(N, E, B) /\ n \in N \ B /\ ToSet(E[n]) \subseteq B
            BY <4>2, <5>1, <5>2
          <6> HIDE DEF B
          <6>2. Settled(N, E, B \cup {n})
            BY <6>1, SettledGrows
          <6> QED BY <6>2, <5>3 DEF B
        <5> QED BY <4>8, <5>1, <5>3, <5>4
      <4>10. CASE below.cycle
        BY <4>6, <4>10 DEF Explored
      <4>11. CASE ~below.cycle
        <5>1. r = W[<<t, after>>]
          BY <4>6, <4>11
        <5> QED BY <3>3, <3>5, <4>7, <4>9, <4>11, <5>1 DEF Explored
      <4> QED BY <4>10, <4>11
    <3> HIDE DEF n, t, r
    <3> QED BY <3>1, <3>2, <3>3, <3>4, <3>5 DEF n
  <2> QED BY <2>1, <2>2, <2>3
<1>2. \A x \in WalkArgs(N) : OK(x)
  <2> DEFINE T == {x \in WalkArgs(N) : ~OK(x)}
  <2> HIDE DEF OK
  <2>1. SUFFICES ASSUME T # {} PROVE FALSE
    OBVIOUS
  <2>2. PICK x \in T : \A y \in T : ~ (<<y, x>> \in WalkBelow(N))
    <3>1. IsWellFoundedOn(WalkBelow(N), WalkArgs(N))
      BY WalkWF
    <3>2. T \subseteq WalkArgs(N)
      OBVIOUS
    <3> HIDE DEF T
    <3> QED BY <2>1, <3>1, <3>2, WFMin
  <2>3. PICK s \in Seq(N), color \in Colorings(N) : x = <<s, color>>
    BY DEF WalkArgs
  <2>4. \A y \in WalkArgs(N) : <<y, <<s, color>>>> \in WalkBelow(N) => OK(y)
    BY <2>2, <2>3
  <2>5. <<s, color>> \in WalkArgs(N)
    BY <2>3
  <2>6. OK(<<s, color>>)
    BY <1>1, <2>4, <2>5
  <2> QED BY <2>3, <2>6
<1> QED BY <1>2 DEF W

\* When detectCycle finds nothing the graph has no cycle: every set of nodes has one with no
\* edge into it (config.go detectCycle).
LEMMA NoCycle ==
  ASSUME NEW N, IsFiniteSet(N), NEW E \in [N -> Seq(N)], NEW nodes \in Seq(N),
         ToSet(nodes) = N, ~DetectCycle(nodes, E)
  PROVE  Acyclic(N, E, N)
<1> DEFINE white == [n \in N |-> "white"]
           r == Walk(E)[<<nodes, white>>]
<1>1. white \in Colorings(N) /\ Black(white) = {}
  BY DEF Colorings, Black, Colored
<1>2. <<nodes, white>> \in WalkArgs(N)
  BY <1>1 DEF WalkArgs
<1>3. Explored(N, E, nodes, white, r) /\ r \in WalkResults(N, white)
  BY <1>2, WalkExplores, SMTT(30)
<1>4. Settled(N, E, Black(white))
  BY <1>1 DEF Settled, Acyclic
<1>5. ~r.cycle
  BY DEF DetectCycle
<1>6. Settled(N, E, Black(r.color)) /\ N \subseteq Black(r.color)
  BY <1>3, <1>4, <1>5 DEF Explored
<1>7. Black(r.color) = N
  BY <1>6 DEF Settled
<1> QED BY <1>6, <1>7 DEF Settled

\* The gray nodes are the way to the nodes of s: each leads to one of them, top to s.
OnWay(E, color, top, s) ==
  /\ \A m \in Gray(color) \ {top} : ToSet(E[m]) \cap Gray(color) # {}
  /\ Gray(color) # {} => top \in Gray(color) /\ ToSet(s) \subseteq ToSet(E[top])

Justified(N, E, s, color, r) ==
  \A top : OnWay(E, color, top, s) =>
    IF r.cycle THEN ~Acyclic(N, E, N) ELSE Gray(r.color) = Gray(color)

\* A list is its head and its tail.
LEMMA HeadAndTail ==
  ASSUME NEW T, NEW s \in Seq(T), s # <<>>
  PROVE  Head(s) \in T /\ Tail(s) \in Seq(T) /\ ToSet(s) = {Head(s)} \cup ToSet(Tail(s))
<1> DEFINE n == Head(s)
           t == Tail(s)
<1>1. n \in T /\ t \in Seq(T)
  OBVIOUS
<1>2. \A i \in 1 .. Len(s) : (i = 1 /\ s[i] = n) \/ (i - 1 \in 1 .. Len(t) /\ s[i] = t[i - 1])
  OBVIOUS
<1>3. 1 \in 1 .. Len(s) /\ s[1] = n
  OBVIOUS
<1>4. \A i \in 1 .. Len(t) : i + 1 \in 1 .. Len(s) /\ s[i + 1] = t[i]
  OBVIOUS
<1>5. DOMAIN s = 1 .. Len(s) /\ DOMAIN t = 1 .. Len(t)
  OBVIOUS
<1> HIDE DEF n, t
<1>6. ToSet(s) \subseteq {n} \cup ToSet(t)
  BY <1>2, <1>5 DEF ToSet
<1>7. {n} \cup ToSet(t) \subseteq ToSet(s)
  BY <1>3, <1>4, <1>5 DEF ToSet
<1>8. n \in T /\ t \in Seq(T) /\ ToSet(s) = {n} \cup ToSet(t)
  BY <1>1, <1>6, <1>7
<1> QED BY <1>8 DEF n, t

\* What the walk does with a white node.
Enters(N, E, s, color, n, g, below, after, r) ==
  /\ g \in Colorings(N) /\ <<E[n], g>> \in WalkArgs(N)
  /\ <<<<E[n], g>>, <<s, color>>>> \in WalkBelow(N)
  /\ <<Tail(s), after>> \in WalkArgs(N) /\ <<<<Tail(s), after>>, <<s, color>>>> \in WalkBelow(N)
  /\ below = Walk(E)[<<E[n], g>>]
  /\ r = IF below.cycle THEN [cycle |-> TRUE, color |-> after] ELSE Walk(E)[<<Tail(s), after>>]
  /\ Gray(g) = Gray(color) \cup {n} /\ n \notin Gray(color)
  /\ Gray(after) = Gray(below.color) \ {n}

LEMMA WalkEnters ==
  ASSUME NEW N, IsFiniteSet(N), NEW E \in [N -> Seq(N)], NEW s \in Seq(N),
         NEW color \in Colorings(N), NEW n, s # <<>>, n = Head(s), color[n] = "white"
  PROVE  \E g, below, after :
           Enters(N, E, s, color, n, g, below, after, Visit(Walk(E), E, s, color))
<1> PICK W : W = Walk(E)
  OBVIOUS
<1>1. PICK g, below, after :
        /\ g = [color EXCEPT ![n] = "gray"] /\ below = W[<<E[n], g>>]
        /\ after = [below.color EXCEPT ![n] = "black"]
  OBVIOUS
<1>2. /\ n \in N /\ g \in Colorings(N) /\ White(g) \subseteq White(color) \ {n}
      /\ <<E[n], g>> \in WalkArgs(N) /\ <<<<E[n], g>>, <<s, color>>>> \in WalkBelow(N)
  BY <1>1, VisitBelow
<1>3. below \in WalkResults(N, g)
  <2>1. \A x \in WalkArgs(N) : W[x] \in WalkResults(N, x[2])
    BY WalkExplores
  <2> QED BY <1>1, <1>2, <2>1
<1>4. /\ below \in [cycle : BOOLEAN, color : Colorings(N)] /\ below.color \in Colorings(N)
      /\ White(below.color) \subseteq White(color) \ {n}
  BY <1>2, <1>3 DEF WalkResults
<1>5. /\ <<Tail(s), after>> \in WalkArgs(N)
      /\ <<<<Tail(s), after>>, <<s, color>>>> \in WalkBelow(N)
  <2>1. ASSUME NEW c \in Colorings(N), White(c) \subseteq White(color) \ {n}
        PROVE  /\ <<Tail(s), [c EXCEPT ![n] = "black"]>> \in WalkArgs(N)
               /\ <<<<Tail(s), [c EXCEPT ![n] = "black"]>>, <<s, color>>>> \in WalkBelow(N)
    BY <2>1, VisitBelow, ZenonT(60)
  <2> QED BY <1>1, <1>4, <2>1
<1>6. Visit(W, E, s, color) = IF below.cycle THEN [cycle |-> TRUE, color |-> after]
                              ELSE W[<<Tail(s), after>>]
  <2>1. WhiteStep(W, E, s, color, n, below, after)
    BY <1>1 DEF WhiteStep
  <2>2. PICK C : C = Colorings(N)
    OBVIOUS
  <2>3. below \in [cycle : BOOLEAN, color : C]
    BY <1>4, <2>2
  <2> QED BY ONLY <2>1, <2>3, VisitWhite
<1>7. Gray(g) = Gray(color) \cup {n} /\ n \notin Gray(color)
  BY <1>1, <1>2 DEF Gray, Colored, Colorings
<1>8. Gray(after) = Gray(below.color) \ {n}
  BY <1>1, <1>2, <1>4 DEF Gray, Colored, Colorings
<1>9. Enters(N, E, s, color, n, g, below, after, Visit(W, E, s, color))
  BY <1>1, <1>2, <1>5, <1>6, <1>7, <1>8 DEF Enters
<1> QED BY <1>9

\* The cycle the walk reports is one: some nodes each lead to one of them.
LEMMA WalkJustified ==
  ASSUME NEW N, IsFiniteSet(N), NEW E \in [N -> Seq(N)]
  PROVE  \A x \in WalkArgs(N) : Justified(N, E, x[1], x[2], Walk(E)[x])
<1> DEFINE W == Walk(E)
           OK(x) == Justified(N, E, x[1], x[2], W[x])
<1> HIDE DEF W
<1>1. ASSUME NEW s \in Seq(N), NEW color \in Colorings(N), <<s, color>> \in WalkArgs(N),
             \A y \in WalkArgs(N) : <<y, <<s, color>>>> \in WalkBelow(N) => OK(y)
      PROVE  OK(<<s, color>>)
  <2>1. PICK r : r = Visit(W, E, s, color)
    OBVIOUS
  <2>2. W[<<s, color>>] = r
    BY <1>1, <2>1, WalkFixpoint DEF W
  <2>3. SUFFICES ASSUME NEW top, OnWay(E, color, top, s)
                 PROVE  IF r.cycle THEN ~Acyclic(N, E, N) ELSE Gray(r.color) = Gray(color)
    BY <2>2 DEF Justified
  <2>4. CASE s = <<>>
    <3>1. r = [cycle |-> FALSE, color |-> color]
      BY <2>1, <2>4 DEF Visit
    <3> QED BY <3>1
  <2> PICK n : n = Head(s)
    OBVIOUS
  <2> PICK t : t = Tail(s)
    OBVIOUS
  <2>5. s # <<>> => n \in N /\ t \in Seq(N) /\ ToSet(s) = {n} \cup ToSet(t)
    BY HeadAndTail
  <2>6. s # <<>> => color[n] \in {"white", "gray", "black"}
    BY <2>5 DEF Colorings
  <2>7. CASE s # <<>> /\ color[n] = "gray"
    <3>1. r = [cycle |-> TRUE, color |-> color]
      BY <2>1, <2>7, VisitGray
    <3>2. n \in Gray(color) /\ Gray(color) \subseteq N
      BY <2>5, <2>7 DEF Gray, Colored, Colorings
    <3>3. \A m \in Gray(color) : ToSet(E[m]) \cap Gray(color) # {}
      BY <2>3, <2>5, <2>7, <3>2 DEF OnWay
    <3>4. ~Acyclic(N, E, N)
      BY <3>2, <3>3 DEF Acyclic
    <3> QED BY <3>1, <3>4
  <2>8. CASE s # <<>> /\ color[n] = "black"
    <3>1. r = W[<<t, color>>]
      <4>1. Visit(W, E, s, color) = W[<<Tail(s), color>>]
        <5>1. PICK V : V = W
          OBVIOUS
        <5>2. s # <<>> /\ color[Head(s)] = "black"
          BY <2>8
        <5>3. Visit(V, E, s, color) = V[<<Tail(s), color>>]
          BY ONLY <5>2, VisitBlack
        <5> QED BY <5>1, <5>3
      <4> QED BY <2>1, <4>1
    <3>2. <<t, color>> \in WalkArgs(N) /\ <<<<t, color>>, <<s, color>>>> \in WalkBelow(N)
      BY <2>8, VisitBelow
    <3>3. OnWay(E, color, top, t)
      BY <2>3, <2>5, <2>8 DEF OnWay
    <3>4. Justified(N, E, t, color, r)
      BY <1>1, <3>1, <3>2
    <3> QED BY <3>3, <3>4 DEF Justified
  <2>9. CASE s # <<>> /\ color[n] = "white"
    <3>1. PICK g, below, after : Enters(N, E, s, color, n, g, below, after, r)
      BY <2>1, <2>9, WalkEnters DEF W
    <3>2. /\ Gray(g) = Gray(color) \cup {n} /\ n \notin Gray(color)
          /\ Gray(after) = Gray(below.color) \ {n}
      BY <3>1 DEF Enters
    <3>3. OnWay(E, g, n, E[n])
      BY <2>3, <2>5, <2>9, <3>2 DEF OnWay
    <3>4. Justified(N, E, E[n], g, below)
      BY <1>1, <3>1 DEF Enters, W
    <3>5. IF below.cycle THEN ~Acyclic(N, E, N) ELSE Gray(below.color) = Gray(g)
      BY <3>3, <3>4 DEF Justified
    <3>6. CASE below.cycle
      <4>1. r = [cycle |-> TRUE, color |-> after]
        BY <3>1, <3>6 DEF Enters
      <4> QED BY <3>5, <3>6, <4>1
    <3>7. CASE ~below.cycle
      <4>1. r = W[<<t, after>>]
        BY <3>1, <3>7 DEF Enters, W
      <4>2. Gray(after) = Gray(color)
        BY <3>2, <3>5, <3>7
      <4>3. OnWay(E, after, top, t)
        BY <2>3, <2>5, <2>9, <4>2 DEF OnWay
      <4>4. Justified(N, E, t, after, r)
        BY <1>1, <3>1, <4>1 DEF Enters
      <4>5. IF r.cycle THEN ~Acyclic(N, E, N) ELSE Gray(r.color) = Gray(after)
        BY <4>3, <4>4 DEF Justified
      <4> QED BY <4>2, <4>5
    <3> QED BY <3>6, <3>7
  <2> QED BY <2>4, <2>6, <2>7, <2>8, <2>9
<1>2. \A x \in WalkArgs(N) : OK(x)
  <2> DEFINE T == {x \in WalkArgs(N) : ~OK(x)}
  <2> HIDE DEF OK
  <2>1. SUFFICES ASSUME T # {} PROVE FALSE
    OBVIOUS
  <2>2. PICK x \in T : \A y \in T : ~ (<<y, x>> \in WalkBelow(N))
    <3>1. IsWellFoundedOn(WalkBelow(N), WalkArgs(N))
      BY WalkWF
    <3>2. T \subseteq WalkArgs(N)
      OBVIOUS
    <3> HIDE DEF T
    <3> QED BY <2>1, <3>1, <3>2, WFMin
  <2>3. PICK s \in Seq(N), color \in Colorings(N) : x = <<s, color>>
    BY DEF WalkArgs
  <2>4. \A y \in WalkArgs(N) : <<y, <<s, color>>>> \in WalkBelow(N) => OK(y)
    BY <2>2, <2>3
  <2>5. <<s, color>> \in WalkArgs(N)
    BY <2>3
  <2>6. OK(<<s, color>>)
    BY <1>1, <2>4, <2>5
  <2> QED BY <2>3, <2>6
<1> QED BY <1>2 DEF W

\* detectCycle finds something exactly when there is something: a set of nodes each of
\* which leads to one of them, for every finite graph (config.go detectCycle).
LEMMA DetectsCycles ==
  ASSUME NEW N, IsFiniteSet(N), NEW E \in [N -> Seq(N)], NEW nodes \in Seq(N),
         ToSet(nodes) = N
  PROVE  DetectCycle(nodes, E) <=> ~Acyclic(N, E, N)
<1>1. ~DetectCycle(nodes, E) => Acyclic(N, E, N)
  BY NoCycle
<1>2. ASSUME DetectCycle(nodes, E) PROVE ~Acyclic(N, E, N)
  <2> DEFINE white == [n \in N |-> "white"]
             r == Walk(E)[<<nodes, white>>]
  <2>1. white \in Colorings(N) /\ Gray(white) = {}
    BY DEF Colorings, Gray, Colored
  <2>2. <<nodes, white>> \in WalkArgs(N)
    BY <2>1 DEF WalkArgs
  <2>3. Justified(N, E, nodes, white, r)
    BY <2>2, WalkJustified, SMTT(30)
  <2>4. \A top : OnWay(E, white, top, nodes)
    BY <2>1 DEF OnWay
  <2>5. r.cycle
    BY <1>2 DEF DetectCycle
  <2> QED BY <2>3, <2>4, <2>5 DEF Justified
<1> QED BY <1>1, <1>2

-----------------------------------------------------------------------------
(***************************************************************************)
(* Toolsets: what a name of the index grants.                               *)
(***************************************************************************)
\* Named finds a definition of that name.
LEMMA NamedIs ==
  ASSUME NEW defs, NEW n, Defines(defs, n)
  PROVE  \E i \in DOMAIN defs : Named(defs, n) = defs[i] /\ defs[i].name = n
<1>1. \E i \in DOMAIN defs : defs[i].name = n
  BY DEF Defines, Names, ToSet
<1> QED BY <1>1 DEF Named

\* What the entries of a type refer to.
LEMMA TargetsOf ==
  ASSUME NEW E \in SUBSET Entries, NEW entries \in Seq(E), NEW type
  PROVE  /\ Targets(entries, type) \in Seq(Name)
         /\ \A t : t \in ToSet(Targets(entries, type)) <=>
              \E i \in DOMAIN entries : entries[i].type = type /\ entries[i].target = t
<1> DEFINE ss == [i \in DOMAIN entries |->
                    IF entries[i].type = type THEN <<entries[i].target>> ELSE <<>>]
<1>1. \A i \in DOMAIN entries : entries[i].target \in Name
  BY DEF Entries
<1>2. ss \in Seq(Seq(Name))
  <2>1. \A i \in DOMAIN entries : ss[i] \in Seq(Name)
    <3> SUFFICES ASSUME NEW i \in DOMAIN entries PROVE ss[i] \in Seq(Name)
      OBVIOUS
    <3>1. entries[i].target \in Name
      BY <1>1
    <3> DEFINE a == entries[i].target
    <3>2. ss[i] = IF entries[i].type = type THEN <<a>> ELSE <<>>
      OBVIOUS
    <3> HIDE DEF ss, a
    <3> QED BY <3>1, <3>2 DEF a
  <2>2. DOMAIN entries = 1 .. Len(entries) /\ Len(entries) \in Nat
    OBVIOUS
  <2> QED BY <2>1, <2>2
<1>3. ASSUME NEW t, NEW i \in DOMAIN ss
      PROVE  t \in ToSet(ss[i]) <=> entries[i].type = type /\ entries[i].target = t
  BY DEF ToSet
<1>4. Targets(entries, type) = FlattenSeq(ss) /\ DOMAIN ss = DOMAIN entries
  BY DEF Targets
<1> HIDE DEF ss
<1>5. ASSUME NEW t
      PROVE  t \in ToSet(Targets(entries, type)) <=>
               \E i \in DOMAIN entries : entries[i].type = type /\ entries[i].target = t
  <2>1. t \in ToSet(FlattenSeq(ss)) <=> \E i \in DOMAIN ss : t \in ToSet(ss[i])
    BY <1>2, FlattenElements
  <2> QED BY <2>1, <1>3, <1>4
<1> QED BY <1>2, <1>4, <1>5, FlattenTyped

Leaves(c) ==
  {e \in Entries : \E t \in ToSet(AllEntries(c)) : t.type = e.type /\ t.target = e.target}

LEMMA AllEntriesOf ==
  ASSUME NEW c \in WellTyped
  PROVE  /\ AllEntries(c) \in Seq(Entries)
         /\ ToSet(c.tools) \subseteq Leaves(c)
         /\ \A i \in DOMAIN c.toolsets : ToSet(c.toolsets[i].tools) \subseteq Leaves(c)
<1> DEFINE ss == [i \in DOMAIN c.toolsets |-> c.toolsets[i].tools]
<1>1. c.tools \in Seq(Entries) /\ c.toolsets \in Seq(Toolsets)
  BY DEF WellTyped
<1>2. \A i \in DOMAIN c.toolsets : c.toolsets[i].tools \in Seq(Entries)
  <2>1. \A i \in DOMAIN c.toolsets : c.toolsets[i] \in Toolsets
    BY <1>1
  <2> QED BY <2>1 DEF Toolsets
<1>3. ss \in Seq(Seq(Entries))
  BY <1>1, <1>2
<1>4. FlattenSeq(ss) \in Seq(Entries)
  BY <1>3, FlattenTyped
<1>5. AllEntries(c) = c.tools \o FlattenSeq(ss)
  BY DEF AllEntries
<1>6. ToSet(AllEntries(c)) = ToSet(c.tools) \cup ToSet(FlattenSeq(ss))
  BY <1>1, <1>4, <1>5, ConcatElements, ZenonT(60)
<1>7. ASSUME NEW T, NEW s \in Seq(T), NEW e \in ToSet(s)
      PROVE  e \in T
  BY DEF ToSet
<1>8. ToSet(c.tools) \subseteq Leaves(c)
  BY <1>1, <1>6, <1>7 DEF Leaves
<1>9. ASSUME NEW i \in DOMAIN c.toolsets, NEW e \in ToSet(c.toolsets[i].tools)
      PROVE  e \in Leaves(c)
  <2>1. e \in ToSet(ss[i]) /\ i \in DOMAIN ss
    OBVIOUS
  <2> HIDE DEF ss
  <2>2. e \in ToSet(FlattenSeq(ss))
    BY <1>3, <2>1, FlattenElements
  <2>3. e \in Entries
    BY <1>2, <1>7
  <2> QED BY <1>6, <2>2, <2>3 DEF Leaves
<1> QED BY <1>1, <1>4, <1>5, <1>8, <1>9

ExpandArgs(c) == ToolsetNames(c) \X Name \X SUBSET ToolsetNames(c)
ExpandBelow(c) ==
  {p \in ExpandArgs(c) \X ExpandArgs(c) :
     Cardinality(ToolsetNames(c) \ p[1][3]) < Cardinality(ToolsetNames(c) \ p[2][3])}

\* A list names finitely many.
LEMMA NamesFinite ==
  ASSUME NEW T, NEW defs \in Seq(T)
  PROVE  IsFiniteSet(ToSet(Names(defs)))
<1>1. DOMAIN defs = 1 .. Len(defs) /\ Len(defs) \in Nat
  OBVIOUS
<1>2. IsFiniteSet(1 .. Len(defs))
  BY <1>1, FS_Interval
<1>3. ToSet(Names(defs)) = {defs[i].name : i \in 1 .. Len(defs)}
  BY <1>1 DEF Names, ToSet
<1>4. IsFiniteSet({defs[i].name : i \in 1 .. Len(defs)})
  <2> DEFINE f == [i \in 1 .. Len(defs) |-> defs[i].name]
             S == {defs[i].name : i \in 1 .. Len(defs)}
  <2>1. f \in Surjection(1 .. Len(defs), S)
    BY DEF Surjection
  <2> HIDE DEF f, S
  <2>2. IsFiniteSet(S)
    BY <1>2, <2>1, FS_Surjection
  <2> QED BY <2>2 DEF S
<1> QED BY <1>3, <1>4

\* An expansion asks for toolsets with one more of them seen.
LEMMA ExpandWF ==
  ASSUME NEW c \in WellTyped
  PROVE  IsWellFoundedOn(ExpandBelow(c), ExpandArgs(c))
<1> DEFINE S == ExpandArgs(c)
           M == [x \in S |-> Cardinality(ToolsetNames(c) \ x[3])]
           L == [x \in S |-> 0]
           R == ExpandBelow(c)
<1>1. IsFiniteSet(ToolsetNames(c))
  <2>1. c.toolsets \in Seq(Toolsets)
    BY DEF WellTyped
  <2> QED BY <2>1, NamesFinite DEF ToolsetNames
<1>2. \A x \in S : M[x] \in Nat /\ L[x] \in Nat
  BY <1>1, FS_Subset, FS_CardinalityType
<1>3. \A x, y \in S : <<y, x>> \in R => M[y] < M[x] \/ (M[y] = M[x] /\ L[y] < L[x])
  BY DEF ExpandBelow
<1> QED
  <2> HIDE DEF S, M, L, R
  <2>1. IsWellFoundedOn(R, S)
    BY <1>2, <1>3, LexicographicWF
  <2> QED BY <2>1 DEF R, S

LeafSeqs(c, X, X2, y) == X[y] \in Seq(Leaves(c)) /\ X2[y] = X[y]

\* Granting gives the same for two expansions that agree below, and grants leaves.
LEMMA GrantingFollows ==
  ASSUME NEW c \in WellTyped, NEW X, NEW X2, NEW x \in ExpandArgs(c),
         \A y \in ExpandArgs(c) : <<y, x>> \in ExpandBelow(c) => LeafSeqs(c, X, X2, y)
  PROVE  /\ Granting(X, c, x[1], x[2], x[3]) \in Seq(Leaves(c))
         /\ Granting(X2, c, x[1], x[2], x[3]) = Granting(X, c, x[1], x[2], x[3])
<1> DEFINE n == x[1]
           prefix == x[2]
           seen == x[3]
           tools == Named(c.toolsets, n).tools
           ss == [i \in DOMAIN tools |-> GrantedBy(X, c, n, prefix, seen, tools[i])]
           tt == [i \in DOMAIN tools |-> GrantedBy(X2, c, n, prefix, seen, tools[i])]
<1>1. n \in ToolsetNames(c) /\ prefix \in Name /\ seen \in SUBSET ToolsetNames(c)
  BY DEF ExpandArgs
<1>2. CASE n \in seen
  BY <1>2 DEF Granting
<1>3. CASE n \notin seen
  <2>1. tools \in Seq(Entries) /\ ToSet(tools) \subseteq Leaves(c)
    <3>1. PICK i \in DOMAIN c.toolsets : Named(c.toolsets, n) = c.toolsets[i]
      BY <1>1, NamedIs DEF Defines, ToolsetNames
    <3>2. c.toolsets \in Seq(Toolsets)
      BY DEF WellTyped
    <3>3. c.toolsets[i] \in Toolsets
      BY <3>2
    <3> QED BY <3>1, <3>3, AllEntriesOf DEF Toolsets
  <2>2. ASSUME NEW i \in DOMAIN tools
        PROVE  ss[i] \in Seq(Leaves(c)) /\ tt[i] = ss[i]
    <3> DEFINE e == tools[i]
    <3>1. e \in Entries /\ e \in Leaves(c)
      BY <2>1 DEF ToSet
    <3>2. ss[i] = GrantedBy(X, c, n, prefix, seen, e)
          /\ tt[i] = GrantedBy(X2, c, n, prefix, seen, e)
      OBVIOUS
    <3> HIDE DEF ss, tt, e, tools
    <3>3. CASE e.type # "toolset"
      <4> DEFINE g == [e EXCEPT !.name = prefix \o @]
      <4>1. ss[i] = <<g>> /\ tt[i] = <<g>>
        BY <3>2, <3>3 DEF GrantedBy
      <4>2. prefix \o e.name \in Name
        BY <1>1, <3>1 DEF Entries, Name
      <4>3. g \in Entries /\ g.type = e.type /\ g.target = e.target
        BY <3>1, <4>2 DEF Entries
      <4>4. g \in Leaves(c)
        <5> HIDE DEF g
        <5> QED BY <3>1, <4>3 DEF Leaves
      <4> HIDE DEF g
      <4> QED BY <4>1, <4>4
    <3>4. CASE e.type = "toolset" /\ ~Defines(c.toolsets, e.target)
      BY <3>2, <3>4 DEF GrantedBy
    <3>5. CASE e.type = "toolset" /\ Defines(c.toolsets, e.target)
      <4> DEFINE y == <<e.target, prefix \o e.target, seen \cup {n}>>
      <4>1. ss[i] = X[y] /\ tt[i] = X2[y]
        BY <3>2, <3>5 DEF GrantedBy
      <4>2. y \in ExpandArgs(c)
        <5>1. e.target \in ToolsetNames(c)
          BY <3>5 DEF Defines, ToolsetNames
        <5>2. prefix \o e.target \in Name
          BY <1>1, <3>1 DEF Entries, Name
        <5> QED BY <1>1, <5>1, <5>2 DEF ExpandArgs
      <4>3. <<y, x>> \in ExpandBelow(c)
        <5> DEFINE A == ToolsetNames(c) \ seen
                   B == ToolsetNames(c) \ (seen \cup {n})
        <5>1. IsFiniteSet(A)
          <6>1. c.toolsets \in Seq(Toolsets)
            BY DEF WellTyped
          <6> QED BY <6>1, NamesFinite, FS_Subset DEF ToolsetNames
        <5>2. B \subseteq A /\ B # A
          BY <1>1, <1>3
        <5>3. Cardinality(B) < Cardinality(A)
          <6> HIDE DEF A, B
          <6> QED BY <5>1, <5>2, FS_Subset, FS_CardinalityType, SMT
        <5> QED BY <4>2, <5>3 DEF ExpandBelow
      <4> HIDE DEF y
      <4> QED BY <4>1, <4>2, <4>3 DEF LeafSeqs
    <3> QED BY <3>3, <3>4, <3>5
  <2>3. ss = tt /\ ss \in Seq(Seq(Leaves(c)))
    <3>1. DOMAIN tools = 1 .. Len(tools) /\ Len(tools) \in Nat
      <4> HIDE DEF tools
      <4> QED BY <2>1
    <3>2. ss = tt
      <4>1. \A i \in DOMAIN tools : GrantedBy(X, c, n, prefix, seen, tools[i])
                                      = GrantedBy(X2, c, n, prefix, seen, tools[i])
        BY <2>2
      <4> HIDE DEF tools
      <4> QED BY <4>1
    <3>3. DOMAIN ss = 1 .. Len(tools) /\ \A i \in 1 .. Len(tools) : ss[i] \in Seq(Leaves(c))
      <4>1. DOMAIN ss = DOMAIN tools
        OBVIOUS
      <4> HIDE DEF ss, tools
      <4> QED BY <2>2, <3>1, <4>1
    <3>4. ss = [i \in 1 .. Len(tools) |-> ss[i]]
      <4>1. ss = [i \in DOMAIN tools |-> ss[i]]
        OBVIOUS
      <4> HIDE DEF ss, tools
      <4> QED BY <3>1, <4>1
    <3>5. ss \in Seq(Seq(Leaves(c)))
      <4> HIDE DEF ss, tools
      <4> QED BY <3>1, <3>3, <3>4
    <3> QED BY <3>2, <3>5
  <2>4. Granting(X, c, n, prefix, seen) = FlattenSeq(ss)
        /\ Granting(X2, c, n, prefix, seen) = FlattenSeq(tt)
    BY <1>3 DEF Granting
  <2> HIDE DEF ss, tt
  <2> QED BY <2>3, <2>4, FlattenTyped
<1> QED BY <1>2, <1>3

\* expandToolset ends, whatever refers to what: an expansion is a sequence of leaves.
LEMMA ExpandTyped ==
  ASSUME NEW c \in WellTyped
  PROVE  \A x \in ExpandArgs(c) :
           /\ Expand(c)[x] \in Seq(Leaves(c))
           /\ Expand(c)[x] = Granting(Expand(c), c, x[1], x[2], x[3])
<1> DEFINE S == ExpandArgs(c)
           R == ExpandBelow(c)
           U == Seq(Leaves(c))
           V == [x \in S |-> U]
           A == Typed(S, U, V)
           F == [f \in A |-> [x \in S |-> Granting(f, c, x[1], x[2], x[3])]]
           Flat(X) == [x \in S |-> Granting(X, c, x[1], x[2], x[3])]
<1>1. \A x \in S : V[x] # {} /\ V[x] \subseteq U
  <2>1. <<>> \in U
    OBVIOUS
  <2> HIDE DEF U, S
  <2> QED BY <2>1
<1>2. ASSUME NEW f \in A, NEW g \in A, NEW x \in S,
             \A y \in S : <<y, x>> \in R => f[y] = g[y]
      PROVE  F[f][x] \in V[x] /\ F[f][x] = F[g][x]
  <2>1. \A y \in S : <<y, x>> \in R => LeafSeqs(c, f, g, y)
    BY <1>2 DEF Typed, LeafSeqs
  <2>2. Granting(f, c, x[1], x[2], x[3]) \in U
        /\ Granting(g, c, x[1], x[2], x[3]) = Granting(f, c, x[1], x[2], x[3])
    <3> HIDE DEF A
    <3> QED BY <2>1, GrantingFollows
  <2> HIDE DEF S, U
  <2> QED BY <2>2
<1>3. PICK w \in A : \A x \in S : w[x] = F[w][x]
  <2>1. IsWellFoundedOn(R, S)
    BY ExpandWF
  <2> HIDE DEF S, R, U, V, F
  <2>2. Contracting(S, R, U, V, F)
    BY <2>1, <1>1, <1>2 DEF Contracting
  <2> QED BY <2>2, Recursion
<1>4. w = Flat(w)
  <2> HIDE DEF S, U, V
  <2> QED BY <1>3 DEF Typed
<1> DEFINE h == CHOOSE X : X = Flat(X)
<1>5. h = Flat(h)
  <2> HIDE DEF Flat
  <2> QED BY <1>4
<1>6. Expand(c) = h
  BY DEF Expand, ExpandArgs
<1> HIDE DEF h
<1>7. \A x \in S : h[x] = Granting(h, c, x[1], x[2], x[3])
  <2> HIDE DEF S
  <2> QED BY <1>5
<1>8. \A x \in S : h[x] \in U
  <2> DEFINE T == {x \in S : h[x] \notin U}
  <2>1. SUFFICES ASSUME T # {} PROVE FALSE
    OBVIOUS
  <2>2. PICK x \in T : \A y \in T : ~ (<<y, x>> \in R)
    <3>1. IsWellFoundedOn(R, S)
      BY ExpandWF
    <3>2. T \subseteq S
      OBVIOUS
    <3> HIDE DEF T, R, S
    <3> QED BY <2>1, <3>1, <3>2, WFMin
  <2>3. \A y \in S : <<y, x>> \in R => LeafSeqs(c, h, h, y)
    BY <2>2 DEF LeafSeqs
  <2>4. Granting(h, c, x[1], x[2], x[3]) \in U
    BY <2>3, GrantingFollows
  <2> QED BY <1>7, <2>4
<1> QED BY <1>6, <1>7, <1>8

LEMMA ExpansionTyped ==
  ASSUME NEW c \in WellTyped, NEW n \in ToolsetNames(c)
  PROVE  Expansion(c, n) \in Seq(Leaves(c))
<1>1. n \in Name
  <2>1. c.toolsets \in Seq(Toolsets)
    BY DEF WellTyped
  <2>2. PICK i \in DOMAIN c.toolsets : n = c.toolsets[i].name
    BY DEF ToolsetNames, Names, ToSet
  <2>3. c.toolsets[i] \in Toolsets
    BY <2>1
  <2> QED BY <2>2, <2>3 DEF Toolsets
<1>2. <<n, n, {}>> \in ExpandArgs(c)
  BY <1>1 DEF ExpandArgs
<1> QED BY <1>2, ExpandTyped DEF Expansion

\* A name of the index grants leaves of the configuration.
LEMMA IndexEntriesTyped ==
  ASSUME NEW c \in WellTyped, NEW n \in ToSet(IndexKeys(c))
  PROVE  IndexEntries(c, n) \in Seq(Leaves(c))
<1> DEFINE ts(i) == c.toolsets[i].name
           ss == [i \in DOMAIN c.toolsets |-> Expansion(c, ts(i))]
           kk == [i \in DOMAIN c.toolsets |-> <<ts(i)>> \o Names(Expansion(c, ts(i)))]
           all == FlattenSeq(ss)
<1>1. c.tools \in Seq(Entries) /\ c.toolsets \in Seq(Toolsets)
  BY DEF WellTyped
<1>2. \A i \in DOMAIN c.toolsets : ts(i) \in ToolsetNames(c) /\ ts(i) \in Name
  <2>1. \A i \in DOMAIN c.toolsets : c.toolsets[i] \in Toolsets
    BY <1>1
  <2> QED BY <2>1 DEF ToolsetNames, Names, ToSet, Toolsets
<1>3. \A i \in DOMAIN c.toolsets : ss[i] \in Seq(Leaves(c))
  <2> SUFFICES ASSUME NEW i \in DOMAIN c.toolsets PROVE ss[i] \in Seq(Leaves(c))
    OBVIOUS
  <2>1. ts(i) \in ToolsetNames(c)
    BY <1>2
  <2>2. Expansion(c, ts(i)) \in Seq(Leaves(c))
    <3> HIDE DEF ts
    <3> QED BY <2>1, ExpansionTyped
  <2> QED BY <2>2
<1>4. all \in Seq(Leaves(c)) /\ \A e : e \in ToSet(all)
      <=> \E i \in DOMAIN c.toolsets : e \in ToSet(ss[i])
  <2>1. DOMAIN ss = DOMAIN c.toolsets /\ ss = [i \in DOMAIN c.toolsets |-> ss[i]]
    OBVIOUS
  <2> HIDE DEF ss
  <2> QED BY <1>1, <1>3, <2>1, FlattenMapped, ZenonT(60)
<1>5. CASE Defines(c.tools, n)
  <2>1. PICK i \in DOMAIN c.tools : Named(c.tools, n) = c.tools[i]
    BY <1>5, NamedIs
  <2>2. c.tools[i] \in Leaves(c)
    BY AllEntriesOf DEF ToSet
  <2>3. IndexEntries(c, n) = <<c.tools[i]>>
    BY <1>5, <2>1 DEF IndexEntries
  <2> QED BY <2>2, <2>3
<1>6. CASE ~Defines(c.tools, n) /\ Defines(c.toolsets, n)
  BY <1>6, ExpansionTyped DEF IndexEntries, Defines, ToolsetNames
<1>7. CASE ~Defines(c.tools, n) /\ ~Defines(c.toolsets, n)
  <2>1. IndexEntries(c, n) = <<Named(all, n)>>
    BY <1>7 DEF IndexEntries
  <2>2. IndexKeys(c) = Names(c.tools) \o FlattenSeq(kk)
    BY DEF IndexKeys
  <2>3. ASSUME NEW s \in Seq(Leaves(c)) PROVE Names(s) \in Seq(Name)
    <3>1. \A i \in DOMAIN s : s[i].name \in Name
      BY DEF Leaves, Entries
    <3>2. DOMAIN s = 1 .. Len(s) /\ Len(s) \in Nat
      OBVIOUS
    <3> QED BY <3>1, <3>2 DEF Names
  <2>4. Names(c.tools) \in Seq(Name)
    <3>1. \A i \in DOMAIN c.tools : c.tools[i].name \in Name
      <4>1. \A i \in DOMAIN c.tools : c.tools[i] \in Entries
        BY <1>1
      <4> QED BY <4>1 DEF Entries
    <3>2. DOMAIN c.tools = 1 .. Len(c.tools) /\ Len(c.tools) \in Nat
      BY <1>1
    <3> QED BY <3>1, <3>2 DEF Names
  <2>5. \A i \in DOMAIN c.toolsets : kk[i] \in Seq(Name)
        /\ ToSet(kk[i]) = {ts(i)} \cup ToSet(Names(ss[i]))
    <3> SUFFICES ASSUME NEW i \in DOMAIN c.toolsets
                 PROVE  kk[i] \in Seq(Name) /\ ToSet(kk[i]) = {ts(i)} \cup ToSet(Names(ss[i]))
      OBVIOUS
    <3> DEFINE a == ts(i)
               b == Names(Expansion(c, ts(i)))
    <3>1. kk[i] = <<a>> \o b /\ Names(ss[i]) = b
      OBVIOUS
    <3>2. a \in Name
      BY <1>2
    <3>3. b \in Seq(Name)
      <4>1. ss[i] \in Seq(Leaves(c)) /\ ss[i] = Expansion(c, ts(i))
        BY <1>3
      <4> HIDE DEF ss
      <4> QED BY <4>1, <2>3
    <3> HIDE DEF kk, ss, a, b
    <3>4. <<a>> \in Seq(Name) /\ ToSet(<<a>>) = {a}
      BY <3>2 DEF ToSet
    <3>5. ToSet(<<a>> \o b) = {a} \cup ToSet(b)
      <4>1. ToSet(<<a>> \o b) = ToSet(<<a>>) \cup ToSet(b)
        <5>1. PICK d : d = <<a>>
          OBVIOUS
        <5>2. ToSet(d \o b) = ToSet(d) \cup ToSet(b)
          <6>1. d \in Seq(Name)
            BY <3>4, <5>1
          <6> QED BY <3>3, <6>1, ConcatElements
        <5> QED BY <5>1, <5>2
      <4> QED BY <3>4, <4>1
    <3>6. kk[i] \in Seq(Name)
      BY <3>1, <3>3, <3>4
    <3> QED BY <3>1, <3>5, <3>6 DEF a
  <2>6. FlattenSeq(kk) \in Seq(Name) /\ \A e : e \in ToSet(FlattenSeq(kk))
        <=> \E i \in DOMAIN c.toolsets : e \in ToSet(kk[i])
    <3>1. DOMAIN kk = DOMAIN c.toolsets /\ kk = [i \in DOMAIN c.toolsets |-> kk[i]]
      OBVIOUS
    <3> HIDE DEF kk
    <3> QED BY <1>1, <2>5, <3>1, FlattenMapped, ZenonT(60)
  <2>7. n \in ToSet(Names(c.tools)) \/ n \in ToSet(FlattenSeq(kk))
    <3> HIDE DEF kk
    <3>1. ToSet(Names(c.tools) \o FlattenSeq(kk))
          = ToSet(Names(c.tools)) \cup ToSet(FlattenSeq(kk))
      BY <2>4, <2>6, ConcatElements
    <3> QED BY <2>2, <3>1
  <2>8. PICK i \in DOMAIN c.toolsets : n \in ToSet(kk[i])
    <3> HIDE DEF kk
    <3> QED BY <1>7, <2>6, <2>7 DEF Defines
  <2>9. n # ts(i)
    BY <1>2, <1>7 DEF Defines, ToolsetNames
  <2>10. n \in ToSet(Names(ss[i]))
    <3> HIDE DEF kk, ss, ts
    <3> QED BY <2>5, <2>8, <2>9
  <2>11. PICK j \in DOMAIN ss[i] : n = ss[i][j].name
    <3> HIDE DEF ss
    <3> QED BY <2>10 DEF Names, ToSet
  <2>12. ss[i][j] \in ToSet(all)
    <3> HIDE DEF all, ss
    <3>1. ss[i][j] \in ToSet(ss[i])
      BY DEF ToSet
    <3> QED BY <1>4, <3>1
  <2> HIDE DEF all, ss, kk, ts
  <2>13. PICK k \in DOMAIN all : all[k] = ss[i][j]
    BY <2>12 DEF ToSet
  <2>14. Defines(all, n)
    BY <2>11, <2>13 DEF Defines, Names, ToSet
  <2>15. PICK m \in DOMAIN all : Named(all, n) = all[m]
    BY <2>14, NamedIs
  <2>16. all[m] \in Leaves(c)
    BY <1>4
  <2> QED BY <2>1, <2>15, <2>16
<1> QED BY <1>5, <1>6, <1>7

-----------------------------------------------------------------------------
(***************************************************************************)
(* What Validate accepts.                                                   *)
(***************************************************************************)
AgentNames(c) == ToSet(Names(c.agents))

\* The agents' lists and references can be resolved.
Resolvable(c) ==
  /\ c \in WellTyped /\ ValidateRefs(c)
  /\ \A i \in DOMAIN c.agents : \A k \in DOMAIN c.agents[i].tools :
       c.agents[i].tools[k] \in ToSet(IndexKeys(c))

\* What an agent is granted are leaves of the configuration.
LEMMA GrantedToolsTyped ==
  ASSUME NEW c, Resolvable(c), NEW i \in DOMAIN c.agents
  PROVE  GrantedTools(c, c.agents[i]) \in Seq(Leaves(c))
<1> DEFINE a == c.agents[i]
           ss == [k \in DOMAIN a.tools |-> IndexEntries(c, a.tools[k])]
<1>1. a.tools \in Seq(Name)
  <2>1. c.agents \in Seq(Agents)
    BY DEF WellTyped, Resolvable
  <2>2. a \in Agents
    BY <2>1
  <2> QED BY <2>2 DEF Agents
<1>2. \A k \in DOMAIN a.tools : a.tools[k] \in ToSet(IndexKeys(c))
  BY DEF Resolvable
<1>3. \A k \in DOMAIN a.tools : ss[k] \in Seq(Leaves(c))
  <2> HIDE DEF a
  <2> QED BY <1>2, IndexEntriesTyped DEF Resolvable
<1>4. GrantedTools(c, a) = FlattenSeq(ss)
  BY DEF GrantedTools
<1>5. DOMAIN ss = DOMAIN a.tools /\ ss = [k \in DOMAIN a.tools |-> ss[k]]
  OBVIOUS
<1>6. FlattenSeq(ss) \in Seq(Leaves(c))
  <2> HIDE DEF ss, a
  <2> QED BY <1>1, <1>3, <1>5, FlattenMapped
<1> QED BY <1>4, <1>6

\* The subagents they name are agents of the configuration.
LEMMA SubagentsDefined ==
  ASSUME NEW c, Resolvable(c), NEW entries \in Seq(Leaves(c))
  PROVE  Targets(entries, "subagent") \in Seq(AgentNames(c))
<1> DEFINE ts == Targets(entries, "subagent")
<1>1. Leaves(c) \in SUBSET Entries
  BY DEF Leaves
<1>2. ts \in Seq(Name) /\ \A t : t \in ToSet(ts) <=>
        \E i \in DOMAIN entries : entries[i].type = "subagent" /\ entries[i].target = t
  BY <1>1, TargetsOf
<1>3. AllEntries(c) \in Seq(Entries)
  BY AllEntriesOf DEF Resolvable
<1>4. \A t : t \in ToSet(Targets(AllEntries(c), "subagent")) <=>
        \E i \in DOMAIN AllEntries(c) : AllEntries(c)[i].type = "subagent"
              /\ AllEntries(c)[i].target = t
  BY <1>3, TargetsOf
<1> HIDE DEF ts
<1>5. ASSUME NEW t \in ToSet(ts) PROVE t \in AgentNames(c)
  <2>1. PICK i \in DOMAIN entries : entries[i].type = "subagent" /\ entries[i].target = t
    BY <1>2
  <2>2. entries[i] \in Leaves(c)
    OBVIOUS
  <2>3. PICK e \in ToSet(AllEntries(c)) : e.type = "subagent" /\ e.target = t
    BY <2>1, <2>2 DEF Leaves
  <2>4. PICK j \in DOMAIN AllEntries(c) : e = AllEntries(c)[j]
    BY DEF ToSet
  <2>5. t \in ToSet(Targets(AllEntries(c), "subagent"))
    BY <1>4, <2>3, <2>4
  <2>6. Defines(c.agents, t)
    BY <2>5 DEF Resolvable, ValidateRefs
  <2> QED BY <2>6 DEF Defines, AgentNames
<1>6. \A i \in DOMAIN ts : ts[i] \in AgentNames(c)
  BY <1>5 DEF ToSet
<1> QED BY <1>2, <1>6 DEF ts

\* So are the judges.
LEMMA JudgesDefined ==
  ASSUME NEW c, Resolvable(c), NEW i \in DOMAIN c.agents
  PROVE  c.agents[i].judges \in Seq(AgentNames(c))
<1> DEFINE js == c.agents[i].judges
<1>1. js \in Seq(Name)
  <2>1. c.agents \in Seq(Agents)
    BY DEF WellTyped, Resolvable
  <2>2. c.agents[i] \in Agents
    BY <2>1
  <2> QED BY <2>2 DEF Agents
<1>2. \A j \in DOMAIN js : js[j] \in AgentNames(c)
  BY DEF Resolvable, ValidateRefs, Defines, AgentNames, ToSet
<1> HIDE DEF js
<1> QED BY <1>1, <1>2 DEF js

GrantsOf(c, n) == GrantedTools(c, Named(c.agents, n))

\* The agents as a graph: each leads to the subagents it is granted and to its judges.
LEMMA AgentEdgesAre ==
  ASSUME NEW c, Resolvable(c)
  PROVE  /\ AgentEdges(c) \in [AgentNames(c) -> Seq(AgentNames(c))]
         /\ \A n \in AgentNames(c) :
              /\ GrantsOf(c, n) \in Seq(Leaves(c))
              /\ ToSet(Targets(GrantsOf(c, n), "subagent")) \subseteq AgentNames(c)
              /\ Named(c.agents, n).judges \in Seq(AgentNames(c))
              /\ ToSet(AgentEdges(c)[n]) = ToSet(Targets(GrantsOf(c, n), "subagent"))
                                             \cup ToSet(Named(c.agents, n).judges)
<1> DEFINE N == AgentNames(c)
           E == AgentEdges(c)
           js(n) == Named(c.agents, n).judges
           g(n) == GrantsOf(c, n)
           ts(n) == Targets(g(n), "subagent")
<1>1. ASSUME NEW n \in N
      PROVE  g(n) \in Seq(Leaves(c)) /\ ts(n) \in Seq(N) /\ js(n) \in Seq(N)
  <2>1. PICK i \in DOMAIN c.agents : Named(c.agents, n) = c.agents[i]
    BY NamedIs DEF Defines, AgentNames
  <2>2. g(n) \in Seq(Leaves(c)) /\ js(n) \in Seq(N)
    BY <2>1, GrantedToolsTyped, JudgesDefined DEF GrantsOf
  <2> HIDE DEF g
  <2>3. ts(n) \in Seq(N)
    BY <2>2, SubagentsDefined
  <2> QED BY <2>2, <2>3
<1>2. \A n \in N : E[n] = ts(n) \o js(n)
  BY DEF AgentEdges, AgentNames, GrantsOf
<1>3. E = [n \in N |-> E[n]]
  BY DEF AgentEdges, AgentNames
<1> HIDE DEF N, E, js, g, ts
<1>4. ASSUME NEW n \in N
      PROVE  E[n] \in Seq(N) /\ ToSet(ts(n)) \subseteq N
             /\ ToSet(E[n]) = ToSet(ts(n)) \cup ToSet(js(n))
  <2>1. PICK f, s : f = ts(n) /\ s = js(n)
    OBVIOUS
  <2>2. f \in Seq(N) /\ s \in Seq(N)
    BY <1>1, <2>1
  <2>3. f \o s \in Seq(N)
    BY <2>2
  <2>4. ToSet(f \o s) = ToSet(f) \cup ToSet(s)
    BY <2>2, ConcatElements
  <2>5. ToSet(f) \subseteq N
    BY <2>2, ElementsTyped
  <2> QED BY <1>2, <2>1, <2>3, <2>4, <2>5
<1>5. E \in [N -> Seq(N)]
  BY <1>3, <1>4
<1> QED BY <1>1, <1>4, <1>5 DEF N, E, js, g, ts

\* The names of a list, as the nodes of a graph.
LEMMA NamesAre ==
  ASSUME NEW T, NEW defs \in Seq(T)
  PROVE  Names(defs) \in Seq(ToSet(Names(defs))) /\ IsFiniteSet(ToSet(Names(defs)))
<1>1. DOMAIN defs = 1 .. Len(defs) /\ Len(defs) \in Nat
  OBVIOUS
<1>2. \A i \in DOMAIN defs : defs[i].name \in ToSet(Names(defs))
  BY DEF Names, ToSet
<1>3. Names(defs) \in Seq(ToSet(Names(defs)))
  BY <1>1, <1>2 DEF Names
<1> QED BY <1>3, NamesFinite

Successors(ag, n) == ag[n].registry.subagents \cup ToSet(ag[n].judges)

AgentNode(N) ==
  [registry : [subagents : SUBSET N, deciders : SUBSET Name], judges : Seq(N)]

\* A graph of agents without a cycle.
Layered(ag) ==
  \A T \in SUBSET DOMAIN ag : T # {} => \E n \in T : Successors(ag, n) \cap T = {}

Resolved(c) ==
  [n \in ToSet(Names(c.agents)) |->
     LET a == Named(c.agents, n)
     IN  [registry |-> Registry(GrantedTools(c, a)), judges |-> a.judges]]

\* The agents of every configuration Validate accepts name only agents of it, and form a graph
\* without a cycle through subagents and judges (config.go Validate, validateAgentCycles).
LEMMA ValidAgents ==
  ASSUME NEW c \in WellTyped, Validate(c)
  PROVE  /\ Resolved(c) \in [AgentNames(c) -> AgentNode(AgentNames(c))]
         /\ Layered(Resolved(c))
<1> DEFINE N == AgentNames(c)
           E == AgentEdges(c)
           ag == Resolved(c)
           js(n) == Named(c.agents, n).judges
           ts(n) == Targets(GrantsOf(c, n), "subagent")
           ds(n) == Targets(GrantsOf(c, n), "decider")
<1>1. Resolvable(c)
  BY DEF Resolvable, Validate, ValidateAgent
<1>2. /\ E \in [N -> Seq(N)]
      /\ \A n \in N : /\ ToSet(ts(n)) \subseteq N /\ js(n) \in Seq(N)
                      /\ ToSet(E[n]) = ToSet(ts(n)) \cup ToSet(js(n))
  BY <1>1, AgentEdgesAre
<1>3. ASSUME NEW n \in N PROVE ToSet(ds(n)) \subseteq Name
  <2>1. GrantsOf(c, n) \in Seq(Leaves(c)) /\ Leaves(c) \in SUBSET Entries
    BY <1>1, AgentEdgesAre DEF Leaves
  <2>2. ds(n) \in Seq(Name)
    BY <2>1, TargetsOf
  <2> QED BY <2>2, ElementsTyped
<1>4. Names(c.agents) \in Seq(N) /\ ToSet(Names(c.agents)) = N /\ IsFiniteSet(N)
  <2>1. c.agents \in Seq(Agents)
    BY DEF WellTyped
  <2> QED BY <2>1, NamesAre DEF AgentNames
<1>5. Acyclic(N, E, N)
  <2>1. ~DetectCycle(Names(c.agents), E)
    BY DEF Validate
  <2> HIDE DEF E, N
  <2> QED BY <1>2, <1>4, <2>1, NoCycle
<1>6. ASSUME NEW n \in N
      PROVE  ag[n] = [registry |-> [subagents |-> ToSet(ts(n)), deciders |-> ToSet(ds(n))],
                      judges |-> js(n)]
  BY DEF Resolved, Registry, AgentNames, GrantsOf
<1>7. DOMAIN ag = N /\ ag = [n \in N |-> ag[n]]
  BY DEF Resolved, AgentNames
<1> HIDE DEF ts, ds, js, ag, N, E
<1>8. ASSUME NEW n \in N
      PROVE  ag[n] \in AgentNode(N) /\ Successors(ag, n) = ToSet(E[n])
  <2>1. PICK A, D, j : A = ToSet(ts(n)) /\ D = ToSet(ds(n)) /\ j = js(n)
    OBVIOUS
  <2>2. A \subseteq N /\ D \subseteq Name /\ j \in Seq(N) /\ ToSet(E[n]) = A \cup ToSet(j)
    BY <1>2, <1>3, <2>1
  <2>3. ag[n] = [registry |-> [subagents |-> A, deciders |-> D], judges |-> j]
    BY <1>6, <2>1
  <2>4. ag[n] \in AgentNode(N)
    BY ONLY <2>2, <2>3 DEF AgentNode
  <2>5. Successors(ag, n) = A \cup ToSet(j)
    BY ONLY <2>3 DEF Successors
  <2> QED BY <2>2, <2>4, <2>5
<1>9. Layered(ag)
  BY <1>5, <1>7, <1>8 DEF Layered, Acyclic
<1>10. ag \in [N -> AgentNode(N)]
  BY <1>7, <1>8
<1> QED BY <1>9, <1>10 DEF ag, N

-----------------------------------------------------------------------------
(***************************************************************************)
(* The judgements of a turn.                                                *)
(***************************************************************************)
AgentsTyped(ag) == ag \in [DOMAIN ag -> AgentNode(DOMAIN ag)] /\ Layered(ag)

LinksIn(ag) == [kind : {"turn", "judge", "subagent"}, agent : DOMAIN ag]
PathsIn(ag) == {p \in Seq(LinksIn(ag)) : p # <<>>}
JudgesIn(ag, path) ==
  LET js == ag[Last(path).agent].judges
  IN  [i \in DOMAIN js |-> Append(path, Link("judge", js[i]))]
JudgementsIn(ag) == LET J[path \in PathsIn(ag)] == Reviews(J, JudgesIn(ag, path)) IN J
OutcomesIn(ag) == {Outcome(p) : p \in PathsIn(ag)}

\* The outcomes every path owes depend on the agents alone.
LEMMA JudgementsAre == Judgements = JudgementsIn(agents) /\ Judgements' = JudgementsIn(agents')
<1>1. Judgements = JudgementsIn(agents)
  BY DEF Judgements, JudgementsIn, Paths, PathsIn, LinksIn, JudgesOf, JudgesIn
<1>2. Judgements' = JudgementsIn(agents')
  BY DEF Judgements, JudgementsIn, Paths, PathsIn, LinksIn, JudgesOf, JudgesIn
<1> QED BY <1>1, <1>2

PathBelow(ag) ==
  {p \in PathsIn(ag) \X PathsIn(ag) :
     Last(p[1]).agent \in Successors(ag, Last(p[2]).agent)}

LEMMA LastLink ==
  ASSUME NEW ag, NEW p \in PathsIn(ag)
  PROVE  /\ p \in Seq(LinksIn(ag)) /\ p # <<>> /\ Len(p) \in DOMAIN p /\ Len(p) \in Nat \ {0}
         /\ Last(p) \in LinksIn(ag) /\ Last(p).agent \in DOMAIN ag
<1>1. p \in Seq(LinksIn(ag)) /\ p # <<>>
  BY DEF PathsIn
<1>2. Len(p) \in DOMAIN p /\ Len(p) \in Nat \ {0}
  BY <1>1
<1>3. p[Len(p)] \in LinksIn(ag)
  BY <1>1, <1>2
<1> QED BY <1>1, <1>2, <1>3 DEF Last, LinksIn

\* A path's judges are below it: the graph of agents has no cycle.
LEMMA PathWF ==
  ASSUME NEW ag, AgentsTyped(ag)
  PROVE  IsWellFoundedOn(PathBelow(ag), PathsIn(ag))
<1>1. ASSUME NEW T \in SUBSET PathsIn(ag), T # {}
      PROVE  \E x \in T : \A y \in T : ~ (<<y, x>> \in PathBelow(ag))
  <2> DEFINE U == {Last(x).agent : x \in T}
  <2>1. U \in SUBSET DOMAIN ag /\ U # {}
    BY <1>1, LastLink
  <2>2. PICK n \in U : Successors(ag, n) \cap U = {}
    <3> HIDE DEF U
    <3> QED BY <2>1 DEF AgentsTyped, Layered
  <2>3. PICK x \in T : n = Last(x).agent
    BY <2>2
  <2>4. ASSUME NEW y \in T, <<y, x>> \in PathBelow(ag) PROVE FALSE
    <3>1. Last(y).agent \in Successors(ag, n) /\ Last(y).agent \in U
      BY <2>3, <2>4 DEF PathBelow
    <3> HIDE DEF U
    <3> QED BY <2>2, <3>1
  <2> QED BY <2>4
<1> QED BY <1>1, MinWF

\* The judges of a path's agent, each at the end of the path.
LEMMA JudgesInTyped ==
  ASSUME NEW ag, AgentsTyped(ag), NEW p \in PathsIn(ag)
  PROVE  /\ JudgesIn(ag, p) \in Seq(PathsIn(ag))
         /\ \A i \in DOMAIN JudgesIn(ag, p) :
              \E j \in Successors(ag, Last(p).agent) :
                    JudgesIn(ag, p)[i] = Append(p, Link("judge", j))
<1> DEFINE n == Last(p).agent
           js == ag[n].judges
<1>1. n \in DOMAIN ag /\ p \in Seq(LinksIn(ag))
  BY LastLink
<1>2. js \in Seq(DOMAIN ag)
  <2>1. ag[n] \in AgentNode(DOMAIN ag)
    BY <1>1 DEF AgentsTyped
  <2> QED BY <2>1 DEF AgentNode
<1>3. ASSUME NEW i \in DOMAIN js
      PROVE  Append(p, Link("judge", js[i])) \in PathsIn(ag) /\ js[i] \in Successors(ag, n)
  <2>1. js[i] \in DOMAIN ag
    BY <1>2
  <2>2. Link("judge", js[i]) \in LinksIn(ag)
    BY <2>1 DEF Link, LinksIn
  <2>3. js[i] \in Successors(ag, n)
    BY DEF Successors, ToSet
  <2>4. PICK l \in LinksIn(ag) : l = Link("judge", js[i])
    BY <2>2
  <2>5. Append(p, l) \in Seq(LinksIn(ag)) /\ Append(p, l) # <<>>
    BY <1>1
  <2> QED BY <2>3, <2>4, <2>5 DEF PathsIn
<1>4. JudgesIn(ag, p) = [i \in DOMAIN js |-> Append(p, Link("judge", js[i]))]
  BY DEF JudgesIn
<1>5. DOMAIN js = 1 .. Len(js) /\ Len(js) \in Nat
  BY <1>2
<1> HIDE DEF js, n
<1>6. JudgesIn(ag, p) \in Seq(PathsIn(ag))
  BY <1>3, <1>4, <1>5
<1>7. ASSUME NEW i \in DOMAIN JudgesIn(ag, p)
      PROVE  \E j \in Successors(ag, n) : JudgesIn(ag, p)[i] = Append(p, Link("judge", j))
  BY <1>3, <1>4
<1> QED BY <1>6, <1>7 DEF n

\* Reviews gives outcomes.
LEMMA ReviewsTyped ==
  ASSUME NEW ag, NEW J, NEW ps \in Seq(PathsIn(ag)),
         \A i \in DOMAIN ps : J[ps[i]] \in Seq(OutcomesIn(ag))
  PROVE  Reviews(J, ps) \in Seq(OutcomesIn(ag))
<1> DEFINE T == OutcomesIn(ag)
           ss == [i \in DOMAIN ps |-> <<Outcome(ps[i])>> \o J[ps[i]]]
<1>1. ASSUME NEW i \in DOMAIN ps PROVE ss[i] \in Seq(T)
  <2>1. PICK o : o = Outcome(ps[i])
    OBVIOUS
  <2>2. o \in T
    BY <2>1 DEF OutcomesIn
  <2>3. PICK r \in Seq(T) : r = J[ps[i]]
    OBVIOUS
  <2>4. <<o>> \o r \in Seq(T)
    <3> HIDE DEF T
    <3> QED BY <2>2
  <2> QED BY <2>1, <2>3, <2>4
<1>2. DOMAIN ss = DOMAIN ps /\ ss = [i \in DOMAIN ps |-> ss[i]]
  OBVIOUS
<1>3. Reviews(J, ps) = FlattenSeq(ss)
  BY DEF Reviews
<1> HIDE DEF ss, T
<1>4. FlattenSeq(ss) \in Seq(T)
  BY <1>1, <1>2, FlattenMapped
<1> QED BY <1>3, <1>4 DEF T

\* What every path owes is defined: the reviews of its judges, then of theirs.
LEMMA JudgementsDefined ==
  ASSUME NEW ag, AgentsTyped(ag)
  PROVE  \A p \in PathsIn(ag) :
           /\ JudgementsIn(ag)[p] = Reviews(JudgementsIn(ag), JudgesIn(ag, p))
           /\ JudgementsIn(ag)[p] \in Seq(OutcomesIn(ag))
<1> DEFINE S == PathsIn(ag)
           R == PathBelow(ag)
           U == Seq(OutcomesIn(ag))
           V == [p \in S |-> U]
           A == Typed(S, U, V)
           F == [f \in A |-> [p \in S |-> Reviews(f, JudgesIn(ag, p))]]
           Flat(J) == [p \in S |-> Reviews(J, JudgesIn(ag, p))]
<1>1. \A p \in S : V[p] # {} /\ V[p] \subseteq U
  <2>1. <<>> \in U
    OBVIOUS
  <2> HIDE DEF U, S
  <2> QED BY <2>1
<1>2. ASSUME NEW p \in S, NEW i \in DOMAIN JudgesIn(ag, p)
      PROVE  JudgesIn(ag, p)[i] \in S /\ <<JudgesIn(ag, p)[i], p>> \in R
  <2>1. JudgesIn(ag, p) \in Seq(S)
    BY JudgesInTyped
  <2>2. JudgesIn(ag, p)[i] \in S
    <3> HIDE DEF S
    <3> QED BY <2>1
  <2>3. PICK j \in Successors(ag, Last(p).agent) :
        JudgesIn(ag, p)[i] = Append(p, Link("judge", j))
    BY JudgesInTyped
  <2>4. Last(Append(p, Link("judge", j))).agent = j
    <3>1. PICK l : l = Link("judge", j)
      OBVIOUS
    <3>2. Last(Append(p, l)) = l
      <4>1. p \in Seq(LinksIn(ag))
        BY LastLink
      <4> QED BY <4>1 DEF Last
    <3>3. l.agent = j
      BY <3>1 DEF Link
    <3> QED BY <3>1, <3>2, <3>3
  <2> HIDE DEF S
  <2>5. Last(JudgesIn(ag, p)[i]).agent = j
    BY <2>3, <2>4
  <2> QED BY <2>2, <2>5 DEF PathBelow, S
<1>3. ASSUME NEW f, NEW p \in S, \A y \in S : <<y, p>> \in R => f[y] \in U
      PROVE  Reviews(f, JudgesIn(ag, p)) \in U
  <2>1. \A i \in DOMAIN JudgesIn(ag, p) : f[JudgesIn(ag, p)[i]] \in U
    BY <1>2, <1>3
  <2>2. JudgesIn(ag, p) \in Seq(S)
    BY JudgesInTyped
  <2> QED BY <2>1, <2>2, ReviewsTyped
<1>4. ASSUME NEW f, NEW g, NEW p \in S, \A y \in S : <<y, p>> \in R => f[y] = g[y]
      PROVE  Reviews(f, JudgesIn(ag, p)) = Reviews(g, JudgesIn(ag, p))
  <2> DEFINE ps == JudgesIn(ag, p)
  <2>1. \A i \in DOMAIN ps : f[ps[i]] = g[ps[i]]
    BY <1>2, <1>4
  <2> HIDE DEF ps
  <2>2. [i \in DOMAIN ps |-> <<Outcome(ps[i])>> \o f[ps[i]]]
        = [i \in DOMAIN ps |-> <<Outcome(ps[i])>> \o g[ps[i]]]
    BY <2>1
  <2> QED BY <2>2 DEF Reviews, ps
<1>5. PICK w \in A : \A p \in S : w[p] = F[w][p]
  <2>1. IsWellFoundedOn(R, S)
    BY PathWF
  <2>2. \A f \in A : \A p \in S : F[f][p] \in V[p]
    <3>1. \A f \in A : \A y \in S : f[y] \in U
      BY DEF Typed
    <3>2. \A f \in A : \A p \in S : F[f][p] = Reviews(f, JudgesIn(ag, p)) /\ V[p] = U
      OBVIOUS
    <3> HIDE DEF A, S, U, F, R, V
    <3> QED BY <1>3, <3>1, <3>2
  <2>3. \A f, g \in A : \A p \in S :
          (\A y \in S : <<y, p>> \in R => f[y] = g[y]) => F[f][p] = F[g][p]
    <3>2. \A f \in A : \A p \in S : F[f][p] = Reviews(f, JudgesIn(ag, p))
      OBVIOUS
    <3> HIDE DEF A, S, U, F, R, V
    <3> QED BY <1>4, <3>2
  <2> HIDE DEF S, R, U, V, F
  <2>4. Contracting(S, R, U, V, F)
    BY <2>1, <2>2, <2>3, <1>1 DEF Contracting
  <2> QED BY <2>4, Recursion
<1>6. w = Flat(w)
  <2> HIDE DEF S, U, V
  <2> QED BY <1>5 DEF Typed
<1> DEFINE h == CHOOSE J : J = Flat(J)
<1>7. h = Flat(h)
  <2> HIDE DEF Flat
  <2> QED BY <1>6
<1>8. JudgementsIn(ag) = h
  BY DEF JudgementsIn
<1> HIDE DEF h
<1>9. \A p \in S : h[p] = Reviews(h, JudgesIn(ag, p))
  <2> HIDE DEF S
  <2> QED BY <1>7
<1>10. \A p \in S : h[p] \in U
  <2> DEFINE T == {p \in S : h[p] \notin U}
  <2>1. SUFFICES ASSUME T # {} PROVE FALSE
    OBVIOUS
  <2>2. PICK p \in T : \A y \in T : ~ (<<y, p>> \in R)
    <3>1. IsWellFoundedOn(R, S)
      BY PathWF
    <3>2. T \subseteq S
      OBVIOUS
    <3> HIDE DEF T, R, S
    <3> QED BY <2>1, <3>1, <3>2, WFMin
  <2>3. \A y \in S : <<y, p>> \in R => h[y] \in U
    BY <2>2
  <2>4. Reviews(h, JudgesIn(ag, p)) \in U
    <3> HIDE DEF S, U, R
    <3> QED BY <2>2, <2>3, <1>3 DEF S
  <2> QED BY <1>9, <2>4
<1> QED BY <1>8, <1>9, <1>10

\* Reviews goes through a concatenation.
LEMMA ReviewsConcat ==
  ASSUME NEW ag, NEW J, NEW ps \in Seq(PathsIn(ag)), NEW qs \in Seq(PathsIn(ag)),
         \A p \in PathsIn(ag) : J[p] \in Seq(OutcomesIn(ag))
  PROVE  Reviews(J, ps \o qs) = Reviews(J, ps) \o Reviews(J, qs)
<1> DEFINE S == PathsIn(ag)
           T == OutcomesIn(ag)
           Each(r) == [i \in DOMAIN r |-> <<Outcome(r[i])>> \o J[r[i]]]
<1>1. ASSUME NEW p \in S PROVE <<Outcome(p)>> \o J[p] \in Seq(T)
  <2>1. PICK o : o = Outcome(p)
    OBVIOUS
  <2>2. o \in T
    BY <2>1 DEF OutcomesIn
  <2>3. PICK r \in Seq(T) : r = J[p]
    OBVIOUS
  <2>4. <<o>> \o r \in Seq(T)
    <3> HIDE DEF T
    <3> QED BY <2>2
  <2> QED BY <2>1, <2>3, <2>4
<1> DEFINE K == [p \in S |-> <<Outcome(p)>> \o J[p]]
<1>2. K \in [S -> Seq(T)]
  BY <1>1
<1>3. ASSUME NEW r \in Seq(S) PROVE Each(r) = [i \in DOMAIN r |-> K[r[i]]]
  OBVIOUS
<1> HIDE DEF K, S, T
<1>4. ASSUME NEW r \in Seq(S) PROVE [i \in DOMAIN r |-> K[r[i]]] \in Seq(Seq(T))
  <2>1. DOMAIN r = 1 .. Len(r) /\ Len(r) \in Nat /\ \A i \in DOMAIN r : K[r[i]] \in Seq(T)
    BY <1>2
  <2> QED BY <2>1
<1>5. [i \in DOMAIN (ps \o qs) |-> K[(ps \o qs)[i]]]
      = [i \in DOMAIN ps |-> K[ps[i]]] \o [i \in DOMAIN qs |-> K[qs[i]]]
  <2> DEFINE a == [i \in DOMAIN ps |-> K[ps[i]]]
             b == [i \in DOMAIN qs |-> K[qs[i]]]
             d == [i \in DOMAIN (ps \o qs) |-> K[(ps \o qs)[i]]]
  <2>1. ps \in Seq(S) /\ qs \in Seq(S) /\ ps \o qs \in Seq(S)
    BY DEF S
  <2>2. a \in Seq(Seq(T)) /\ b \in Seq(Seq(T)) /\ d \in Seq(Seq(T))
    BY <1>4, <2>1
  <2>3. Len(a) = Len(ps) /\ Len(b) = Len(qs) /\ Len(d) = Len(ps) + Len(qs)
    <3>1. DOMAIN a = 1 .. Len(ps) /\ Len(ps) \in Nat
      BY <2>1
    <3>2. DOMAIN b = 1 .. Len(qs) /\ Len(qs) \in Nat
      BY <2>1
    <3>3. DOMAIN d = 1 .. Len(ps) + Len(qs)
      BY <2>1
    <3>4. ASSUME NEW s \in Seq(Seq(T)), NEW n \in Nat, DOMAIN s = 1 .. n PROVE Len(s) = n
      BY <3>4
    <3> HIDE DEF a, b, d
    <3> QED BY <2>2, <3>1, <3>2, <3>3, <3>4
  <2>4. ASSUME NEW i \in 1 .. Len(ps) + Len(qs) PROVE d[i] = (a \o b)[i]
    <3>1. i \in DOMAIN (ps \o qs) /\ d[i] = K[(ps \o qs)[i]]
      BY <2>1
    <3>2. CASE i <= Len(ps)
      <4>1. i \in DOMAIN ps /\ (ps \o qs)[i] = ps[i]
        BY <2>1, <3>2
      <4>2. a[i] = K[ps[i]]
        BY <4>1
      <4>3. (a \o b)[i] = a[i]
        <5>1. i \in 1 .. Len(a)
          BY <2>1, <2>3, <3>2
        <5> HIDE DEF a, b
        <5> QED BY <2>2, <5>1
      <4> QED BY <3>1, <4>1, <4>2, <4>3
    <3>3. CASE ~ (i <= Len(ps))
      <4>1. i - Len(ps) \in DOMAIN qs /\ (ps \o qs)[i] = qs[i - Len(ps)]
        BY <2>1, <3>3
      <4>2. b[i - Len(ps)] = K[qs[i - Len(ps)]]
        BY <4>1
      <4>3. (a \o b)[i] = b[i - Len(ps)]
        <5>1. i \in 1 .. Len(a) + Len(b) /\ ~ (i <= Len(a)) /\ Len(a) = Len(ps)
          BY <2>1, <2>3, <3>3
        <5> HIDE DEF a, b
        <5> QED BY <2>2, <5>1, SMTT(30)
      <4> QED BY <3>1, <4>1, <4>2, <4>3
    <3> QED BY <3>2, <3>3
  <2> HIDE DEF a, b, d
  <2>5. d = a \o b
    <3>1. PICK e : e = a \o b
      OBVIOUS
    <3>2. e \in Seq(Seq(T)) /\ Len(e) = Len(ps) + Len(qs)
      <4>1. a \o b \in Seq(Seq(T)) /\ Len(a \o b) = Len(a) + Len(b)
        BY <2>2
      <4> QED BY <2>3, <3>1, <4>1, Zenon
    <3>3. \A i \in 1 .. Len(e) : d[i] = e[i]
      BY <2>4, <3>1, <3>2
    <3>4. d = e
      <4>1. Len(d) = Len(e)
        BY <2>3, <3>2
      <4> QED BY <2>2, <3>2, <3>3, <4>1, SeqEqual
    <3> QED BY <3>1, <3>4
  <2> QED BY <2>5 DEF a, b, d
<1>6. ps \in Seq(S) /\ qs \in Seq(S) /\ ps \o qs \in Seq(S)
  BY DEF S
<1>7. /\ Reviews(J, ps) = FlattenSeq([i \in DOMAIN ps |-> K[ps[i]]])
      /\ Reviews(J, qs) = FlattenSeq([i \in DOMAIN qs |-> K[qs[i]]])
      /\ Reviews(J, ps \o qs) = FlattenSeq([i \in DOMAIN (ps \o qs) |-> K[(ps \o qs)[i]]])
  BY <1>3, <1>6 DEF Reviews
<1>8. PICK a \in Seq(Seq(T)) : a = [i \in DOMAIN ps |-> K[ps[i]]]
  BY <1>4, <1>6
<1>9. PICK b \in Seq(Seq(T)) : b = [i \in DOMAIN qs |-> K[qs[i]]]
  BY <1>4, <1>6
<1>10. FlattenSeq(a \o b) = FlattenSeq(a) \o FlattenSeq(b)
  BY FlattenConcat
<1> QED BY <1>5, <1>7, <1>8, <1>9, <1>10, Zenon

\* The review of one path is its outcome, then what it owes.
LEMMA ReviewsOfOne ==
  ASSUME NEW ag, NEW J, NEW p \in PathsIn(ag), J[p] \in Seq(OutcomesIn(ag))
  PROVE  Reviews(J, <<p>>) = <<Outcome(p)>> \o J[p] /\ Reviews(J, <<>>) = <<>>
<1> DEFINE T == OutcomesIn(ag)
<1>1. PICK s : s = <<Outcome(p)>> \o J[p]
  OBVIOUS
<1>2. s \in Seq(T)
  <2>1. PICK o : o = Outcome(p)
    OBVIOUS
  <2>2. o \in T
    BY <2>1 DEF OutcomesIn
  <2>3. PICK r \in Seq(T) : r = J[p]
    OBVIOUS
  <2>4. <<o>> \o r \in Seq(T)
    <3> HIDE DEF T
    <3> QED BY <2>2
  <2> QED BY <2>1, <2>3, <2>4, <1>1
<1>3. Reviews(J, <<p>>) = FlattenSeq(<<s>>)
  <2>1. [i \in DOMAIN <<p>> |-> <<Outcome(<<p>>[i])>> \o J[<<p>>[i]]] = <<s>>
    BY <1>1
  <2> QED BY <2>1 DEF Reviews
<1>4. FlattenSeq(<<s>>) = s
  <2>1. <<>> \in Seq(Seq(T)) /\ Append(<<>>, s) = <<s>> /\ <<>> \o s = s
    BY <1>2
  <2>2. FlattenSeq(Append(<<>>, s)) = FlattenSeq(<<>>) \o s
    BY <2>1, <1>2, FlattenAppend
  <2> QED BY <2>1, <2>2, FlattenEmpty
<1>5. Reviews(J, <<>>) = <<>>
  <2>1. [i \in DOMAIN <<>> |-> <<Outcome(<<>>[i])>> \o J[<<>>[i]]] = <<>>
    OBVIOUS
  <2> QED BY <2>1, FlattenEmpty DEF Reviews
<1> QED BY <1>1, <1>3, <1>4, <1>5

-----------------------------------------------------------------------------
(***************************************************************************)
(* The invariant.                                                           *)
(***************************************************************************)
Walks(ag) ==
  {p \in PathsIn(ag) :
     \A k \in 1 .. Len(p) - 1 : p[k + 1].agent \in Successors(ag, p[k].agent)}
JudgeWalks(ag) == {p \in Walks(ag) : Last(p).kind = "judge"}

Runs(ag) ==
  [path : Walks(ag), heard : BOOLEAN, calls : Nat, does : {"calls", "tool", "ok", "error"}]

\* A stack of runs: below the outermost there are subagents only.
Nested(s) ==
  \A i \in DOMAIN s :
    /\ Last(s[i].path).kind = "subagent" <=> i # 1
    /\ s[i].heard \/ BelowJudge(s[i].path)

\* A walk through a graph without a cycle meets no agent twice.
LEMMA WalkDistinct ==
  ASSUME NEW ag, AgentsTyped(ag), NEW p \in Walks(ag),
         NEW j \in DOMAIN p, NEW k \in DOMAIN p, j < k
  PROVE  p[j].agent # p[k].agent
<1> SUFFICES ASSUME p[j].agent = p[k].agent PROVE FALSE
  OBVIOUS
<1> DEFINE T == {p[i].agent : i \in j .. k - 1}
<1>1. p \in Seq(LinksIn(ag)) /\ DOMAIN p = 1 .. Len(p) /\ Len(p) \in Nat
  BY DEF Walks, PathsIn
<1>2. T \in SUBSET DOMAIN ag
  <2>1. \A i \in DOMAIN p : p[i] \in LinksIn(ag)
    BY <1>1
  <2>2. \A i \in DOMAIN p : p[i].agent \in DOMAIN ag
    BY <2>1 DEF LinksIn
  <2> QED BY <1>1, <2>2
<1>3. p[j].agent \in T
  BY <1>1
<1>4. PICK n \in T : Successors(ag, n) \cap T = {}
  <2> HIDE DEF T
  <2> QED BY <1>2, <1>3 DEF AgentsTyped, Layered
<1>5. PICK i \in j .. k - 1 : n = p[i].agent
  OBVIOUS
<1>6. p[i + 1].agent \in Successors(ag, n)
  <2>1. i \in 1 .. Len(p) - 1
    BY <1>1
  <2> QED BY <1>5, <2>1 DEF Walks
<1>7. p[i + 1].agent \in T
  <2>1. CASE i + 1 = k
    BY <1>3, <2>1
  <2>2. CASE i + 1 # k
    <3>1. i + 1 \in j .. k - 1
      BY <1>1, <2>2
    <3> QED BY <3>1
  <2> QED BY <2>1, <2>2
<1> HIDE DEF T
<1> QED BY <1>4, <1>6, <1>7

\* What follows a judge is below it.
LEMMA BelowJudgeAppend ==
  ASSUME NEW T, NEW p \in Seq(T), p # <<>>, BelowJudge(p) \/ Last(p).kind = "judge", NEW l
  PROVE  BelowJudge(Append(p, l))
<1>1. PICK U : U = T \cup {l}
  OBVIOUS
<1>2. p \in Seq(U) /\ l \in U
  BY <1>1
<1>3. Len(Append(p, l)) = Len(p) + 1 /\ Len(p) \in Nat \ {0} /\ DOMAIN p = 1 .. Len(p)
  BY <1>2
<1>4. \A i \in DOMAIN p : i \in DOMAIN Append(p, l) /\ Append(p, l)[i] = p[i] /\ i < Len(p) + 1
  BY <1>2
<1>5. PICK i \in DOMAIN p : p[i].kind = "judge"
  BY <1>3 DEF BelowJudge, Last
<1>6. PICK q : q = Append(p, l)
  OBVIOUS
<1>7. i \in DOMAIN q /\ q[i].kind = "judge" /\ i < Len(q)
  BY <1>3, <1>4, <1>5, <1>6
<1> QED BY <1>6, <1>7 DEF BelowJudge

LEMMA WalkIsPath ==
  ASSUME NEW ag, NEW p \in Walks(ag)
  PROVE  /\ p \in PathsIn(ag) /\ p \in Seq(LinksIn(ag)) /\ p # <<>>
         /\ Len(p) \in Nat \ {0} /\ Last(p) = p[Len(p)] /\ Last(p) \in LinksIn(ag)
BY LastLink DEF Walks, Last

\* A walk goes on to a successor of its last agent.
LEMMA WalkOn ==
  ASSUME NEW ag, NEW p \in Walks(ag), NEW l \in LinksIn(ag),
         l.agent \in Successors(ag, Last(p).agent)
  PROVE  Append(p, l) \in Walks(ag) /\ Last(Append(p, l)) = l
<1>1. p \in Seq(LinksIn(ag)) /\ p # <<>> /\ Len(p) \in Nat \ {0} /\ Last(p) = p[Len(p)]
  BY WalkIsPath
<1>2. PICK q \in Seq(LinksIn(ag)) : q = Append(p, l)
  <2>1. Append(p, l) \in Seq(LinksIn(ag))
    BY <1>1, AppendProperties
  <2> QED BY <2>1
<1>3. /\ Len(q) = Len(p) + 1 /\ q # <<>> /\ q[Len(p) + 1] = l
      /\ \A i \in 1 .. Len(p) : q[i] = p[i]
  BY <1>1, <1>2
<1>4. Last(q) = l
  BY <1>3 DEF Last
<1>5. ASSUME NEW k \in 1 .. Len(q) - 1
      PROVE  q[k + 1].agent \in Successors(ag, q[k].agent)
  <2>1. k \in 1 .. Len(p) /\ q[k] = p[k]
    BY <1>1, <1>3
  <2>2. CASE k = Len(p)
    BY <1>1, <1>3, <2>1, <2>2
  <2>3. CASE k # Len(p)
    <3>1. k \in 1 .. Len(p) - 1 /\ k + 1 \in 1 .. Len(p)
      BY <1>1, <2>1, <2>3
    <3>2. p[k + 1].agent \in Successors(ag, p[k].agent)
      BY <3>1 DEF Walks
    <3> QED BY <1>3, <2>1, <3>1, <3>2
  <2> QED BY <2>2, <2>3
<1>6. q \in Walks(ag)
  BY <1>3, <1>5 DEF Walks, PathsIn
<1> QED BY <1>2, <1>4, <1>6

\* The judges of the agent at the end of a walk.
LEMMA JudgesWalk ==
  ASSUME NEW ag, AgentsTyped(ag), NEW p \in Walks(ag)
  PROVE  JudgesIn(ag, p) \in Seq(JudgeWalks(ag))
<1>1. p \in PathsIn(ag)
  BY WalkIsPath
<1>2. JudgesIn(ag, p) \in Seq(PathsIn(ag))
  BY <1>1, JudgesInTyped
<1>3. ASSUME NEW i \in DOMAIN JudgesIn(ag, p) PROVE JudgesIn(ag, p)[i] \in JudgeWalks(ag)
  <2>1. PICK j \in Successors(ag, Last(p).agent) :
        JudgesIn(ag, p)[i] = Append(p, Link("judge", j))
    BY <1>1, JudgesInTyped
  <2>2. PICK l : l = Link("judge", j)
    OBVIOUS
  <2>3. l.agent = j /\ l.kind = "judge"
    BY <2>2 DEF Link
  <2>4. l \in LinksIn(ag)
    <3>1. Last(p).agent \in DOMAIN ag
      BY <1>1, LastLink
    <3>2. ag[Last(p).agent] \in AgentNode(DOMAIN ag)
      BY <3>1 DEF AgentsTyped
    <3>3. Successors(ag, Last(p).agent) \subseteq DOMAIN ag
      BY <3>2 DEF AgentNode, Successors, ToSet
    <3> QED BY <2>2, <3>3 DEF Link, LinksIn
  <2>5. Append(p, l) \in Walks(ag) /\ Last(Append(p, l)) = l
    BY <2>3, <2>4, WalkOn
  <2>6. JudgesIn(ag, p)[i] = Append(p, l)
    BY <2>1, <2>2
  <2> QED BY <2>3, <2>5, <2>6 DEF JudgeWalks
<1> QED BY <1>2, <1>3

\* The stack goes on with the same runs.
Kept(ag, s, t) ==
  /\ t \in Seq(Runs(ag)) /\ Len(t) = Len(s)
  /\ \A i \in DOMAIN s : t[i].path = s[i].path /\ t[i].heard = s[i].heard

\* A change of what the run on top does keeps the runs.
LEMMA DoesKeeps ==
  ASSUME NEW ag, NEW s \in Seq(Runs(ag)), s # <<>>,
         NEW d \in {"calls", "tool", "ok", "error"}
  PROVE  /\ Kept(ag, s, [s EXCEPT ![Len(s)].does = d])
         /\ Kept(ag, s, [s EXCEPT ![Len(s)].does = d, ![Len(s)].calls = @ + 1])
<1>1. Len(s) \in DOMAIN s /\ s[Len(s)] \in Runs(ag) /\ DOMAIN s = 1 .. Len(s) /\ Len(s) \in Nat
  OBVIOUS
<1> DEFINE t == [s EXCEPT ![Len(s)].does = d]
           u == [s EXCEPT ![Len(s)].does = d, ![Len(s)].calls = @ + 1]
           x == [s[Len(s)] EXCEPT !.does = d]
           y == [s[Len(s)] EXCEPT !.does = d, !.calls = @ + 1]
<1>2. x \in Runs(ag) /\ x.path = s[Len(s)].path /\ x.heard = s[Len(s)].heard
  BY <1>1 DEF Runs
<1>3. y \in Runs(ag) /\ y.path = s[Len(s)].path /\ y.heard = s[Len(s)].heard
  <2>1. PICK r \in Runs(ag) : r = s[Len(s)]
    BY <1>1
  <2>2. r.calls + 1 \in Nat
    BY DEF Runs
  <2>3. PICK n \in Nat : n = r.calls + 1
    BY <2>2
  <2>4. [r EXCEPT !.does = d, !.calls = n] \in Runs(ag)
    BY DEF Runs
  <2> QED BY <2>1, <2>3, <2>4 DEF Runs
<1>4. t = [s EXCEPT ![Len(s)] = x]
  BY <1>1
<1>5. u = [s EXCEPT ![Len(s)] = y]
  BY <1>1
<1>6. ASSUME NEW z \in Runs(ag), z.path = s[Len(s)].path, z.heard = s[Len(s)].heard
      PROVE  Kept(ag, s, [s EXCEPT ![Len(s)] = z])
  <2>1. PICK v : v = [s EXCEPT ![Len(s)] = z]
    OBVIOUS
  <2>2. v \in Seq(Runs(ag)) /\ Len(v) = Len(s)
    BY <2>1
  <2>3. \A i \in DOMAIN s : v[i] = IF i = Len(s) THEN z ELSE s[i]
    BY <2>1
  <2>4. \A i \in DOMAIN s : v[i].path = s[i].path /\ v[i].heard = s[i].heard
    BY <1>6, <2>3
  <2> QED BY <2>1, <2>2, <2>4 DEF Kept
<1> HIDE DEF t, u, x, y
<1> QED BY <1>2, <1>3, <1>4, <1>5, <1>6 DEF t, u

\* The same runs stay nested.
LEMMA KeptNested ==
  ASSUME NEW ag, NEW s \in Seq(Runs(ag)), NEW t, s # <<>>, Kept(ag, s, t), Nested(s)
  PROVE  Nested(t) /\ t \in Seq(Runs(ag)) /\ t # <<>> /\ t[1].path = s[1].path
<1>1. t \in Seq(Runs(ag)) /\ DOMAIN t = DOMAIN s
  BY DEF Kept
<1>2. t # <<>> /\ 1 \in DOMAIN s
  BY DEF Kept
<1> QED BY <1>1, <1>2 DEF Kept, Nested

TypeInv ==
  /\ agents \in [DOMAIN agents -> AgentNode(DOMAIN agents)] /\ Layered(agents)
  /\ stack \in Seq(Runs(agents))
  /\ todo \in Seq(JudgeWalks(agents))
  /\ outcomes \in Seq(OutcomesIn(agents))
  /\ judgeError \in BOOLEAN /\ cancelled \in BOOLEAN

\* The judges still to come: the one that runs and those behind it.
Ahead(s, t) == (IF s = <<>> THEN <<>> ELSE <<s[1].path>>) \o t

Whole(ag, s, t, o) ==
  o \o Reviews(JudgementsIn(ag), Ahead(s, t)) = JudgementsIn(ag)[<<Link("turn", Root)>>]

Idle == stack = <<>> /\ todo = <<>> /\ outcomes = <<>> /\ judgeError = FALSE

Judged ==
  \/ stack = <<>> /\ todo = <<>> /\ outcomes = <<>> /\ (judgeError \/ cancelled)
  \/ judgeError = FALSE /\ Whole(agents, stack, todo, outcomes)

Turning ==
  /\ stack # <<>> /\ stack[1].path = <<Link("turn", Root)>>
  /\ todo = <<>> /\ outcomes = <<>> /\ judgeError = FALSE

PhaseInv ==
  \/ pc = "load" /\ Idle /\ config \in Configs
  \/ pc = "rejected" /\ Idle
  \/ pc = "turn" /\ Root \in DOMAIN agents /\ Turning
  \/ /\ pc = "judges" /\ Root \in DOMAIN agents /\ Judged
     /\ stack # <<>> => Last(stack[1].path).kind = "judge"
  \/ pc = "over" /\ Root \in DOMAIN agents /\ Judged /\ stack = <<>> /\ todo = <<>>

Inv == TypeInv /\ Nested(stack) /\ UsageHeard /\ PhaseInv

-----------------------------------------------------------------------------
(***************************************************************************)
(* Its steps.                                                               *)
(***************************************************************************)
\* The runs at both ends of a stack.
LEMMA TopRun ==
  ASSUME NEW ag, NEW s \in Seq(Runs(ag)), s # <<>>
  PROVE  /\ Last(s) = s[Len(s)] /\ Last(s) \in Runs(ag) /\ Len(s) \in DOMAIN s
         /\ Last(s).path \in Walks(ag) /\ Last(s).heard \in BOOLEAN
         /\ 1 \in DOMAIN s /\ s[1].path \in Walks(ag)
<1>1. Last(s) = s[Len(s)] /\ Len(s) \in DOMAIN s /\ 1 \in DOMAIN s
  BY DEF Last
<1>2. \A i \in DOMAIN s : s[i] \in Runs(ag)
  OBVIOUS
<1> QED BY <1>1, <1>2 DEF Runs

LEMMA NoneTyped ==
  ASSUME NEW S
  PROVE  <<>> \in Seq(S)
OBVIOUS

\* A step below the outermost run leaves the phase as it is.
LEMMA GoesOn ==
  ASSUME TypeInv, PhaseInv, stack # <<>>,
         agents' = agents, pc' = pc, config' = config, todo' = todo, outcomes' = outcomes,
         judgeError' = judgeError, cancelled' = cancelled,
         stack' \in Seq(Runs(agents)), stack' # <<>>, stack'[1].path = stack[1].path
  PROVE  TypeInv' /\ PhaseInv'
<1>1. TypeInv'
  BY DEF TypeInv
<1>2. Ahead(stack', todo') = Ahead(stack, todo)
  BY DEF Ahead
<1>3. Whole(agents', stack', todo', outcomes') <=> Whole(agents, stack, todo, outcomes)
  BY <1>2 DEF Whole
<1>4. PhaseInv'
  <2>1. (pc = "turn" /\ Root \in DOMAIN agents /\ Turning) \/
        (pc = "judges" /\ Root \in DOMAIN agents /\ Judged /\ Last(stack[1].path).kind = "judge")
    BY DEF PhaseInv, Idle
  <2>2. CASE pc = "turn" /\ Root \in DOMAIN agents /\ Turning
    BY <2>2 DEF PhaseInv, Turning
  <2>3. CASE pc = "judges" /\ Root \in DOMAIN agents /\ Judged
        /\ Last(stack[1].path).kind = "judge"
    <3>1. judgeError' = FALSE /\ Whole(agents', stack', todo', outcomes')
      BY <1>3, <2>3 DEF Judged
    <3>2. Judged'
      BY <3>1 DEF Judged
    <3> QED BY <2>3, <3>2 DEF PhaseInv
  <2> QED BY <2>1, <2>2, <2>3
<1> QED BY <1>1, <1>4

\* The invariant holds initially, and every action keeps it.
LEMMA InvInit == Init => Inv
<1> SUFFICES ASSUME Init PROVE Inv
  OBVIOUS
<1>1. agents = <<>> /\ stack = <<>> /\ todo = <<>> /\ outcomes = <<>> /\ unheard = {}
  BY DEF Init, NoAgents
<1>2. DOMAIN agents = {}
  BY <1>1
<1>3. agents \in [{} -> AgentNode({})]
  BY <1>1, <1>2
<1>4. Layered(agents)
  BY <1>2 DEF Layered
<1>5. TypeInv
  <2>1. stack \in Seq(Runs(agents)) /\ todo \in Seq(JudgeWalks(agents))
        /\ outcomes \in Seq(OutcomesIn(agents))
    BY <1>1, NoneTyped, Zenon
  <2>2. judgeError \in BOOLEAN /\ cancelled \in BOOLEAN
    BY DEF Init
  <2>3. agents \in [DOMAIN agents -> AgentNode(DOMAIN agents)]
    BY <1>2, <1>3, Zenon
  <2> QED BY <1>4, <2>1, <2>2, <2>3 DEF TypeInv
<1> QED BY <1>1, <1>5 DEF Inv, Nested, UsageHeard, PhaseInv, Idle, Init

LEMMA LoadInv == Inv /\ Load => Inv'
<1> SUFFICES ASSUME Inv, Load PROVE Inv'
  OBVIOUS
<1>1. pc = "load" /\ Idle /\ config \in WellTyped
  BY DelegationAssumption DEF Inv, PhaseInv, Load
<1>2. todo' = <<>> /\ outcomes' = <<>> /\ judgeError' = FALSE /\ UsageHeard'
      /\ cancelled' = cancelled
  BY <1>1 DEF Load, Idle, Inv, UsageHeard
<1>3. CASE ~(Validate(config) /\ Defines(config.agents, Root))
  <2>1. pc' = "rejected" /\ agents' = agents /\ stack' = <<>> /\ stack = <<>>
    BY <1>1, <1>3 DEF Load, Idle
  <2>2. TypeInv'
    <3>1. outcomes = outcomes' /\ todo = todo' /\ stack = stack' /\ judgeError = judgeError'
      BY <1>1, <1>2, <2>1 DEF Idle
    <3> QED BY <1>2, <2>1, <3>1 DEF TypeInv, Inv
  <2>3. PhaseInv'
    BY <1>2, <2>1 DEF PhaseInv, Idle
  <2>4. Nested(stack)'
    BY <2>1 DEF Nested
  <2> QED BY <1>2, <2>2, <2>3, <2>4 DEF Inv
<1>4. CASE Validate(config) /\ Defines(config.agents, Root)
  <2> DEFINE N == AgentNames(config)
             l == Link("turn", Root)
             r == Run(<<l>>, TRUE)
  <2>1. pc' = "turn" /\ agents' = Resolved(config) /\ stack' = <<r>>
    BY <1>1, <1>4 DEF Load, Resolved
  <2>2. agents' \in [N -> AgentNode(N)] /\ Layered(agents')
    BY <1>1, <1>4, <2>1, ValidAgents
  <2>3. Root \in DOMAIN agents' /\ DOMAIN agents' = N
    BY <1>4, <2>2 DEF Defines, AgentNames
  <2>4. l \in LinksIn(agents') /\ l.kind = "turn"
    BY <2>3 DEF LinksIn, Link
  <2>5. <<l>> \in Walks(agents') /\ Last(<<l>>) = l
    <3> HIDE DEF l
    <3>1. <<l>> \in Seq(LinksIn(agents')) /\ Len(<<l>>) = 1 /\ <<l>>[1] = l /\ <<l>> # <<>>
      BY <2>4
    <3>2. PICK p \in Seq(LinksIn(agents')) : p = <<l>>
      BY <3>1
    <3>3. p \in PathsIn(agents') /\ Len(p) = 1 /\ Last(p) = l
      BY <3>1, <3>2 DEF PathsIn, Last
    <3>4. p \in Walks(agents')
      <4>1. \A n \in Nat : n = 1 => 1 .. n - 1 = {}
        OBVIOUS
      <4>2. 1 .. Len(p) - 1 = {}
        BY <3>3, <4>1
      <4> QED BY <3>3, <4>2 DEF Walks
    <3> QED BY <3>2, <3>3, <3>4
  <2>6. r \in Runs(agents') /\ r.path = <<l>> /\ r.heard = TRUE
    <3> HIDE DEF l
    <3> QED BY <2>5 DEF Run, Runs
  <2>7. stack' \in Seq(Runs(agents')) /\ stack' # <<>> /\ stack'[1] = r /\ DOMAIN stack' = {1}
    <3> HIDE DEF r
    <3> QED BY <2>1, <2>6
  <2>8. Nested(stack)'
    <3> HIDE DEF r, l
    <3>1. Last(stack'[1].path).kind = "turn" /\ stack'[1].heard = TRUE
      BY <2>4, <2>5, <2>6, <2>7
    <3> QED BY <2>7, <3>1 DEF Nested
  <2>9. TypeInv'
    <3> HIDE DEF r, N
    <3>1. todo' \in Seq(JudgeWalks(agents')) /\ outcomes' \in Seq(OutcomesIn(agents'))
      BY <1>2, NoneTyped, Zenon
    <3>2. judgeError' \in BOOLEAN /\ cancelled' \in BOOLEAN
      BY <1>2 DEF Inv, TypeInv
    <3> QED BY <2>2, <2>3, <2>7, <3>1, <3>2 DEF TypeInv
  <2>10. PhaseInv'
    <3>1. Turning'
      <4> HIDE DEF r
      <4> QED BY <1>2, <2>6, <2>7 DEF Turning
    <3> QED BY <2>1, <2>3, <3>1 DEF PhaseInv
  <2> QED BY <1>2, <2>8, <2>9, <2>10 DEF Inv
<1> QED BY <1>3, <1>4

LEMMA InterruptInv == Inv /\ Interrupt => Inv'
<1> SUFFICES ASSUME Inv, Interrupt PROVE Inv'
  OBVIOUS
<1>1. TypeInv'
  BY DEF Inv, Interrupt, TypeInv
<1>2. Nested(stack)' /\ UsageHeard'
  BY DEF Inv, Interrupt, Nested, UsageHeard
<1>3. PhaseInv'
  <2>1. Whole(agents', stack', todo', outcomes') <=> Whole(agents, stack, todo, outcomes)
    BY DEF Interrupt
  <2>2. Judged => Judged'
    BY <2>1 DEF Judged, Interrupt
  <2> QED BY <2>2 DEF Inv, PhaseInv, Turning, Interrupt
<1> QED BY <1>1, <1>2, <1>3 DEF Inv

\* A step of the run on top.
OneRun ==
  /\ stack # <<>>
  /\ UNCHANGED <<config, agents, pc, todo, outcomes, judgeError, cancelled>>

\* A step of one run that keeps the runs keeps the invariant.
LEMMA KeptInv ==
  ASSUME Inv, OneRun, Kept(agents, stack, stack'), UsageHeard'
  PROVE  Inv'
<1>1. stack \in Seq(Runs(agents)) /\ Nested(stack) /\ stack # <<>>
  BY DEF Inv, TypeInv, OneRun
<1>2. Nested(stack') /\ stack' \in Seq(Runs(agents)) /\ stack' # <<>>
      /\ stack'[1].path = stack[1].path
  BY <1>1, KeptNested
<1>3. TypeInv' /\ PhaseInv'
  BY <1>1, <1>2, GoesOn DEF Inv, OneRun
<1> QED BY <1>2, <1>3 DEF Inv

LEMMA LLMCallInv == Inv /\ LLMCall => Inv'
<1> SUFFICES ASSUME Inv, LLMCall PROVE Inv'
  OBVIOUS
<1>1. OneRun /\ stack \in Seq(Runs(agents)) /\ stack # <<>>
  BY DEF LLMCall, Running, OneRun, Inv, TypeInv
<1>2. Kept(agents, stack, stack')
  <2>1. PICK d \in {"tool", "ok", "error"} :
          stack' = [stack EXCEPT ![Len(stack)].does = d, ![Len(stack)].calls = @ + 1]
    BY DEF LLMCall
  <2> QED BY <1>1, <2>1, DoesKeeps
<1>3. UsageHeard'
  <2>1. Top \in Runs(agents) /\ Top = stack[Len(stack)] /\ Len(stack) \in DOMAIN stack
    BY <1>1, TopRun DEF Top
  <2>2. Top.heard \/ BelowJudge(Top.path)
    BY <2>1 DEF Inv, Nested
  <2>3. unheard' = IF Top.heard THEN unheard ELSE unheard \cup {Top.path}
    BY DEF LLMCall, Spend
  <2>4. \A p \in unheard' : p \in unheard \/ BelowJudge(p)
    BY <2>2, <2>3
  <2>5. \A p \in unheard : BelowJudge(p) \/ CutOff(p)
    BY DEF Inv, UsageHeard
  <2>6. \A p \in unheard' : BelowJudge(p) \/ CutOff(p)
    BY ONLY <2>4, <2>5
  <2> QED BY <2>6 DEF UsageHeard, BelowJudge, CutOff
<1> QED BY <1>1, <1>2, <1>3, KeptInv

LEMMA DoesInv ==
  ASSUME Inv, OneRun, UsageHeard', NEW d \in {"calls", "error"}, Does(d)
  PROVE  Inv'
<1>1. stack \in Seq(Runs(agents)) /\ stack # <<>>
  BY DEF Inv, TypeInv, OneRun
<1>2. Kept(agents, stack, stack')
  BY <1>1, DoesKeeps DEF Does
<1> QED BY <1>2, KeptInv

LEMMA LLMCallFailsInv == Inv /\ LLMCallFails => Inv'
<1> SUFFICES ASSUME Inv, LLMCallFails PROVE Inv'
  OBVIOUS
<1>1. OneRun /\ UsageHeard' /\ Does("error")
  BY DEF LLMCallFails, Running, OneRun, Inv, UsageHeard
<1> QED BY <1>1, DoesInv

LEMMA CallToolInv == Inv /\ CallTool => Inv'
<1> SUFFICES ASSUME Inv, CallTool PROVE Inv'
  OBVIOUS
<1>1. OneRun /\ UsageHeard' /\ Does("calls")
  BY DEF CallTool, Running, OneRun, Inv, UsageHeard
<1> QED BY <1>1, DoesInv

\* What a run does not relay is below a judge.
LEMMA Unrelayed ==
  ASSUME Inv, stack # <<>>, NEW l
  PROVE  RelayedBy(Top) \/ BelowJudge(Append(Top.path, l))
<1>1. stack \in Seq(Runs(agents))
  BY DEF Inv, TypeInv
<1>2. Top \in Runs(agents) /\ Top = stack[Len(stack)] /\ Len(stack) \in DOMAIN stack
      /\ Top.path \in Walks(agents)
  BY <1>1, TopRun DEF Top
<1>3. Top.heard \/ BelowJudge(Top.path)
  BY <1>2 DEF Inv, Nested
<1>4. Top.path \in Seq(LinksIn(agents)) /\ Top.path # <<>>
  BY <1>2, WalkIsPath
<1>5. CASE BelowJudge(Top.path) \/ Last(Top.path).kind = "judge"
  BY <1>4, <1>5, BelowJudgeAppend
<1>6. CASE ~ (BelowJudge(Top.path) \/ Last(Top.path).kind = "judge")
  BY <1>3, <1>6 DEF RelayedBy
<1> QED BY <1>5, <1>6

LEMMA CallDeciderInv == Inv /\ CallDecider => Inv'
<1> SUFFICES ASSUME Inv, CallDecider PROVE Inv'
  OBVIOUS
<1>1. OneRun /\ stack # <<>> /\ Does("calls")
  BY DEF CallDecider, Running, OneRun
<1>2. UsageHeard'
  <2>1. PICK d \in agents[Last(Top.path).agent].registry.deciders :
          \/ Spend(RelayedBy(Top), Append(Top.path, Link("decider", d)))
          \/ Spend(FALSE, Append(Top.path, Link("decider cut off", d)))
          \/ UNCHANGED unheard
    BY DEF CallDecider
  <2>2. PICK q : q = Append(Top.path, Link("decider", d))
    OBVIOUS
  <2>3. RelayedBy(Top) \/ BelowJudge(q)
    BY <1>1, <2>2, Unrelayed
  <2>4. PICK c : c = Append(Top.path, Link("decider cut off", d))
    OBVIOUS
  <2>5. CutOff(c)
    <3>1. stack \in Seq(Runs(agents))
      BY DEF Inv, TypeInv
    <3>2. Top.path \in Seq(LinksIn(agents))
      BY <1>1, <3>1, TopRun, WalkIsPath DEF Top
    <3>3. PICK l : l = Link("decider cut off", d)
      OBVIOUS
    <3>4. Last(Append(Top.path, l)) = l
      <4>1. PICK U : U = LinksIn(agents) \cup {l}
        OBVIOUS
      <4>2. Top.path \in Seq(U) /\ l \in U
        BY <3>2, <4>1
      <4> QED BY <4>2, LastAppended
    <3>5. l.kind = "decider cut off"
      BY <3>3 DEF Link
    <3>6. Last(c).kind = "decider cut off"
      BY ONLY <2>4, <3>3, <3>4, <3>5
    <3> QED BY <3>6 DEF CutOff
  <2>6. \/ unheard' = unheard
        \/ BelowJudge(q) /\ unheard' = unheard \cup {q}
        \/ unheard' = unheard \cup {c}
    BY <2>1, <2>2, <2>3, <2>4 DEF Spend
  <2>7. \A p \in unheard : BelowJudge(p) \/ CutOff(p)
    BY DEF Inv, UsageHeard
  <2>8. \A p \in unheard' : BelowJudge(p) \/ CutOff(p)
    BY ONLY <2>5, <2>6, <2>7
  <2> QED BY <2>8 DEF UsageHeard, BelowJudge, CutOff
<1> QED BY <1>1, <1>2, DoesInv

LEMMA CallSubagentInv == Inv /\ CallSubagent => Inv'
<1> SUFFICES ASSUME Inv, CallSubagent PROVE Inv'
  OBVIOUS
<1>1. OneRun /\ stack # <<>> /\ unheard' = unheard
  BY DEF CallSubagent, Running, OneRun
<1>2. TypeInv /\ Nested(stack) /\ UsageHeard /\ PhaseInv /\ stack \in Seq(Runs(agents))
  BY DEF Inv, TypeInv
<1>3. Top \in Runs(agents) /\ Top = stack[Len(stack)] /\ Top.path \in Walks(agents)
  BY <1>1, <1>2, TopRun DEF Top
<1>4. PICK a \in agents[Last(Top.path).agent].registry.subagents :
        stack' = Append([stack EXCEPT ![Len(stack)].does = "calls"],
                        Run(Append(Top.path, Link("subagent", a)), RelayedBy(Top)))
  BY DEF CallSubagent
<1>5. PICK t : t = [stack EXCEPT ![Len(stack)].does = "calls"]
  OBVIOUS
<1>6. Nested(t) /\ t \in Seq(Runs(agents)) /\ t # <<>> /\ t[1].path = stack[1].path
  <2>1. Kept(agents, stack, t)
    BY <1>1, <1>2, <1>5, DoesKeeps
  <2> QED BY <1>1, <1>2, <2>1, KeptNested
<1>7. PICK l : l = Link("subagent", a)
  OBVIOUS
<1>8. l \in LinksIn(agents) /\ l.kind = "subagent" /\ l.agent = a
      /\ a \in Successors(agents, Last(Top.path).agent)
  <2>1. Last(Top.path).agent \in DOMAIN agents
    BY <1>3, WalkIsPath, LastLink
  <2>2. agents[Last(Top.path).agent] \in AgentNode(DOMAIN agents)
    BY <1>2, <2>1 DEF TypeInv
  <2>3. a \in DOMAIN agents
    BY <2>2 DEF AgentNode
  <2> QED BY <1>7, <2>3 DEF LinksIn, Link, Successors
<1>9. PICK q : q = Append(Top.path, l)
  OBVIOUS
<1>10. q \in Walks(agents) /\ Last(q) = l /\ (RelayedBy(Top) \/ BelowJudge(q))
  BY <1>1, <1>3, <1>8, <1>9, WalkOn, Unrelayed
<1>11. PICK r : r = Run(q, RelayedBy(Top))
  OBVIOUS
<1>12. r \in Runs(agents) /\ r.path = q /\ (r.heard \/ BelowJudge(q))
  <2>1. RelayedBy(Top) \in BOOLEAN
    BY DEF RelayedBy
  <2>2. r.path = q /\ r.heard = RelayedBy(Top)
        /\ r = [path |-> q, heard |-> RelayedBy(Top), calls |-> 0, does |-> "calls"]
    BY <1>11 DEF Run
  <2>3. r \in Runs(agents)
    BY <1>10, <2>1, <2>2 DEF Runs
  <2> QED BY <1>10, <2>2, <2>3
<1>13. stack' = Append(t, r)
  BY <1>4, <1>5, <1>7, <1>9, <1>11
<1>14. /\ stack' \in Seq(Runs(agents)) /\ stack' # <<>> /\ Len(stack') = Len(t) + 1
      /\ Len(t) \in Nat \ {0}
       /\ \A i \in DOMAIN stack' : IF i = Len(t) + 1 THEN stack'[i] = r
                                     ELSE i \in DOMAIN t /\ stack'[i] = t[i]
       /\ stack'[1] = t[1]
  BY <1>6, <1>12, <1>13
<1>15. Nested(stack')
  <2> SUFFICES ASSUME NEW i \in DOMAIN stack'
               PROVE  /\ Last(stack'[i].path).kind = "subagent" <=> i # 1
                      /\ stack'[i].heard \/ BelowJudge(stack'[i].path)
    BY DEF Nested
  <2>1. CASE i = Len(t) + 1
    BY <1>8, <1>10, <1>12, <1>14, <2>1
  <2>2. CASE i # Len(t) + 1
    BY <1>6, <1>14, <2>2 DEF Nested
  <2> QED BY <2>1, <2>2
<1>16. TypeInv' /\ PhaseInv'
  BY <1>1, <1>2, <1>6, <1>14, GoesOn DEF OneRun
<1> QED BY <1>1, <1>2, <1>15, <1>16 DEF Inv, UsageHeard

LEMMA SubagentEndsInv == Inv /\ SubagentEnds => Inv'
<1> SUFFICES ASSUME Inv, SubagentEnds PROVE Inv'
  OBVIOUS
<1>1. OneRun /\ stack # <<>> /\ unheard' = unheard /\ stack' = Front(stack)
      /\ Last(Top.path).kind = "subagent"
  BY DEF SubagentEnds, Ended, Running, OneRun
<1>2. TypeInv /\ Nested(stack) /\ UsageHeard /\ PhaseInv /\ stack \in Seq(Runs(agents))
  BY DEF Inv, TypeInv
<1>3. Top = stack[Len(stack)] /\ Len(stack) \in DOMAIN stack
  BY <1>1, <1>2, TopRun DEF Top
<1>4. Len(stack) # 1
  BY <1>1, <1>2, <1>3 DEF Nested
<1>5. /\ stack' \in Seq(Runs(agents)) /\ stack' # <<>>
      /\ \A i \in DOMAIN stack' : i \in DOMAIN stack /\ stack'[i] = stack[i]
      /\ stack'[1] = stack[1]
  <2>1. PICK s \in Seq(Runs(agents)) : s = stack
    BY <1>2
  <2>2. Len(s) \in Nat /\ Len(s) >= 2
    <3>1. Len(s) \in Nat /\ DOMAIN s = 1 .. Len(s)
      OBVIOUS
    <3>2. Len(s) \in DOMAIN s /\ Len(s) # 1
      BY <1>3, <1>4, <2>1
    <3> QED BY <3>1, <3>2
  <2>3. PICK t : t = SubSeq(s, 1, Len(s) - 1)
    OBVIOUS
  <2>4. /\ t \in Seq(Runs(agents)) /\ Len(t) = Len(s) - 1
        /\ \A i \in 1 .. Len(s) - 1 : t[i] = s[i]
    BY <2>2, <2>3
  <2>5. stack' = t
    BY <1>1, <2>1, <2>3 DEF Front
  <2> QED BY <2>1, <2>2, <2>4, <2>5
<1>6. Nested(stack')
  BY <1>2, <1>5 DEF Nested
<1>7. TypeInv' /\ PhaseInv'
  BY <1>1, <1>2, <1>5, GoesOn DEF OneRun
<1> QED BY <1>1, <1>2, <1>6, <1>7 DEF Inv, UsageHeard

\* A turn or a judge ends as the only run.
LEMMA EndsAlone ==
  ASSUME Inv, Ended, Last(Top.path).kind # "subagent"
  PROVE  /\ stack \in Seq(Runs(agents)) /\ stack # <<>> /\ Top = stack[1]
        /\ Top.path \in Walks(agents)
         /\ AgentsTyped(agents)
         /\ JudgesOf(Top.path) = JudgesIn(agents, Top.path)
<1>1. stack \in Seq(Runs(agents)) /\ stack # <<>> /\ Nested(stack) /\ AgentsTyped(agents)
  BY DEF Inv, TypeInv, Ended, Running, AgentsTyped
<1>2. Top = stack[Len(stack)] /\ Len(stack) \in DOMAIN stack /\ Top.path \in Walks(agents)
  BY <1>1, TopRun DEF Top
<1>3. Len(stack) = 1
  BY <1>1, <1>2 DEF Nested
<1> QED BY <1>1, <1>2, <1>3 DEF JudgesOf, JudgesIn

LEMMA TurnEndsInv == Inv /\ TurnEnds => Inv'
<1> SUFFICES ASSUME Inv, TurnEnds PROVE Inv'
  OBVIOUS
<1> DEFINE p == Top.path
           J == JudgementsIn(agents)
<1>1. /\ stack # <<>> /\ Top = stack[1] /\ p \in Walks(agents) /\ AgentsTyped(agents)
      /\ JudgesOf(p) = JudgesIn(agents, p) /\ Last(p).kind = "turn"
  BY EndsAlone DEF TurnEnds
<1>2. /\ stack' = <<>> /\ agents' = agents /\ unheard' = unheard /\ cancelled' = cancelled
      /\ pc' = "judges" /\ outcomes' = outcomes /\ judgeError' = judgeError
      /\ todo' = IF cancelled THEN <<>> ELSE JudgesOf(p)
  BY DEF TurnEnds
<1>3. pc = "turn" /\ Root \in DOMAIN agents /\ Turning
  <2>1. Last(stack[1].path).kind # "judge" /\ stack # <<>>
    BY <1>1
  <2> QED BY <2>1 DEF Inv, PhaseInv, Idle
<1>4. TypeInv'
  <2>1. JudgesIn(agents, p) \in Seq(JudgeWalks(agents))
    BY <1>1, JudgesWalk
  <2>2. todo' \in Seq(JudgeWalks(agents))
    BY <1>1, <1>2, <2>1, NoneTyped
  <2> QED BY <1>2, <2>2, NoneTyped DEF Inv, TypeInv
<1>5. Nested(stack)' /\ UsageHeard'
  BY <1>2 DEF Nested, Inv, UsageHeard
<1>6. Judged'
  <2>1. CASE cancelled
    BY <1>2, <1>3, <2>1 DEF Judged, Turning
  <2>2. CASE ~cancelled
    <3>1. todo' = JudgesIn(agents, p) /\ outcomes' = <<>> /\ judgeError' = FALSE
      BY <1>1, <1>2, <1>3, <2>2 DEF Turning
    <3>2. p \in PathsIn(agents) /\ p = <<Link("turn", Root)>>
      BY <1>1, <1>3, WalkIsPath DEF Turning
    <3>3. J[p] = Reviews(J, JudgesIn(agents, p)) /\ J[p] \in Seq(OutcomesIn(agents))
      BY <1>1, <3>2, JudgementsDefined
    <3>4. Ahead(stack', todo') = JudgesIn(agents, p)
      <4>1. JudgesIn(agents, p) \in Seq(JudgeWalks(agents))
        BY <1>1, JudgesWalk
      <4>2. Ahead(stack', todo') = <<>> \o JudgesIn(agents, p)
        BY <1>2, <3>1 DEF Ahead
      <4> QED BY <4>1, <4>2
    <3>5. <<>> \o J[p] = J[p]
      <4> HIDE DEF J, p
      <4> QED BY <3>3
    <3>6. Whole(agents', stack', todo', outcomes')
      <4> HIDE DEF p
      <4> QED BY <1>2, <3>1, <3>2, <3>3, <3>4, <3>5 DEF Whole
    <3> QED BY <3>1, <3>6 DEF Judged
  <2> QED BY <2>1, <2>2
<1>7. PhaseInv'
  BY <1>2, <1>3, <1>6 DEF PhaseInv
<1> QED BY <1>4, <1>5, <1>7 DEF Inv

LEMMA JudgeStartsInv == Inv /\ JudgeStarts => Inv'
<1> SUFFICES ASSUME Inv, JudgeStarts PROVE Inv'
  OBVIOUS
<1>1. /\ pc = "judges" /\ stack = <<>> /\ todo # <<>> /\ todo \in Seq(JudgeWalks(agents))
      /\ agents' = agents /\ unheard' = unheard /\ cancelled' = cancelled
      /\ pc' = pc /\ outcomes' = outcomes /\ judgeError' = judgeError
      /\ todo' = Tail(todo) /\ stack' = <<Run(Head(todo), TRUE)>>
  BY DEF JudgeStarts, Inv, TypeInv
<1>2. PICK p : p = Head(todo)
  OBVIOUS
<1>3. p \in JudgeWalks(agents) /\ todo' \in Seq(JudgeWalks(agents))
  BY <1>1, <1>2
<1>4. p \in Walks(agents) /\ Last(p).kind = "judge"
  BY <1>3 DEF JudgeWalks
<1>5. PICK r : r = Run(p, TRUE)
  OBVIOUS
<1>6. r \in Runs(agents) /\ r.path = p /\ r.heard = TRUE
  BY <1>4, <1>5 DEF Run, Runs
<1>7. stack' = <<r>>
  BY <1>1, <1>2, <1>5
<1>8. stack' \in Seq(Runs(agents)) /\ stack' # <<>> /\ DOMAIN stack' = {1} /\ stack'[1] = r
  BY <1>6, <1>7
<1>9. Nested(stack)'
  BY <1>4, <1>6, <1>8 DEF Nested
<1>10. TypeInv'
  BY <1>1, <1>3, <1>8 DEF Inv, TypeInv
<1>11. Ahead(stack', todo') = Ahead(stack, todo)
  <2>1. PICK d : d = <<p>>
    OBVIOUS
  <2>2. PICK t \in Seq(JudgeWalks(agents)) : t = todo
    BY <1>1
  <2>3. t # <<>> /\ Head(t) = p /\ Tail(t) = todo'
    BY <1>1, <1>2, <2>2
  <2>4. <<Head(t)>> \o Tail(t) = t /\ <<>> \o t = t
    BY <2>3
  <2>5. Ahead(stack, todo) = <<>> \o t
    BY <1>1, <2>2 DEF Ahead
  <2>6. Ahead(stack', todo') = <<p>> \o Tail(t)
    BY <1>6, <1>8, <2>3 DEF Ahead
  <2> QED BY <2>3, <2>4, <2>5, <2>6
<1>12. PhaseInv'
  <2>1. Root \in DOMAIN agents /\ Judged
    BY <1>1 DEF Inv, PhaseInv
  <2>2. judgeError = FALSE /\ Whole(agents, stack, todo, outcomes)
    BY <1>1, <2>1 DEF Judged
  <2>3. Whole(agents', stack', todo', outcomes')
    BY <1>1, <1>11, <2>2 DEF Whole
  <2>4. Judged'
    BY <1>1, <2>2, <2>3 DEF Judged
  <2> QED BY <1>1, <1>4, <1>6, <1>8, <2>1, <2>4 DEF PhaseInv
<1> QED BY <1>1, <1>9, <1>10, <1>12 DEF Inv, UsageHeard

LEMMA FinishInv == Inv /\ Finish => Inv'
<1> SUFFICES ASSUME Inv, Finish PROVE Inv'
  OBVIOUS
<1>1. /\ pc = "judges" /\ stack = <<>> /\ todo = <<>> /\ pc' = "over"
      /\ UNCHANGED <<config, agents, stack, todo, outcomes, judgeError, unheard, cancelled>>
  BY DEF Finish
<1>2. TypeInv' /\ Nested(stack)' /\ UsageHeard'
  BY <1>1 DEF Inv, TypeInv, Nested, UsageHeard
<1>3. Root \in DOMAIN agents /\ Judged
  BY <1>1 DEF Inv, PhaseInv
<1>4. Whole(agents', stack', todo', outcomes') <=> Whole(agents, stack, todo, outcomes)
  BY <1>1
<1>5. Judged'
  BY <1>1, <1>3, <1>4 DEF Judged
<1>6. PhaseInv'
  BY <1>1, <1>3, <1>5 DEF PhaseInv
<1> QED BY <1>2, <1>6 DEF Inv

\* What a judge that did well adds to the outcomes, its own judges still owe.
LEMMA JudgeOwes ==
  ASSUME NEW ag, AgentsTyped(ag), NEW p \in JudgeWalks(ag), NEW t \in Seq(JudgeWalks(ag)),
         NEW o \in Seq(OutcomesIn(ag))
  PROVE  /\ JudgesIn(ag, p) \o t \in Seq(JudgeWalks(ag))
         /\ Append(o, Outcome(p)) \in Seq(OutcomesIn(ag))
         /\ o \o Reviews(JudgementsIn(ag), <<p>> \o t)
              = Append(o, Outcome(p)) \o Reviews(JudgementsIn(ag), JudgesIn(ag, p) \o t)
<1> DEFINE J == JudgementsIn(ag)
           S == PathsIn(ag)
           T == OutcomesIn(ag)
<1>1. p \in Walks(ag) /\ p \in S
  BY WalkIsPath DEF JudgeWalks
<1>2. JudgeWalks(ag) \subseteq S
  BY DEF JudgeWalks, Walks
<1>3. t \in Seq(S) /\ <<p>> \in Seq(S)
  BY <1>1, <1>2
<1>4. JudgesIn(ag, p) \in Seq(JudgeWalks(ag)) /\ JudgesIn(ag, p) \in Seq(S)
  BY <1>1, <1>2, JudgesWalk
<1>5. /\ \A q \in S : J[q] \in Seq(T)
      /\ J[p] = Reviews(J, JudgesIn(ag, p))
  BY <1>1, JudgementsDefined
<1>6. PICK js \in Seq(S) : js = JudgesIn(ag, p)
  BY <1>4
<1>7. PICK d \in Seq(S) : d = <<p>>
  BY <1>3
<1>8. PICK x \in T : x = Outcome(p)
  BY <1>1 DEF OutcomesIn
<1>9. Reviews(J, d \o t) = Reviews(J, d) \o Reviews(J, t)
  BY <1>3, <1>5, ReviewsConcat
<1>10. Reviews(J, js \o t) = Reviews(J, js) \o Reviews(J, t)
  BY <1>3, <1>5, ReviewsConcat
<1>11. Reviews(J, d) = <<x>> \o J[p]
  BY <1>1, <1>5, <1>7, <1>8, ReviewsOfOne
<1>12. PICK u \in Seq(T) : u = J[p]
  BY <1>1, <1>5
<1>13. PICK v \in Seq(T) : v = Reviews(J, t)
  BY <1>3, <1>5, ReviewsTyped
<1>14. o \o ((<<x>> \o u) \o v) = Append(o, x) \o (u \o v)
  <2> HIDE DEF T
  <2>1. o \in Seq(T) /\ <<x>> \in Seq(T)
    BY DEF T
  <2>2. PICK y \in Seq(T) : y = <<x>>
    BY <2>1
  <2>3. o \o ((y \o u) \o v) = (o \o y) \o (u \o v)
    <3>1. PICK a \in Seq(T) : a = o
      BY <2>1
    <3>2. a \o ((y \o u) \o v) = (a \o y) \o (u \o v)
      <4>1. Regroups(a, y, u, v)
        BY ConcatOfThree
      <4> QED BY <4>1 DEF Regroups
    <3> QED BY <3>1, <3>2, Zenon
  <2>4. Append(o, x) = o \o <<x>>
    BY <2>1
  <2> QED BY <2>2, <2>3, <2>4
<1>15. JudgesIn(ag, p) \o t \in Seq(JudgeWalks(ag))
  BY <1>4
<1>16. Append(o, Outcome(p)) \in Seq(OutcomesIn(ag))
  <2> HIDE DEF T
  <2>1. Append(o, x) \in Seq(T)
    BY DEF T
  <2> QED BY <1>8, <2>1 DEF T
<1>17. o \o Reviews(J, <<p>> \o t) = Append(o, Outcome(p)) \o Reviews(J, JudgesIn(ag, p) \o t)
  <2>1. Reviews(J, <<p>> \o t) = (<<x>> \o u) \o v
    BY <1>7, <1>9, <1>11, <1>12, <1>13
  <2>2. Reviews(J, JudgesIn(ag, p) \o t) = u \o v
    BY <1>5, <1>6, <1>10, <1>12, <1>13
  <2> QED BY <1>8, <1>14, <2>1, <2>2
<1> QED BY <1>15, <1>16, <1>17

LEMMA JudgeEndsInv == Inv /\ JudgeEnds => Inv'
<1> SUFFICES ASSUME Inv, JudgeEnds PROVE Inv'
  OBVIOUS
<1>1. PICK p : p = Top.path
  OBVIOUS
<1>2. /\ stack # <<>> /\ Top = stack[1] /\ p \in Walks(agents) /\ AgentsTyped(agents)
      /\ JudgesOf(p) = JudgesIn(agents, p) /\ Last(p).kind = "judge"
  BY <1>1, EndsAlone DEF JudgeEnds
<1>3. /\ stack' = <<>> /\ agents' = agents /\ unheard' = unheard /\ cancelled' = cancelled
      /\ pc' = pc /\ config' = config
  BY DEF JudgeEnds
<1>4. pc = "judges" /\ Root \in DOMAIN agents /\ judgeError = FALSE
      /\ Whole(agents, stack, todo, outcomes)
  <2>1. Last(stack[1].path).kind = "judge" /\ stack # <<>>
    BY <1>1, <1>2
  <2>2. ~Turning
    BY <2>1, SMTT(30) DEF Turning, Link, Last
  <2>3. pc = "judges" /\ Root \in DOMAIN agents /\ Judged
    BY <2>1, <2>2 DEF Inv, PhaseInv, Idle
  <2> QED BY <2>1, <2>3 DEF Judged
<1>5. todo \in Seq(JudgeWalks(agents)) /\ outcomes \in Seq(OutcomesIn(agents))
      /\ p \in JudgeWalks(agents)
  BY <1>2 DEF Inv, TypeInv, JudgeWalks
<1>6. Nested(stack)' /\ UsageHeard'
  BY <1>3 DEF Nested, Inv, UsageHeard
<1>7. CASE Running("ok") /\ ~cancelled
  <2>1. outcomes' = Append(outcomes, Outcome(p)) /\ todo' = JudgesIn(agents, p) \o todo
        /\ judgeError' = FALSE
    BY <1>1, <1>2, <1>4, <1>7 DEF JudgeEnds, JudgedFirst
  <2>2. /\ todo' \in Seq(JudgeWalks(agents)) /\ outcomes' \in Seq(OutcomesIn(agents))
        /\ outcomes \o Reviews(JudgementsIn(agents), <<p>> \o todo)
             = outcomes' \o Reviews(JudgementsIn(agents), todo')
    BY <1>2, <1>5, <2>1, JudgeOwes
  <2>3. TypeInv'
    BY <1>3, <2>1, <2>2, NoneTyped DEF Inv, TypeInv
  <2>4. Ahead(stack, todo) = <<p>> \o todo
    BY <1>1, <1>2 DEF Ahead
  <2>5. Ahead(stack', todo') = todo'
    BY <1>3, <2>2 DEF Ahead
  <2>6. Whole(agents', stack', todo', outcomes')
    BY <1>3, <1>4, <2>2, <2>4, <2>5 DEF Whole
  <2>7. PhaseInv'
    BY <1>3, <1>4, <2>1, <2>6 DEF PhaseInv, Judged
  <2> QED BY <1>6, <2>3, <2>7 DEF Inv
<1>8. CASE ~(Running("ok") /\ ~cancelled)
  <2>1. outcomes' = <<>> /\ todo' = <<>> /\ judgeError' = TRUE
    BY <1>8 DEF JudgeEnds
  <2>2. TypeInv'
    BY <1>3, <2>1, NoneTyped DEF Inv, TypeInv
  <2>3. PhaseInv'
    BY <1>3, <1>4, <2>1 DEF PhaseInv, Judged
  <2> QED BY <1>6, <2>2, <2>3 DEF Inv
<1> QED BY <1>7, <1>8

\* The invariant: paths walk the graph of agents, what is not heard is below a judge, and the
\* outcomes so far with those still owed are the judgements of the whole turn.
THEOREM Invariance == Spec => []Inv
<1>1. Inv /\ [Next]_vars => Inv'
  <2> SUFFICES ASSUME Inv, [Next]_vars PROVE Inv'
    OBVIOUS
  <2>1. CASE Load
    BY <2>1, LoadInv
  <2>2. CASE LLMCall
    BY <2>2, LLMCallInv
  <2>3. CASE LLMCallFails
    BY <2>3, LLMCallFailsInv
  <2>4. CASE CallSubagent
    BY <2>4, CallSubagentInv
  <2>5. CASE CallDecider
    BY <2>5, CallDeciderInv
  <2>6. CASE CallTool
    BY <2>6, CallToolInv
  <2>7. CASE SubagentEnds
    BY <2>7, SubagentEndsInv
  <2>8. CASE TurnEnds
    BY <2>8, TurnEndsInv
  <2>9. CASE JudgeStarts
    BY <2>9, JudgeStartsInv
  <2>10. CASE JudgeEnds
    BY <2>10, JudgeEndsInv
  <2>11. CASE Finish
    BY <2>11, FinishInv
  <2>12. CASE Interrupt
    BY <2>12, InterruptInv
  <2>13. CASE UNCHANGED vars
    <3>1. TypeInv' /\ Nested(stack)' /\ UsageHeard'
      BY <2>13 DEF vars, Inv, TypeInv, Nested, UsageHeard
    <3>2. Whole(agents', stack', todo', outcomes') <=> Whole(agents, stack, todo, outcomes)
      BY <2>13 DEF vars
    <3>3. Judged <=> Judged'
      BY <2>13, <3>2 DEF vars, Judged
    <3>4. PhaseInv'
      BY <2>13, <3>3 DEF vars, Inv, PhaseInv, Idle, Turning
    <3> QED BY <3>1, <3>4 DEF Inv
  <2> QED BY <2>1, <2>2, <2>3, <2>4, <2>5, <2>6, <2>7, <2>8, <2>9, <2>10, <2>11, <2>12, <2>13
          DEF Next, Step
<1> QED BY InvInit, <1>1, PTL DEF Spec

\* The usage of every completed call reaches the account, with two exceptions: what a
\* judge's own subagents and deciders spend, and a decider's call whose context was done
\* by the time RunDecider looked at it (subagent.go collect, decider.go, judge.go runJudge).
THEOREM UsageIsHeard == Spec => []UsageHeard
<1>1. Inv => UsageHeard
  BY DEF Inv
<1> QED BY Invariance, <1>1, PTL

\* No agent of an accepted configuration ever runs below itself (config.go
\* validateAgentCycles; the runners have no limit of their own).
THEOREM NeverBelowItself == Spec => []NoSelfDelegation
<1>1. Inv => NoSelfDelegation
  <2> SUFFICES ASSUME Inv, NEW i \in DOMAIN stack,
                      NEW j \in DOMAIN stack[i].path, NEW k \in DOMAIN stack[i].path, j # k
               PROVE  stack[i].path[j].agent # stack[i].path[k].agent
    BY DEF NoSelfDelegation
  <2>1. AgentsTyped(agents) /\ stack[i] \in Runs(agents)
    BY DEF Inv, TypeInv, AgentsTyped
  <2>2. PICK p \in Walks(agents) : p = stack[i].path
    BY <2>1 DEF Runs
  <2>3. DOMAIN p = 1 .. Len(p) /\ Len(p) \in Nat
    BY WalkIsPath
  <2>4. j < k \/ k < j
    BY <2>2, <2>3
  <2> QED BY <2>1, <2>2, <2>4, WalkDistinct
<1> QED BY Invariance, <1>1, PTL

\* A judge phase that ended well has the outcomes of every judge, its own judges' right behind
\* it, in the order the configuration lists them; one that did not has none (judge.go RunJudges,
\* runChain).
THEOREM OutcomesAreInOrder == Spec => []OutcomesInOrder
<1>1. Inv => OutcomesInOrder
  <2> SUFFICES ASSUME Inv, pc = "over"
               PROVE  outcomes = IF judgeError \/ (cancelled /\ outcomes = <<>>) THEN <<>>
                                 ELSE Judgements[<<Link("turn", Root)>>]
    BY DEF OutcomesInOrder
  <2>1. Judged /\ stack = <<>> /\ todo = <<>> /\ outcomes \in Seq(OutcomesIn(agents))
    BY DEF Inv, PhaseInv, TypeInv
  <2>2. CASE judgeError = FALSE /\ Whole(agents, stack, todo, outcomes)
    <3>1. Reviews(JudgementsIn(agents), Ahead(stack, todo)) = <<>>
      <4>1. Ahead(stack, todo) = <<>>
        BY <2>1 DEF Ahead
      <4>2. \A J : Reviews(J, <<>>) = <<>>
        <5> SUFFICES ASSUME NEW J PROVE Reviews(J, <<>>) = <<>>
          OBVIOUS
        <5>1. [i \in DOMAIN <<>> |-> <<Outcome(<<>>[i])>> \o J[<<>>[i]]] = <<>>
          OBVIOUS
        <5> QED BY <5>1, FlattenEmpty DEF Reviews
      <4> QED BY <4>1, <4>2
    <3>2. outcomes \o <<>> = JudgementsIn(agents)[<<Link("turn", Root)>>]
      BY <2>2, <3>1 DEF Whole
    <3>3. outcomes = Judgements[<<Link("turn", Root)>>]
      BY <2>1, <3>2, JudgementsAre
    <3> QED BY <2>2, <3>3
  <2>3. CASE outcomes = <<>> /\ (judgeError \/ cancelled)
    BY <2>3
  <2> QED BY <2>1, <2>2, <2>3 DEF Judged
<1> QED BY Invariance, <1>1, PTL

-----------------------------------------------------------------------------
(***************************************************************************)
(* Ways through a graph without a cycle.                                    *)
(***************************************************************************)
OnPath(E, p) == \A k \in 1 .. Len(p) - 1 : p[k + 1] \in ToSet(E[p[k]])

\* A way through a graph without a cycle comes by no node twice.
LEMMA PathDistinct ==
  ASSUME NEW N, NEW E, Acyclic(N, E, N), NEW p \in Seq(N), OnPath(E, p)
  PROVE  IsInjective(p)
<1>1. ASSUME NEW i \in 1 .. Len(p), NEW j \in 1 .. Len(p), i < j, p[i] = p[j]
      PROVE  FALSE
  <2> DEFINE T == {p[k] : k \in i .. j - 1}
  <2>1. i \in i .. j - 1 /\ \A k \in i .. j - 1 : k \in 1 .. Len(p) - 1 /\ k \in 1 .. Len(p)
    BY <1>1
  <2>2. T # {} /\ T \subseteq N
    BY <2>1
  <2>3. PICK n \in T : ToSet(E[n]) \cap T = {}
    <3> HIDE DEF T
    <3> QED BY <2>2 DEF Acyclic
  <2>4. PICK k \in i .. j - 1 : n = p[k]
    BY <2>3
  <2>5. p[k + 1] \in ToSet(E[n])
    BY <2>1, <2>4 DEF OnPath
  <2>6. k + 1 \in i .. j - 1 \/ k + 1 = j
    BY <1>1
  <2>7. p[k + 1] \in T
    <3>1. CASE k + 1 \in i .. j - 1
      BY <3>1
    <3>2. CASE k + 1 = j
      BY <1>1, <2>1, <3>2
    <3> QED BY <2>6, <3>1, <3>2
  <2> HIDE DEF T
  <2> QED BY <2>3, <2>5, <2>7
<1>2. ASSUME NEW i \in DOMAIN p, NEW j \in DOMAIN p, p[i] = p[j] PROVE i = j
  <2>1. i \in 1 .. Len(p) /\ j \in 1 .. Len(p) /\ (i < j \/ j < i \/ i = j)
    OBVIOUS
  <2> QED BY <1>1, <1>2, <2>1
<1> QED BY <1>2 DEF IsInjective

\* So it comes by at most as many nodes as there are.
LEMMA PathShort ==
  ASSUME NEW N, IsFiniteSet(N), NEW p \in Seq(N), IsInjective(p)
  PROVE  Len(p) <= Cardinality(N)
<1>1. p \in Injection(1 .. Len(p), N) /\ Len(p) \in Nat
  BY DEF Injection
<1>2. Cardinality(1 .. Len(p)) <= Cardinality(N)
  BY <1>1, FS_Injection
<1>3. Cardinality(1 .. Len(p)) = Len(p)
  <2>1. PICK n \in Nat : n = Len(p)
    BY <1>1
  <2>2. Cardinality(1 .. n) = n
    BY FS_Interval
  <2> QED BY <2>1, <2>2
<1> QED BY <1>2, <1>3

\* There are at most as many names as definitions.
LEMMA NamesFew ==
  ASSUME NEW T, NEW defs \in Seq(T)
  PROVE  /\ IsFiniteSet(ToSet(Names(defs))) /\ Cardinality(ToSet(Names(defs))) \in Nat
         /\ Cardinality(ToSet(Names(defs))) <= Len(defs)
<1>1. DOMAIN defs = 1 .. Len(defs) /\ Len(defs) \in Nat
  OBVIOUS
<1>2. Names(defs) \in Surjection(1 .. Len(defs), ToSet(Names(defs)))
  BY <1>1 DEF Names, ToSet, Surjection
<1>3. IsFiniteSet(1 .. Len(defs)) /\ Cardinality(1 .. Len(defs)) = Len(defs)
  BY <1>1, FS_Interval
<1>4. IsFiniteSet(ToSet(Names(defs))) /\ Cardinality(ToSet(Names(defs))) <= Len(defs)
  BY <1>2, <1>3, FS_Surjection
<1> QED BY <1>4, FS_CardinalityType

-----------------------------------------------------------------------------
(***************************************************************************)
(* Chains of toolset references.                                            *)
(***************************************************************************)
\* What Sound asks of a chain, for chains of any length.
Linked(c, ch) ==
  \A k \in DOMAIN ch :
    IF k = Len(ch) THEN EntryAt(c, ch[k]).type # "toolset"
    ELSE /\ EntryAt(c, ch[k]).type = "toolset"
         /\ EntryAt(c, ch[k]).target = c.toolsets[ch[k + 1][1]].name

From(c, i) == {ch \in Seq(Positions(c)) : ch # <<>> /\ ch[1][1] = i /\ Linked(c, ch)}

\* Toolsets that can be told apart, and no way back among them.
Tiered(c) ==
  /\ c \in WellTyped /\ UniqueNames(c.toolsets) /\ ValidateToolsetRefs(c)
  /\ Acyclic(ToolsetNames(c), ToolsetEdges(c), ToolsetNames(c))

\* The parts of a configuration that toolsets are made of.
LEMMA ToolsetsTyped ==
  ASSUME NEW c \in WellTyped
  PROVE  /\ c.toolsets \in Seq(Toolsets) /\ DOMAIN c.toolsets = 1 .. Len(c.toolsets)
         /\ \A i \in DOMAIN c.toolsets :
              /\ c.toolsets[i].name \in Name /\ c.toolsets[i].name \in ToolsetNames(c)
              /\ c.toolsets[i].tools \in Seq(Entries)
         /\ \A n \in ToolsetNames(c) : \E i \in DOMAIN c.toolsets : n = c.toolsets[i].name
<1>1. c.toolsets \in Seq(Toolsets) /\ DOMAIN c.toolsets = 1 .. Len(c.toolsets)
  BY DEF WellTyped
<1>2. \A i \in DOMAIN c.toolsets : c.toolsets[i] \in Toolsets
  BY <1>1
<1>3. \A i \in DOMAIN c.toolsets : c.toolsets[i].name \in ToolsetNames(c)
  BY DEF ToolsetNames, Names, ToSet
<1>4. \A n \in ToolsetNames(c) : \E i \in DOMAIN c.toolsets : n = c.toolsets[i].name
  BY DEF ToolsetNames, Names, ToSet
<1> QED BY <1>1, <1>2, <1>3, <1>4 DEF Toolsets

\* A position is an entry of a toolset.
LEMMA PositionsAre ==
  ASSUME NEW c \in WellTyped
  PROVE  /\ \A i \in DOMAIN c.toolsets : \A k \in DOMAIN c.toolsets[i].tools :
              /\ <<i, k>> \in Positions(c)
              /\ EntryAt(c, <<i, k>>) = c.toolsets[i].tools[k]
         /\ \A p \in Positions(c) :
              /\ p[1] \in DOMAIN c.toolsets /\ p[2] \in DOMAIN c.toolsets[p[1]].tools
              /\ p = <<p[1], p[2]>> /\ EntryAt(c, p) \in Entries
<1>1. \A i \in DOMAIN c.toolsets : \A k \in DOMAIN c.toolsets[i].tools :
        /\ <<i, k>> \in Positions(c) /\ EntryAt(c, <<i, k>>) = c.toolsets[i].tools[k]
  BY DEF Positions, EntryAt
<1>2. ASSUME NEW p \in Positions(c)
      PROVE  /\ p[1] \in DOMAIN c.toolsets /\ p[2] \in DOMAIN c.toolsets[p[1]].tools
             /\ p = <<p[1], p[2]>>
  BY DEF Positions
<1>3. ASSUME NEW p \in Positions(c) PROVE EntryAt(c, p) \in Entries
  <2>1. c.toolsets[p[1]].tools \in Seq(Entries)
    BY <1>2, ToolsetsTyped
  <2>2. c.toolsets[p[1]].tools[p[2]] \in Entries
    BY <1>2, <2>1
  <2> QED BY <2>2 DEF EntryAt
<1> QED BY <1>1, <1>2, <1>3

\* With unique names a toolset is found by its name.
LEMMA NamedUnique ==
  ASSUME NEW defs, UniqueNames(defs), NEW i \in DOMAIN defs
  PROVE  /\ Defines(defs, defs[i].name) /\ Named(defs, defs[i].name) = defs[i]
         /\ \A j \in DOMAIN defs : defs[j].name = defs[i].name => j = i
<1>1. \A j \in DOMAIN defs : defs[j].name = defs[i].name => j = i
  BY DEF UniqueNames, Names, IsInjective
<1>2. Named(defs, defs[i].name) = defs[i]
  BY <1>1 DEF Named
<1>3. Defines(defs, defs[i].name)
  BY DEF Defines, Names, ToSet
<1> QED BY <1>1, <1>2, <1>3

\* A toolset leads to the toolsets its references name.
LEMMA ToolsetEdgesAre ==
  ASSUME NEW c \in WellTyped, UniqueNames(c.toolsets), NEW i \in DOMAIN c.toolsets
  PROVE  \A t : t \in ToSet(ToolsetEdges(c)[c.toolsets[i].name]) <=>
           \E k \in DOMAIN c.toolsets[i].tools :
             /\ c.toolsets[i].tools[k].type = "toolset"
             /\ c.toolsets[i].tools[k].target = t
<1> DEFINE n == c.toolsets[i].name
           tools == c.toolsets[i].tools
<1>2. n \in ToolsetNames(c) /\ tools \in Seq(Entries)
  BY ToolsetsTyped
<1>3. Named(c.toolsets, n).tools = tools
  BY NamedUnique
<1>4. ToolsetEdges(c)[n] = Targets(tools, "toolset")
  <2> HIDE DEF tools, n
  <2> QED BY <1>2, <1>3 DEF ToolsetEdges
<1> HIDE DEF tools, n
<1>5. \A t : t \in ToSet(Targets(tools, "toolset")) <=>
           \E k \in DOMAIN tools : tools[k].type = "toolset" /\ tools[k].target = t
  <2>1. Entries \in SUBSET Entries
    OBVIOUS
  <2> QED BY <1>2, <2>1, TargetsOf
<1>6. \A t : t \in ToSet(ToolsetEdges(c)[n]) <=>
           \E k \in DOMAIN tools : tools[k].type = "toolset" /\ tools[k].target = t
  BY <1>4, <1>5
<1> QED BY <1>6 DEF tools, n

\* A chain in a graph without a cycle has at most as many links as there are toolsets, so
\* the chains of the definition are all there are.
LEMMA ChainsAre ==
  ASSUME NEW c, Tiered(c)
  PROVE  /\ \A ch \in Chains(c) : ch[1][1] \in DOMAIN c.toolsets /\ ch \in From(c, ch[1][1])
         /\ \A i \in DOMAIN c.toolsets : From(c, i) = {ch \in Chains(c) : ch[1][1] = i}
<1>1. c \in WellTyped /\ UniqueNames(c.toolsets) /\ Len(c.toolsets) \in Nat
  BY ToolsetsTyped DEF Tiered
<1>2. ASSUME NEW ch \in Chains(c)
      PROVE  ch[1][1] \in DOMAIN c.toolsets /\ ch \in From(c, ch[1][1])
  <2>1. PICK n \in 1 .. Len(c.toolsets) : ch \in [1 .. n -> Positions(c)]
    BY DEF Chains
  <2>2. ch \in Seq(Positions(c)) /\ ch # <<>> /\ 1 \in DOMAIN ch
    BY <1>1, <2>1
  <2>3. Linked(c, ch)
    BY DEF Chains, Linked
  <2>4. ch[1] \in Positions(c)
    BY <2>2
  <2> QED BY <1>1, <2>2, <2>3, <2>4, PositionsAre DEF From
<1>3. ASSUME NEW i \in DOMAIN c.toolsets, NEW ch \in From(c, i) PROVE ch \in Chains(c)
  <2>1. ch \in Seq(Positions(c)) /\ ch # <<>> /\ Linked(c, ch)
    BY DEF From
  <2>2. /\ DOMAIN ch = 1 .. Len(ch) /\ Len(ch) \in Nat \ {0}
        /\ \A k \in DOMAIN ch : ch[k] \in Positions(c)
    BY <2>1
  <2> DEFINE N == ToolsetNames(c)
             p == [k \in DOMAIN ch |-> c.toolsets[ch[k][1]].name]
  <2>3. p \in Seq(N) /\ Len(p) = Len(ch) /\ \A k \in DOMAIN ch : p[k] = c.toolsets[ch[k][1]].name
    <3>1. \A k \in DOMAIN ch : c.toolsets[ch[k][1]].name \in N
      BY <1>1, <2>2, PositionsAre, ToolsetsTyped
    <3> HIDE DEF N
    <3> QED BY <2>2, <3>1
  <2> HIDE DEF p, N
  <2>4. OnPath(ToolsetEdges(c), p)
    <3>1. SUFFICES ASSUME NEW k \in 1 .. Len(p) - 1
                   PROVE  p[k + 1] \in ToSet(ToolsetEdges(c)[p[k]])
      BY DEF OnPath
    <3>2. k \in DOMAIN ch /\ k + 1 \in DOMAIN ch /\ k # Len(ch)
      <4>1. PICK n \in Nat : n = Len(ch)
        BY <2>2
      <4>2. k \in 1 .. n - 1 /\ DOMAIN ch = 1 .. n
        BY <2>2, <2>3, <4>1
      <4> QED BY <4>1, <4>2
    <3>3. EntryAt(c, ch[k]).type = "toolset" /\ EntryAt(c, ch[k]).target = p[k + 1]
      BY <2>1, <2>3, <3>2 DEF Linked
    <3> PICK a, b : a = ch[k][1] /\ b = ch[k][2]
      OBVIOUS
    <3>4. a \in DOMAIN c.toolsets /\ b \in DOMAIN c.toolsets[a].tools /\ ch[k] = <<a, b>>
      BY <1>1, <2>2, <3>2, PositionsAre
    <3>5. c.toolsets[a].tools[b] = EntryAt(c, ch[k])
      BY <1>1, <3>4, PositionsAre
    <3>6. p[k] = c.toolsets[a].name
      BY <2>3, <3>2
    <3> PICK m : m = p[k + 1]
      OBVIOUS
    <3>7. c.toolsets[a].tools[b].type = "toolset" /\ c.toolsets[a].tools[b].target = m
      BY <3>3, <3>5
    <3>8. m \in ToSet(ToolsetEdges(c)[c.toolsets[a].name])
      BY <1>1, <3>4, <3>7, ToolsetEdgesAre
    <3> QED BY <3>6, <3>8
  <2>5. Len(p) <= Len(c.toolsets)
    <3>1. IsInjective(p)
      BY <2>3, <2>4, PathDistinct DEF Tiered, N
    <3>2. /\ IsFiniteSet(N) /\ Cardinality(N) \in Nat /\ Cardinality(N) <= Len(c.toolsets)
      BY <1>1, ToolsetsTyped, NamesFew DEF N, ToolsetNames
    <3>3. Len(p) <= Cardinality(N)
      BY <2>3, <3>1, <3>2, PathShort
    <3> QED BY <1>1, <2>2, <2>3, <3>2, <3>3
  <2>6. Len(ch) \in 1 .. Len(c.toolsets) /\ ch \in [1 .. Len(ch) -> Positions(c)]
    BY <1>1, <2>1, <2>2, <2>3, <2>5
  <2>7. ch \in UNION {[1 .. n -> Positions(c)] : n \in 1 .. Len(c.toolsets)}
    BY <2>6
  <2> QED BY <2>1, <2>7 DEF Chains, Linked
<1>4. ASSUME NEW i \in DOMAIN c.toolsets
      PROVE  From(c, i) = {ch \in Chains(c) : ch[1][1] = i}
  <2>1. \A ch \in From(c, i) : ch \in Chains(c) /\ ch[1][1] = i
    BY <1>3 DEF From
  <2> QED BY <1>2, <2>1
<1> QED BY <1>2, <1>4

\* A list with one element in front.
LEMMA Prepended ==
  ASSUME NEW T, NEW e \in T, NEW s \in Seq(T)
  PROVE  /\ <<e>> \o s \in Seq(T) /\ Len(<<e>> \o s) = Len(s) + 1 /\ <<e>> \o s # <<>>
         /\ DOMAIN (<<e>> \o s) = 1 .. Len(s) + 1 /\ Len(s) \in Nat
         /\ (<<e>> \o s)[1] = e
         /\ \A i \in 1 .. Len(s) : (<<e>> \o s)[i + 1] = s[i]
         /\ \A i \in 1 .. Len(s) + 1 :
              i = 1 \/ (i - 1 \in 1 .. Len(s) /\ (<<e>> \o s)[i] = s[i - 1])
<1>1. <<e>> \in Seq(T) /\ Len(<<e>>) = 1 /\ <<e>>[1] = e
  OBVIOUS
<1> PICK d : d = <<e>>
  OBVIOUS
<1>2. d \in Seq(T) /\ Len(d) = 1 /\ d[1] = e
  BY <1>1
<1> DEFINE t == d \o s
<1>3. /\ t \in Seq(T) /\ Len(t) = Len(s) + 1 /\ DOMAIN t = 1 .. Len(s) + 1 /\ Len(s) \in Nat
      /\ t[1] = e
      /\ \A i \in 1 .. Len(s) : t[i + 1] = s[i]
      /\ \A i \in 1 .. Len(s) + 1 : i = 1 \/ (i - 1 \in 1 .. Len(s) /\ t[i] = s[i - 1])
  BY <1>2
<1> HIDE DEF t
<1>4. t # <<>>
  BY <1>3
<1> QED BY <1>3, <1>4 DEF t

\* A list that is not empty has one.
LEMMA HeadFirst ==
  ASSUME NEW T, NEW s \in Seq(T), s # <<>>
  PROVE  s = <<Head(s)>> \o Tail(s)
<1> PICK n, t, d : n = Head(s) /\ t = Tail(s) /\ d = <<n>>
  OBVIOUS
<1>1. /\ n \in T /\ t \in Seq(T) /\ n = s[1] /\ Len(s) = Len(t) + 1 /\ Len(t) \in Nat
      /\ \A i \in 1 .. Len(t) : t[i] = s[i + 1]
  OBVIOUS
<1> PICK r : r = <<n>> \o t
  OBVIOUS
<1>2. /\ r \in Seq(T) /\ Len(r) = Len(s) /\ r[1] = n
      /\ \A i \in 1 .. Len(t) + 1 : i = 1 \/ (i - 1 \in 1 .. Len(t) /\ r[i] = t[i - 1])
  BY <1>1, Prepended
<1>3. \A i \in 1 .. Len(s) : r[i] = s[i]
  BY <1>1, <1>2
<1>4. r = s
  BY <1>2, <1>3
<1> QED BY <1>4

\* A flattened list with one list in front.
LEMMA FlattenPrepend ==
  ASSUME NEW T, NEW s \in Seq(T), NEW ss \in Seq(Seq(T))
  PROVE  FlattenSeq(<<s>> \o ss) = s \o FlattenSeq(ss)
<1>1. <<s>> \in Seq(Seq(T)) /\ <<>> \in Seq(Seq(T)) /\ <<s>> = Append(<<>>, s)
  OBVIOUS
<1>2. FlattenSeq(<<s>>) = <<>> \o s
  BY <1>1, FlattenAppend, FlattenEmpty
<1>3. <<>> \o s = s
  OBVIOUS
<1>4. FlattenSeq(<<s>> \o ss) = FlattenSeq(<<s>>) \o FlattenSeq(ss)
  <2> PICK d : d = <<s>>
    OBVIOUS
  <2>1. d \in Seq(Seq(T))
    BY <1>1
  <2>2. FlattenSeq(d \o ss) = FlattenSeq(d) \o FlattenSeq(ss)
    BY <2>1, FlattenConcat
  <2> QED BY <2>2
<1> QED BY <1>2, <1>3, <1>4

\* The toolsets a chain comes by.
Along(c, ch) == [k \in DOMAIN ch |-> c.toolsets[ch[k][1]].name]

\* A chain ends at a leaf and has a name.
LEMMA ChainTyped ==
  ASSUME NEW c \in WellTyped, NEW i \in DOMAIN c.toolsets, NEW ch \in From(c, i)
  PROVE  /\ ch \in Seq(Positions(c)) /\ ch # <<>> /\ ch[1] \in Positions(c) /\ ch[1][1] = i
         /\ Last(ch) \in Positions(c) /\ EntryAt(c, Last(ch)) \in Entries
         /\ EntryAt(c, Last(ch)).type # "toolset"
         /\ Along(c, ch) \in Seq(Name)
         /\ ChainName(c, ch) = FlattenSeq(Along(c, ch)) \o EntryAt(c, Last(ch)).name
         /\ ChainName(c, ch) \in Name
<1>1. ch \in Seq(Positions(c)) /\ ch # <<>> /\ ch[1][1] = i /\ Linked(c, ch)
  BY DEF From
<1>2. /\ DOMAIN ch = 1 .. Len(ch) /\ Len(ch) \in Nat /\ Len(ch) \in DOMAIN ch /\ 1 \in DOMAIN ch
      /\ \A k \in DOMAIN ch : ch[k] \in Positions(c)
  BY <1>1
<1>3. Last(ch) = ch[Len(ch)]
  BY DEF Last
<1>4. EntryAt(c, Last(ch)).type # "toolset"
  BY <1>1, <1>2, <1>3 DEF Linked
<1>5. Last(ch) \in Positions(c) /\ EntryAt(c, Last(ch)) \in Entries
  BY <1>2, <1>3, PositionsAre
<1>6. EntryAt(c, Last(ch)).name \in Name
  BY <1>5 DEF Entries
<1>7. Along(c, ch) \in Seq(Name)
  <2>1. \A k \in DOMAIN ch : c.toolsets[ch[k][1]].name \in Name
    BY <1>2, PositionsAre, ToolsetsTyped
  <2> QED BY <1>2, <2>1 DEF Along
<1>8. ChainName(c, ch) = FlattenSeq(Along(c, ch)) \o EntryAt(c, Last(ch)).name
  BY DEF ChainName, Along
<1>9. FlattenSeq(Along(c, ch)) \in Name
  BY <1>7, FlattenTyped DEF Name
<1>10. ChainName(c, ch) \in Name
  BY <1>6, <1>8, <1>9 DEF Name
<1> QED BY <1>1, <1>2, <1>4, <1>5, <1>7, <1>8, <1>10

\* A leaf of a toolset is a chain of its own.
LEMMA ChainOne ==
  ASSUME NEW c \in WellTyped, NEW p \in Positions(c), EntryAt(c, p).type # "toolset"
  PROVE  /\ <<p>> \in From(c, p[1]) /\ Last(<<p>>) = p
         /\ ChainName(c, <<p>>) = c.toolsets[p[1]].name \o EntryAt(c, p).name
<1> DEFINE s == <<p>>
           n == c.toolsets[p[1]].name
<1>1. s \in Seq(Positions(c)) /\ s # <<>> /\ Len(s) = 1 /\ DOMAIN s = 1 .. 1 /\ s[1] = p
      /\ \A k \in 1 .. 1 : k = 1
  OBVIOUS
<1> HIDE DEF s
<1>2. Linked(c, s)
  BY <1>1 DEF Linked
<1>3. s \in From(c, p[1])
  BY <1>1, <1>2 DEF From
<1>4. Last(s) = p
  BY <1>1 DEF Last
<1>5. n \in Name
  BY PositionsAre, ToolsetsTyped
<1>6. Along(c, s) = <<n>>
  <2>1. Along(c, s) = [k \in 1 .. 1 |-> n]
    BY <1>1 DEF Along
  <2> HIDE DEF n
  <2> QED BY <2>1
<1> HIDE DEF n
<1>7. FlattenSeq(<<n>>) = n
  <2>1. <<>> \in Seq(Name) /\ n \in Seq(STRING) /\ <<n>> \in Seq(Seq(STRING))
        /\ <<>> \in Seq(Seq(STRING)) /\ <<n>> = Append(<<>>, n)
    BY <1>5 DEF Name
  <2>2. FlattenSeq(Append(<<>>, n)) = FlattenSeq(<<>>) \o n
    BY <2>1, FlattenAppend
  <2>3. <<>> \o n = n
    BY <2>1
  <2> QED BY <2>1, <2>2, <2>3, FlattenEmpty
<1>8. ChainName(c, s) = FlattenSeq(Along(c, s)) \o EntryAt(c, p).name
  BY <1>4 DEF ChainName, Along
<1>9. ChainName(c, s) = n \o EntryAt(c, p).name
  BY <1>6, <1>7, <1>8
<1> QED BY <1>3, <1>4, <1>9 DEF s, n

\* A reference goes in front of the chains of the toolset it names.
LEMMA ChainMore ==
  ASSUME NEW c \in WellTyped, NEW p \in Positions(c), EntryAt(c, p).type = "toolset",
         NEW j \in DOMAIN c.toolsets, EntryAt(c, p).target = c.toolsets[j].name,
         NEW d \in From(c, j)
  PROVE  /\ <<p>> \o d \in From(c, p[1]) /\ Last(<<p>> \o d) = Last(d)
         /\ ChainName(c, <<p>> \o d) = c.toolsets[p[1]].name \o ChainName(c, d)
<1> DEFINE s == <<p>> \o d
           n == c.toolsets[p[1]].name
           e == EntryAt(c, Last(d)).name
<1>1. d \in Seq(Positions(c)) /\ d # <<>> /\ d[1][1] = j /\ Linked(c, d)
  BY DEF From
<1>2. /\ s \in Seq(Positions(c)) /\ Len(s) = Len(d) + 1 /\ s # <<>>
      /\ DOMAIN s = 1 .. Len(d) + 1 /\ Len(d) \in Nat /\ s[1] = p
      /\ \A i \in 1 .. Len(d) : s[i + 1] = d[i]
      /\ \A i \in 1 .. Len(d) + 1 : i = 1 \/ (i - 1 \in 1 .. Len(d) /\ s[i] = d[i - 1])
  BY <1>1, Prepended
<1>3. Len(d) \in 1 .. Len(d) /\ Len(d) # 0 /\ 1 \in 1 .. Len(d) /\ DOMAIN d = 1 .. Len(d)
  BY <1>1
<1> HIDE DEF s
<1>4. Linked(c, s)
  <2> SUFFICES ASSUME NEW k \in 1 .. Len(d) + 1
               PROVE  IF k = Len(s) THEN EntryAt(c, s[k]).type # "toolset"
                      ELSE /\ EntryAt(c, s[k]).type = "toolset"
                           /\ EntryAt(c, s[k]).target = c.toolsets[s[k + 1][1]].name
    BY <1>2 DEF Linked
  <2>1. CASE k = 1
    <3>1. s[2] = d[1] /\ k # Len(s) /\ k + 1 = 2
      BY <1>2, <1>3, <2>1
    <3> QED BY <1>1, <1>2, <2>1, <3>1
  <2>2. CASE k # 1
    <3>1. PICK l \in 1 .. Len(d) : l = k - 1
      BY <1>2, <2>2
    <3>2. s[k] = d[l] /\ (k = Len(s) <=> l = Len(d)) /\ (k # Len(s) => s[k + 1] = d[l + 1])
      <4>1. s[k] = d[l]
        BY <1>2, <2>2, <3>1
      <4>2. k = Len(s) <=> l = Len(d)
        BY <1>2, <3>1
      <4>3. ASSUME l # Len(d) PROVE s[k + 1] = d[l + 1]
        <5>1. l + 1 \in 1 .. Len(d) /\ k + 1 = (l + 1) + 1
          BY <1>2, <3>1, <4>3
        <5> QED BY <1>2, <5>1
      <4> QED BY <4>1, <4>2, <4>3
    <3> QED BY <1>1, <1>3, <3>2 DEF Linked
  <2> QED BY <2>1, <2>2
<1>5. s \in From(c, p[1])
  BY <1>2, <1>4 DEF From
<1>6. Last(s) = Last(d)
  BY <1>2, <1>3 DEF Last
<1>7. n \in Name /\ e \in Name /\ Along(c, d) \in Seq(Name)
      /\ ChainName(c, d) = FlattenSeq(Along(c, d)) \o e
  BY PositionsAre, ToolsetsTyped, ChainTyped DEF Entries
<1>8. Along(c, s) = <<n>> \o Along(c, d)
  <2> PICK a, b : a = Along(c, d) /\ b = Along(c, s)
    OBVIOUS
  <2> PICK r : r = <<n>> \o a
    OBVIOUS
  <2>1. /\ a \in Seq(Name) /\ Len(a) = Len(d)
        /\ \A k \in 1 .. Len(d) : a[k] = c.toolsets[d[k][1]].name
    <3>1. a = [k \in 1 .. Len(d) |-> c.toolsets[d[k][1]].name]
      BY <1>3 DEF Along
    <3>2. a \in Seq(Name)
      BY <1>7
    <3>3. DOMAIN a = 1 .. Len(d) /\ \A k \in 1 .. Len(d) : a[k] = c.toolsets[d[k][1]].name
      BY ONLY <3>1
    <3>4. Len(a) = Len(d)
      <4>1. Len(d) \in Nat
        BY <1>2
      <4>2. DOMAIN a = 1 .. Len(a) /\ Len(a) \in Nat
        BY ONLY <3>2
      <4> QED BY ONLY <3>3, <4>1, <4>2
    <3> QED BY <3>2, <3>3, <3>4
  <2>2. /\ b = [k \in 1 .. Len(d) + 1 |-> b[k]]
        /\ \A k \in 1 .. Len(d) + 1 : b[k] = c.toolsets[s[k][1]].name
    BY <1>2 DEF Along
  <2>3. /\ r \in Seq(Name) /\ DOMAIN r = 1 .. Len(d) + 1 /\ r[1] = n
        /\ \A i \in 1 .. Len(d) + 1 : i = 1 \/ (i - 1 \in 1 .. Len(d) /\ r[i] = a[i - 1])
    BY <1>7, <2>1, Prepended
  <2>4. ASSUME NEW k \in 1 .. Len(d) + 1 PROVE b[k] = r[k]
    <3>1. b[k] = c.toolsets[s[k][1]].name
      BY <2>2
    <3>2. CASE k = 1
      BY <1>2, <2>3, <3>1, <3>2
    <3>3. CASE k # 1
      <4>1. PICK l : l = k - 1
        OBVIOUS
      <4>2. l \in 1 .. Len(d) /\ r[k] = a[l] /\ s[k] = d[l]
        BY <1>2, <2>3, <3>3, <4>1
      <4> QED BY <2>1, <3>1, <4>2
    <3> QED BY <3>2, <3>3
  <2>5. r = [k \in 1 .. Len(d) + 1 |-> r[k]]
    BY <2>3
  <2> QED BY <2>2, <2>4, <2>5
<1>9. FlattenSeq(Along(c, s)) = n \o FlattenSeq(Along(c, d)) /\ FlattenSeq(Along(c, d)) \in Name
  <2> PICK a : a = Along(c, d)
    OBVIOUS
  <2>1. a \in Seq(Seq(STRING)) /\ n \in Seq(STRING)
    BY <1>7 DEF Name
  <2> HIDE DEF n
  <2>2. FlattenSeq(<<n>> \o a) = n \o FlattenSeq(a) /\ FlattenSeq(a) \in Seq(STRING)
    BY <2>1, FlattenPrepend, FlattenTyped
  <2> QED BY <1>8, <2>2 DEF Name
<1>10. ChainName(c, s) = FlattenSeq(Along(c, s)) \o e
  BY <1>6 DEF ChainName, Along
<1>11. ChainName(c, s) = n \o ChainName(c, d)
  <2> PICK f : f = FlattenSeq(Along(c, d))
    OBVIOUS
  <2> HIDE DEF n, e
  <2>1. Associates(n, f, e)
    BY <1>7, <1>9, ConcatAssociates DEF Name
  <2> QED BY <1>7, <1>9, <1>10, <2>1 DEF Associates
<1> QED BY <1>5, <1>6, <1>11 DEF s, n

\* A chain is one or the other.
LEMMA ChainSplits ==
  ASSUME NEW c \in WellTyped, NEW i \in DOMAIN c.toolsets, NEW ch \in From(c, i)
  PROVE  \/ ch = <<ch[1]>> /\ EntryAt(c, ch[1]).type # "toolset"
         \/ /\ EntryAt(c, ch[1]).type = "toolset"
            /\ \E j \in DOMAIN c.toolsets : \E d \in From(c, j) :
                 ch = <<ch[1]>> \o d /\ EntryAt(c, ch[1]).target = c.toolsets[j].name
<1>1. ch \in Seq(Positions(c)) /\ ch # <<>> /\ Linked(c, ch)
  BY DEF From
<1> PICK p, d : p = ch[1] /\ d = Tail(ch)
  OBVIOUS
<1>2. /\ p = Head(ch) /\ d \in Seq(Positions(c)) /\ Len(ch) = Len(d) + 1 /\ Len(d) \in Nat
      /\ \A k \in 1 .. Len(d) : d[k] = ch[k + 1]
      /\ DOMAIN ch = 1 .. Len(ch) /\ DOMAIN d = 1 .. Len(d)
  BY <1>1
<1>3. ch = <<p>> \o d
  BY <1>1, <1>2, HeadFirst
<1>4. CASE Len(d) = 0
  <2>1. d = <<>>
    BY <1>2, <1>4
  <2>2. ch = <<p>>
    <3> PICK q : q = <<p>>
      OBVIOUS
    <3>1. q \in Seq({p}) /\ q \o <<>> = q
      OBVIOUS
    <3> QED BY <1>3, <2>1, <3>1
  <2>3. EntryAt(c, p).type # "toolset"
    BY <1>1, <1>2, <1>4 DEF Linked
  <2> QED BY <2>2, <2>3
<1>5. CASE Len(d) # 0
  <2>1. 1 \in DOMAIN ch /\ 1 # Len(ch) /\ 1 \in 1 .. Len(d)
    BY <1>2, <1>5
  <2>2. EntryAt(c, p).type = "toolset" /\ EntryAt(c, p).target = c.toolsets[d[1][1]].name
    <3>1. ch[1 + 1] = d[1]
      BY <1>2, <2>1
    <3> QED BY <1>1, <2>1, <3>1 DEF Linked
  <2>3. d[1] \in Positions(c) /\ d # <<>>
    <3>1. \A k \in DOMAIN d : d[k] \in Positions(c)
      BY <1>2
    <3>2. 1 \in DOMAIN d
      BY <1>2, <2>1
    <3>3. d = <<>> => Len(d) = 0
      OBVIOUS
    <3> QED BY <1>5, <3>1, <3>2, <3>3
  <2>4. Linked(c, d)
    <3> SUFFICES ASSUME NEW k \in 1 .. Len(d)
                 PROVE  IF k = Len(d) THEN EntryAt(c, d[k]).type # "toolset"
                        ELSE /\ EntryAt(c, d[k]).type = "toolset"
                             /\ EntryAt(c, d[k]).target = c.toolsets[d[k + 1][1]].name
      BY <1>2 DEF Linked
    <3>1. k + 1 \in DOMAIN ch /\ ch[k + 1] = d[k] /\ (k = Len(d) <=> k + 1 = Len(ch))
      BY <1>2
    <3>2. k # Len(d) => ch[(k + 1) + 1] = d[k + 1]
      BY <1>2
    <3> QED BY <1>1, <3>1, <3>2 DEF Linked
  <2>5. d \in From(c, d[1][1]) /\ d[1][1] \in DOMAIN c.toolsets
    BY <1>2, <2>3, <2>4, PositionsAre DEF From
  <2> QED BY <1>3, <2>2, <2>5
<1> QED BY <1>4, <1>5

\* What a chain grants below a prefix.
Below(c, q, ch) == [EntryAt(c, Last(ch)) EXCEPT !.name = q \o ChainName(c, ch)]
Grants(c, q, i) == [ch \in From(c, i) |-> Below(c, q, ch)]

\* An expansion is asked for at the end of a way through the toolsets.
AskedFor(c, x, q, w, i) ==
  /\ q \in Name /\ w \in Seq(ToolsetNames(c)) /\ w # <<>> /\ i \in DOMAIN c.toolsets
  /\ OnPath(ToolsetEdges(c), w) /\ w[Len(w)] = c.toolsets[i].name
  /\ x = <<c.toolsets[i].name, q \o c.toolsets[i].name, {w[k] : k \in 1 .. Len(w) - 1}>>

\* The way goes on to a toolset the last one refers to.
LEMMA AskedBelow ==
  ASSUME NEW c, Tiered(c), NEW x, NEW q, NEW w, NEW i, AskedFor(c, x, q, w, i),
         NEW j \in DOMAIN c.toolsets, NEW k \in DOMAIN c.toolsets[i].tools,
         c.toolsets[i].tools[k].type = "toolset",
         c.toolsets[i].tools[k].target = c.toolsets[j].name
  PROVE  AskedFor(c, <<c.toolsets[j].name, x[2] \o c.toolsets[j].name, x[3] \cup {x[1]}>>,
                  x[2], Append(w, c.toolsets[j].name), j)
<1> DEFINE n == c.toolsets[i].name
           t == c.toolsets[j].name
           v == Append(w, t)
           N == ToolsetNames(c)
<1>1. c \in WellTyped /\ UniqueNames(c.toolsets)
  BY DEF Tiered
<1>2. /\ q \in Name /\ w \in Seq(N) /\ w # <<>> /\ i \in DOMAIN c.toolsets
      /\ OnPath(ToolsetEdges(c), w) /\ w[Len(w)] = n
      /\ x = <<n, q \o n, {w[l] : l \in 1 .. Len(w) - 1}>>
  BY DEF AskedFor
<1>3. n \in Name /\ t \in Name /\ t \in N
  BY <1>1, <1>2, ToolsetsTyped
<1>4. x[2] \in Name
  BY <1>2, <1>3 DEF Name
<1>5. t \in ToSet(ToolsetEdges(c)[n])
  BY <1>1, <1>2, ToolsetEdgesAre
<1> HIDE DEF n, t, N
<1>6. /\ v \in Seq(N) /\ Len(v) = Len(w) + 1 /\ Len(w) \in Nat \ {0} /\ v[Len(v)] = t
      /\ \A l \in 1 .. Len(w) : v[l] = w[l]
  <2>1. Len(w) \in Nat \ {0}
    BY <1>2
  <2> QED BY <1>2, <1>3, <2>1, Appended
<1> HIDE DEF v
<1>7. v # <<>>
  BY <1>6
<1>8. OnPath(ToolsetEdges(c), v)
  <2> SUFFICES ASSUME NEW l \in 1 .. Len(v) - 1
               PROVE  v[l + 1] \in ToSet(ToolsetEdges(c)[v[l]])
    BY DEF OnPath
  <2>1. l \in 1 .. Len(w) /\ v[l] = w[l]
    BY <1>6
  <2>2. CASE l = Len(w)
    BY <1>2, <1>5, <1>6, <2>1, <2>2
  <2>3. CASE l # Len(w)
    <3>1. l \in 1 .. Len(w) - 1 /\ l + 1 \in 1 .. Len(w)
      BY <1>6, <2>1, <2>3
    <3>2. v[l + 1] = w[l + 1]
      BY <1>6, <3>1
    <3> QED BY <1>2, <2>1, <3>1, <3>2 DEF OnPath
  <2> QED BY <2>2, <2>3
<1>9. {v[l] : l \in 1 .. Len(v) - 1} = x[3] \cup {x[1]}
  <2>1. {v[l] : l \in 1 .. Len(v) - 1} = {w[l] : l \in 1 .. Len(w)}
    <3>1. Len(v) - 1 = Len(w)
      BY <1>6
    <3> QED BY <1>6, <3>1
  <2>2. {w[l] : l \in 1 .. Len(w)} = {w[l] : l \in 1 .. Len(w) - 1} \cup {w[Len(w)]}
    <3>1. \A l \in 1 .. Len(w) : l \in 1 .. Len(w) - 1 \/ l = Len(w)
      BY <1>6
    <3>2. Len(w) \in 1 .. Len(w) /\ \A l \in 1 .. Len(w) - 1 : l \in 1 .. Len(w)
      BY <1>6
    <3> QED BY <3>1, <3>2
  <2> QED BY <1>2, <2>1, <2>2
<1>10. AskedFor(c, <<t, x[2] \o t, x[3] \cup {x[1]}>>, x[2], v, j)
  <2> PICK a, b : a = x[2] /\ b = x[3] \cup {x[1]}
    OBVIOUS
  <2>1. a \in Name /\ b = {v[l] : l \in 1 .. Len(v) - 1}
    BY <1>4, <1>9
  <2>2. AskedFor(c, <<t, a \o t, b>>, a, v, j)
    BY <1>6, <1>7, <1>8, <2>1 DEF AskedFor, N, t
  <2> QED BY <2>2
<1> QED BY <1>10 DEF v, t

\* The chains that start at an entry.
Starts(c, i, k) == {ch \in From(c, i) : ch[1] = <<i, k>>}

ListsBelow(X, c, x) ==
  \A y \in ExpandArgs(c) : <<y, x>> \in ExpandBelow(c) =>
    \A q, w, j : AskedFor(c, y, q, w, j) => Lists(X[y], From(c, j), Grants(c, q, j))

\* What is asked for is an argument, and what it has seen it does not ask for again.
LEMMA AskedTyped ==
  ASSUME NEW c, Tiered(c), NEW x, NEW q, NEW w, NEW i, AskedFor(c, x, q, w, i)
  PROVE  x \in ExpandArgs(c) /\ x[1] \notin x[3]
<1>1. c \in WellTyped /\ Acyclic(ToolsetNames(c), ToolsetEdges(c), ToolsetNames(c))
  BY DEF Tiered
<1> PICK N, n : N = ToolsetNames(c) /\ n = c.toolsets[i].name
  OBVIOUS
<1>2. /\ q \in Name /\ w \in Seq(N) /\ w # <<>> /\ i \in DOMAIN c.toolsets
      /\ OnPath(ToolsetEdges(c), w) /\ w[Len(w)] = n
      /\ x = <<n, q \o n, {w[l] : l \in 1 .. Len(w) - 1}>>
  BY DEF AskedFor
<1>3. n \in Name /\ n \in N /\ q \o n \in Name
  <2>1. n \in Name /\ n \in N
    BY <1>1, <1>2, ToolsetsTyped
  <2> QED BY <1>2, <2>1 DEF Name
<1>4. Len(w) \in Nat \ {0} /\ Len(w) \in DOMAIN w
      /\ \A l \in 1 .. Len(w) - 1 : l \in DOMAIN w /\ l # Len(w)
  BY <1>2
<1>5. {w[l] : l \in 1 .. Len(w) - 1} \in SUBSET N
  <2>1. \A l \in DOMAIN w : w[l] \in N
    BY <1>2
  <2> QED BY <1>4, <2>1
<1>6. x \in ExpandArgs(c)
  BY <1>2, <1>3, <1>5 DEF ExpandArgs
<1>7. IsInjective(w)
  BY <1>1, <1>2, PathDistinct
<1>8. n \notin {w[l] : l \in 1 .. Len(w) - 1}
  BY <1>2, <1>4, <1>7 DEF IsInjective
<1> QED BY <1>2, <1>6, <1>8

\* An entry grants what the chains that start at it do.
LEMMA EntryGrants ==
  ASSUME NEW c, Tiered(c), NEW X, NEW x, NEW q, NEW w, NEW i, AskedFor(c, x, q, w, i),
         \A y \in ExpandArgs(c) : X[y] \in Seq(Entries),
         ListsBelow(X, c, x), NEW k \in DOMAIN c.toolsets[i].tools
  PROVE  LET L == GrantedBy(X, c, x[1], x[2], x[3], c.toolsets[i].tools[k])
         IN  L \in Seq(Entries) /\ Lists(L, Starts(c, i, k), Grants(c, q, i))
<1> PICK e, n, p : e = c.toolsets[i].tools[k] /\ n = c.toolsets[i].name /\ p = <<i, k>>
  OBVIOUS
<1> PICK L, F : L = GrantedBy(X, c, x[1], x[2], x[3], e) /\ F = Grants(c, q, i)
  OBVIOUS
<1>1. /\ c \in WellTyped /\ UniqueNames(c.toolsets) /\ ValidateToolsetRefs(c)
  BY DEF Tiered
<1>2. i \in DOMAIN c.toolsets /\ q \in Name /\ x[1] = n /\ x[2] = q \o n
  BY DEF AskedFor
<1>3. p \in Positions(c) /\ p[1] = i /\ EntryAt(c, p) = e /\ e \in Entries
  BY <1>1, <1>2, PositionsAre
<1>4. n \in Name /\ e.name \in Name /\ x[2] \in Name
  <2>1. n \in Name /\ e.name \in Name
    BY <1>1, <1>2, <1>3, ToolsetsTyped DEF Entries
  <2> QED BY <1>2, <2>1 DEF Name
<1>5. \A ch \in From(c, i) : F[ch] = Below(c, q, ch)
  BY DEF Grants
<1>6. CASE e.type # "toolset"
  <2> DEFINE s == <<p>>
  <2>1. /\ s \in From(c, i) /\ Last(s) = p /\ ChainName(c, s) = n \o e.name
    BY <1>1, <1>3, <1>6, ChainOne
  <2>2. s[1] = p
    OBVIOUS
  <2> HIDE DEF s
  <2>3. Starts(c, i, k) = {s}
    <3>1. \A ch \in Starts(c, i, k) : ch = s
      <4> SUFFICES ASSUME NEW ch \in Starts(c, i, k) PROVE ch = s
        OBVIOUS
      <4>1. ch \in From(c, i) /\ ch[1] = p
        BY DEF Starts
      <4>2. \/ ch = <<ch[1]>> /\ EntryAt(c, ch[1]).type # "toolset"
            \/ EntryAt(c, ch[1]).type = "toolset"
        BY <1>1, <1>2, <4>1, ChainSplits
      <4> QED BY <1>3, <1>6, <4>1, <4>2 DEF s
    <3> QED BY <2>1, <2>2, <3>1 DEF Starts
  <2> DEFINE g == [e EXCEPT !.name = x[2] \o @]
  <2>4. L = <<g>>
    BY <1>6 DEF GrantedBy
  <2>5. g = F[s]
    <3>1. Associates(q, n, e.name)
      BY ONLY <1>2, <1>4, ConcatAssociates DEF Name
    <3>2. x[2] \o e.name = q \o (n \o e.name)
      BY ONLY <1>2, <3>1 DEF Associates
    <3>3. F[s] = [e EXCEPT !.name = q \o (n \o e.name)]
      BY ONLY <1>3, <1>5, <2>1 DEF Below
    <3> QED BY ONLY <3>2, <3>3
  <2>6. g \in Entries
    <3>1. x[2] \o e.name \in Name
      BY ONLY <1>4 DEF Name
    <3> QED BY ONLY <1>3, <3>1 DEF Entries
  <2> HIDE DEF g
  <2>7. Lists(<<g>>, {s}, F)
    BY <2>5, ListsOne
  <2>8. <<g>> \in Seq(Entries)
    BY <2>6
  <2> QED BY <2>3, <2>4, <2>7, <2>8
<1>7. CASE e.type = "toolset"
  <2>1. PICK j \in DOMAIN c.toolsets : e.target = c.toolsets[j].name
    <3>1. Defines(c.toolsets, e.target)
      <4>1. e.target \in ToSet(Targets(c.toolsets[i].tools, "toolset"))
        <5>1. Entries \in SUBSET Entries /\ c.toolsets[i].tools \in Seq(Entries)
          BY <1>1, <1>2, ToolsetsTyped
        <5> QED BY <1>7, <5>1, TargetsOf
      <4> QED BY <1>1, <1>2, <4>1 DEF ValidateToolsetRefs
    <3> QED BY <1>1, <3>1, ToolsetsTyped DEF Defines, ToolsetNames
  <2> PICK t, y : t = c.toolsets[j].name /\ y = <<t, x[2] \o t, x[3] \cup {x[1]}>>
    OBVIOUS
  <2>2. AskedFor(c, y, x[2], Append(w, t), j)
    BY <1>2, <1>7, <2>1, AskedBelow
  <2>3. L = X[y]
    <3>1. Defines(c.toolsets, e.target)
      BY <1>1, <2>1, NamedUnique
    <3> QED BY <1>7, <2>1, <3>1 DEF GrantedBy
  <2>4. y \in ExpandArgs(c) /\ x \in ExpandArgs(c) /\ x[1] \notin x[3]
    BY <2>2, AskedTyped
  <2>5. <<y, x>> \in ExpandBelow(c)
    <3> DEFINE A == ToolsetNames(c) \ x[3]
               B == ToolsetNames(c) \ (x[3] \cup {x[1]})
    <3>1. IsFiniteSet(A)
      BY <1>1, ToolsetsTyped, NamesFew, FS_Subset DEF ToolsetNames
    <3>2. B \subseteq A /\ B # A
      BY <2>4 DEF ExpandArgs
    <3>3. Cardinality(B) < Cardinality(A)
      <4> HIDE DEF A, B
      <4> QED BY <3>1, <3>2, FS_Subset, FS_CardinalityType, SMT
    <3> QED BY <2>4, <3>3 DEF ExpandBelow
  <2> PICK H : H = Grants(c, x[2], j)
    OBVIOUS
  <2>6. Lists(L, From(c, j), H)
    BY <2>2, <2>3, <2>4, <2>5 DEF ListsBelow
  <2> DEFINE G == [d \in From(c, j) |-> <<p>> \o d]
  <2>7. \A d \in From(c, j) : /\ <<p>> \o d \in From(c, i) /\ Last(<<p>> \o d) = Last(d)
                              /\ ChainName(c, <<p>> \o d) = n \o ChainName(c, d)
                              /\ (<<p>> \o d)[1] = p
    <3> SUFFICES ASSUME NEW d \in From(c, j)
                 PROVE  /\ <<p>> \o d \in From(c, i) /\ Last(<<p>> \o d) = Last(d)
                        /\ ChainName(c, <<p>> \o d) = n \o ChainName(c, d)
                        /\ (<<p>> \o d)[1] = p
      OBVIOUS
    <3>1. d \in Seq(Positions(c))
      BY DEF From
    <3>2. EntryAt(c, p).type = "toolset" /\ EntryAt(c, p).target = c.toolsets[j].name
      BY <1>3, <1>7, <2>1
    <3>3. /\ <<p>> \o d \in From(c, p[1]) /\ Last(<<p>> \o d) = Last(d)
          /\ ChainName(c, <<p>> \o d) = c.toolsets[p[1]].name \o ChainName(c, d)
      BY <1>1, <1>3, <3>2, ChainMore
    <3>4. (<<p>> \o d)[1] = p
      BY <1>3, <3>1, Prepended
    <3> QED BY <1>3, <3>3, <3>4
  <2>8. G \in [From(c, j) -> Starts(c, i, k)]
    BY <2>7 DEF Starts
  <2>9. \A a, b \in From(c, j) : G[a] = G[b] => a = b
    <3> SUFFICES ASSUME NEW a \in From(c, j), NEW b \in From(c, j), <<p>> \o a = <<p>> \o b
                 PROVE  a = b
      OBVIOUS
    <3>1. a \in Seq(Positions(c)) /\ b \in Seq(Positions(c))
      BY DEF From
    <3> PICK r : r = <<p>> \o a
      OBVIOUS
    <3>2. /\ Len(r) = Len(a) + 1 /\ Len(r) = Len(b) + 1 /\ Len(a) \in Nat /\ Len(b) \in Nat
          /\ \A l \in 1 .. Len(a) : r[l + 1] = a[l]
          /\ \A l \in 1 .. Len(b) : r[l + 1] = b[l]
      BY <1>3, <3>1, Prepended
    <3>3. Len(a) = Len(b) /\ \A l \in 1 .. Len(a) : a[l] = b[l]
      BY <3>2
    <3> QED BY <3>1, <3>3
  <2>10. \A ch \in Starts(c, i, k) : \E d \in From(c, j) : G[d] = ch
    <3> SUFFICES ASSUME NEW ch \in Starts(c, i, k) PROVE \E d \in From(c, j) : <<p>> \o d = ch
      OBVIOUS
    <3>1. ch \in From(c, i) /\ ch[1] = p
      BY DEF Starts
    <3>2. PICK l \in DOMAIN c.toolsets : \E d \in From(c, l) :
            ch = <<p>> \o d /\ e.target = c.toolsets[l].name
      <4>1. \/ ch = <<ch[1]>> /\ EntryAt(c, ch[1]).type # "toolset"
            \/ \E l \in DOMAIN c.toolsets : \E d \in From(c, l) :
                 ch = <<ch[1]>> \o d /\ EntryAt(c, ch[1]).target = c.toolsets[l].name
        BY <1>1, <1>2, <3>1, ChainSplits
      <4> QED BY <1>3, <1>7, <3>1, <4>1
    <3>3. l = j
      <4>1. \A m \in DOMAIN c.toolsets : c.toolsets[m].name = c.toolsets[j].name => m = j
        BY <1>1, NamedUnique
      <4> QED BY <2>1, <3>2, <4>1
    <3> QED BY <3>2, <3>3
  <2>11. \A d \in From(c, j) : F[G[d]] = H[d]
    <3> SUFFICES ASSUME NEW d \in From(c, j) PROVE F[<<p>> \o d] = H[d]
      OBVIOUS
    <3> PICK m, f, z : m = ChainName(c, d) /\ f = EntryAt(c, Last(d)) /\ z = <<p>> \o d
      OBVIOUS
    <3>1. F[z] = [f EXCEPT !.name = q \o (n \o m)]
      <4>1. z \in From(c, i) /\ Last(z) = Last(d) /\ ChainName(c, z) = n \o m
        BY <2>7
      <4>2. F[z] = Below(c, q, z)
        BY ONLY <1>5, <4>1
      <4> QED BY ONLY <4>1, <4>2, f = EntryAt(c, Last(d)) DEF Below
    <3>2. H[d] = [f EXCEPT !.name = x[2] \o m]
      BY DEF Grants, Below
    <3>3. q \o (n \o m) = x[2] \o m
      <4>1. m \in Name
        BY <1>1, ChainTyped
      <4>2. Associates(q, n, m)
        BY <1>2, <1>4, <4>1, ConcatAssociates DEF Name
      <4> QED BY <1>2, <4>2 DEF Associates
    <3> QED BY <3>1, <3>2, <3>3
  <2> PICK S, Y : S = From(c, j) /\ Y = Starts(c, i, k)
    OBVIOUS
  <2> HIDE DEF G
  <2>12. Lists(L, S, H) /\ G \in [S -> Y]
    BY <2>6, <2>8
  <2>13. /\ \A a, b \in S : G[a] = G[b] => a = b
         /\ \A ch \in Y : \E d \in S : G[d] = ch
         /\ \A d \in S : F[G[d]] = H[d]
    BY <2>9, <2>10, <2>11
  <2>14. Lists(L, Y, F)
    BY ONLY <2>12, <2>13, ListsAlong
  <2> QED BY <2>3, <2>4, <2>14
<1> QED BY <1>6, <1>7

\* expandToolset grants exactly what the chains from the toolset do.
LEMMA ExpandChains ==
  ASSUME NEW c, Tiered(c)
  PROVE  \A x \in ExpandArgs(c) : \A q, w, i :
           AskedFor(c, x, q, w, i) => Lists(Expand(c)[x], From(c, i), Grants(c, q, i))
<1> DEFINE X == Expand(c)
           OK(x) == \A q, w, i :
                      AskedFor(c, x, q, w, i) => Lists(X[x], From(c, i), Grants(c, q, i))
<1>1. c \in WellTyped /\ UniqueNames(c.toolsets)
  BY DEF Tiered
<1>2. \A y \in ExpandArgs(c) : /\ X[y] \in Seq(Entries)
                               /\ X[y] = Granting(X, c, y[1], y[2], y[3])
  <2>1. Seq(Leaves(c)) \subseteq Seq(Entries)
    <3>1. Leaves(c) \subseteq Entries
      BY DEF Leaves
    <3> QED BY <3>1
  <2> QED BY <1>1, <2>1, ExpandTyped
<1> HIDE DEF X
<1>3. ASSUME NEW x \in ExpandArgs(c), ListsBelow(X, c, x), NEW q, NEW w, NEW i,
             AskedFor(c, x, q, w, i)
      PROVE  Lists(X[x], From(c, i), Grants(c, q, i))
  <2> DEFINE tools == c.toolsets[i].tools
             ss == [k \in DOMAIN tools |-> GrantedBy(X, c, x[1], x[2], x[3], tools[k])]
             S == [k \in DOMAIN tools |-> Starts(c, i, k)]
  <2> PICK F : F = Grants(c, q, i)
    OBVIOUS
  <2>1. i \in DOMAIN c.toolsets /\ x[1] = c.toolsets[i].name
    BY <1>3 DEF AskedFor
  <2>2. tools \in Seq(Entries) /\ DOMAIN tools = 1 .. Len(tools) /\ Len(tools) \in Nat
    <3>1. tools \in Seq(Entries)
      BY <1>1, <2>1, ToolsetsTyped
    <3> HIDE DEF tools
    <3> QED BY <3>1
  <2>3. \A k \in DOMAIN tools : ss[k] \in Seq(Entries) /\ Lists(ss[k], S[k], F)
    <3> SUFFICES ASSUME NEW k \in DOMAIN tools
                 PROVE  ss[k] \in Seq(Entries) /\ Lists(ss[k], S[k], F)
      OBVIOUS
    <3> DEFINE L == GrantedBy(X, c, x[1], x[2], x[3], tools[k])
    <3>1. L \in Seq(Entries) /\ Lists(L, Starts(c, i, k), Grants(c, q, i))
      BY <1>2, <1>3, EntryGrants
    <3>2. ss[k] = L /\ S[k] = Starts(c, i, k)
      OBVIOUS
    <3> HIDE DEF L, ss, S, tools
    <3> QED BY <3>1, <3>2
  <2>4. X[x] = FlattenSeq(ss)
    <3>1. x[1] \notin x[3]
      BY <1>3, AskedTyped
    <3>2. Named(c.toolsets, x[1]) = c.toolsets[i]
      BY <1>1, <2>1, NamedUnique
    <3> QED BY <1>2, <3>1, <3>2 DEF Granting
  <2>5. Apart(S, Len(tools))
    <3> SUFFICES ASSUME NEW k \in 1 .. Len(tools), NEW l \in 1 .. Len(tools), k # l
                 PROVE  S[k] \cap S[l] = {}
      BY DEF Apart
    <3>1. S[k] = Starts(c, i, k) /\ S[l] = Starts(c, i, l)
      BY <2>2
    <3> HIDE DEF S
    <3> QED BY <3>1 DEF Starts
  <2>6. UNION {S[k] : k \in 1 .. Len(tools)} = From(c, i)
    <3>1. \A k \in 1 .. Len(tools) : S[k] = Starts(c, i, k)
      BY <2>2
    <3>2. ASSUME NEW ch \in From(c, i) PROVE \E k \in 1 .. Len(tools) : ch \in Starts(c, i, k)
      <4>1. ch[1] \in Positions(c) /\ ch[1][1] = i
        BY <1>1, <2>1, ChainTyped
      <4>2. ch[1] = <<i, ch[1][2]>> /\ ch[1][2] \in DOMAIN tools
        BY <1>1, <4>1, PositionsAre
      <4> HIDE DEF tools
      <4> QED BY <2>2, <4>2 DEF Starts
    <3> HIDE DEF S, tools
    <3> QED BY <3>1, <3>2 DEF Starts
  <2>7. ss \in Seq(Seq(Entries)) /\ Len(ss) = Len(tools) /\ DOMAIN ss = DOMAIN tools
    <3>1. DOMAIN ss = DOMAIN tools /\ ss = [k \in DOMAIN tools |-> ss[k]]
      OBVIOUS
    <3> HIDE DEF ss, tools, S
    <3> QED BY <2>2, <2>3, <3>1
  <2> HIDE DEF ss, S, tools
  <2>8. Lists(FlattenSeq(ss), UNION {S[k] : k \in 1 .. Len(ss)}, F)
    <3>1. Apart(S, Len(ss)) /\ \A k \in 1 .. Len(ss) : Lists(ss[k], S[k], F)
      BY <2>2, <2>3, <2>5, <2>7
    <3> QED BY <2>7, <3>1, ListsFlatten
  <2> QED BY <2>4, <2>6, <2>7, <2>8
<1>4. \A x \in ExpandArgs(c) : OK(x)
  <2> DEFINE T == {x \in ExpandArgs(c) : ~OK(x)}
  <2>1. SUFFICES ASSUME T # {} PROVE FALSE
    OBVIOUS
  <2>2. PICK x \in T : \A y \in T : ~ (<<y, x>> \in ExpandBelow(c))
    <3>1. IsWellFoundedOn(ExpandBelow(c), ExpandArgs(c))
      BY <1>1, ExpandWF
    <3>2. T \subseteq ExpandArgs(c)
      OBVIOUS
    <3> HIDE DEF T
    <3> QED BY <2>1, <3>1, <3>2, WFMin
  <2>3. ListsBelow(X, c, x)
    BY <2>2 DEF ListsBelow
  <2> QED BY <1>3, <2>3
<1> QED BY <1>4 DEF X

\* The entries a toolset grants are those its chains end at, under the chains' names.
LEMMA ExpansionChains ==
  ASSUME NEW c, Tiered(c), NEW i \in DOMAIN c.toolsets
  PROVE  /\ Expansion(c, c.toolsets[i].name) \in Seq(Entries)
         /\ Lists(Expansion(c, c.toolsets[i].name), From(c, i),
                  [ch \in From(c, i) |-> Granted(c, ch)])
<1> PICK n : n = c.toolsets[i].name
  OBVIOUS
<1> DEFINE x == <<n, n, {}>>
           w == <<n>>
<1>1. c \in WellTyped
  BY DEF Tiered
<1>2. n \in Name /\ n \in ToolsetNames(c)
  BY <1>1, ToolsetsTyped
<1>3. AskedFor(c, x, <<>>, w, i)
  <2>1. w \in Seq(ToolsetNames(c)) /\ w # <<>> /\ Len(w) = 1 /\ w[1] = n
    BY <1>2
  <2>2. <<>> \in Name /\ <<>> \o n = n
    BY <1>2 DEF Name
  <2>3. 1 .. Len(w) - 1 = {}
    BY <2>1
  <2> HIDE DEF w
  <2>4. OnPath(ToolsetEdges(c), w) /\ {w[k] : k \in 1 .. Len(w) - 1} = {}
    BY <2>3 DEF OnPath
  <2> QED BY <2>1, <2>2, <2>4 DEF AskedFor
<1>4. x \in ExpandArgs(c) /\ Expansion(c, n) = Expand(c)[x]
  BY <1>3, AskedTyped DEF Expansion
<1> HIDE DEF x, w
<1>5. Lists(Expansion(c, n), From(c, i), Grants(c, <<>>, i))
  BY <1>3, <1>4, ExpandChains
<1>6. \A ch \in From(c, i) : Granted(c, ch) = Grants(c, <<>>, i)[ch]
  <2> SUFFICES ASSUME NEW ch \in From(c, i) PROVE Granted(c, ch) = Below(c, <<>>, ch)
    BY DEF Grants
  <2> PICK m : m = ChainName(c, ch)
    OBVIOUS
  <2>1. m \in Name
    BY <1>1, ChainTyped
  <2>2. <<>> \o m = m
    BY <2>1 DEF Name
  <2> QED BY <2>2 DEF Granted, Below
<1>7. Lists(Expansion(c, n), From(c, i), [ch \in From(c, i) |-> Granted(c, ch)])
  <2> PICK L, S, F, H : /\ L = Expansion(c, n) /\ S = From(c, i) /\ F = Grants(c, <<>>, i)
                        /\ H = [ch \in S |-> Granted(c, ch)]
    OBVIOUS
  <2>1. Lists(L, S, F) /\ \A ch \in S : H[ch] = F[ch]
    BY <1>5, <1>6
  <2>2. Lists(L, S, H)
    BY ONLY <2>1, ListsAs
  <2> QED BY <2>2
<1>8. Expansion(c, n) \in Seq(Entries)
  <2>1. Expansion(c, n) \in Seq(Leaves(c)) /\ Leaves(c) \subseteq Entries
    BY <1>1, <1>2, ExpansionTyped DEF Leaves
  <2> QED BY <2>1
<1> QED BY <1>7, <1>8

-----------------------------------------------------------------------------
(***************************************************************************)
(* The index of names an agent's list can use.                              *)
(***************************************************************************)
\* References by the name they give.
Titles(c) == [r \in References(c) |-> r[3]]

\* The names of a list list what the list does.
LEMMA NamesList ==
  ASSUME NEW L, NEW X, NEW F, Lists(L, X, F), NEW H, \A x \in X : H[x] = F[x].name
  PROVE  Lists(Names(L), X, H)
<1> PICK M : M = Names(L)
  OBVIOUS
<1>1. DOMAIN M = DOMAIN L /\ \A i \in DOMAIN L : \A x \in X : L[i] = F[x] => M[i] = H[x]
  BY DEF Names
<1>2. Lists(M, X, H)
  BY <1>1, ListsOf
<1> QED BY <1>2

\* The names of entries.
LEMMA NamesTyped ==
  ASSUME NEW s \in Seq(Entries)
  PROVE  Names(s) \in Seq(Name)
<1>1. DOMAIN s = 1 .. Len(s) /\ Len(s) \in Nat /\ \A i \in DOMAIN s : s[i] \in Entries
  OBVIOUS
<1>2. \A i \in DOMAIN s : s[i].name \in Name
  BY <1>1 DEF Entries
<1> QED BY <1>1, <1>2 DEF Names

\* What a toolset adds to the index: itself and the members its chains end at.
Added(c, i) ==
  {ToolsetReference(c, i)} \cup {MemberReference(c, ch) : ch \in From(c, i)}

\* A toolset adds its own name and those of what it grants, each once.
LEMMA ToolsetAdds ==
  ASSUME NEW c, Tiered(c), NEW i \in DOMAIN c.toolsets
  PROVE  LET L == <<c.toolsets[i].name>> \o Names(Expansion(c, c.toolsets[i].name))
         IN  L \in Seq(Name) /\ Lists(L, Added(c, i), Titles(c))
<1> PICK n, L, t : /\ n = c.toolsets[i].name /\ L = Names(Expansion(c, n))
                   /\ t = ToolsetReference(c, i)
  OBVIOUS
<1>1. c \in WellTyped
  BY DEF Tiered
<1>2. n \in Name
  BY <1>1, ToolsetsTyped
<1>3. L \in Seq(Name)
  <2>1. Expansion(c, n) \in Seq(Entries)
    BY ExpansionChains
  <2> QED BY <2>1, NamesTyped
<1> DEFINE S == From(c, i)
           Y == {MemberReference(c, ch) : ch \in S}
           F == [ch \in S |-> ChainName(c, ch)]
           G == [ch \in S |-> MemberReference(c, ch)]
           H == Titles(c)
<1>4. \A ch \in S : ch \in Chains(c)
  BY ChainsAre
<1>5. /\ t \in References(c) /\ H[t] = n
      /\ \A ch \in S : MemberReference(c, ch) \in References(c) /\ H[G[ch]] = F[ch]
  BY <1>4 DEF References, Titles, ToolsetReference, MemberReference
<1>6. Lists(L, S, F)
  <2> PICK E, K : E = Expansion(c, n) /\ K = [ch \in S |-> Granted(c, ch)]
    OBVIOUS
  <2>1. Lists(E, S, K)
    BY ExpansionChains
  <2>2. \A ch \in S : F[ch] = K[ch].name
    <3> SUFFICES ASSUME NEW ch \in S PROVE ChainName(c, ch) = Granted(c, ch).name
      OBVIOUS
    <3> PICK e, m : e = EntryAt(c, Last(ch)) /\ m = ChainName(c, ch)
      OBVIOUS
    <3>1. e \in Entries
      BY <1>1, ChainTyped
    <3>2. [e EXCEPT !.name = m].name = m
      BY <3>1 DEF Entries
    <3> QED BY <3>2 DEF Granted
  <2> HIDE DEF F, S
  <2>3. Lists(Names(E), S, F)
    BY <2>1, <2>2, NamesList
  <2> QED BY <2>3
<1>7. /\ G \in [S -> Y] /\ (\A y \in Y : \E x \in S : G[x] = y)
      /\ \A x, y \in S : G[x] = G[y] => x = y
  BY DEF MemberReference
<1>8. t \notin Y
  BY DEF MemberReference, ToolsetReference
<1> HIDE DEF F, G, H, S
<1>9. Lists(L, Y, H)
  <2> PICK Z : Z = Y
    OBVIOUS
  <2> HIDE DEF Y
  <2>1. Lists(L, S, F) /\ G \in [S -> Z]
    BY <1>6, <1>7
  <2>2. \A x, y \in S : G[x] = G[y] => x = y
    BY <1>7
  <2>3. \A y \in Z : \E x \in S : G[x] = y
    BY <1>7
  <2>4. \A x \in S : H[G[x]] = F[x]
    BY <1>5
  <2>5. Lists(L, Z, H)
    BY ONLY <2>1, <2>2, <2>3, <2>4, ListsAlong
  <2> QED BY <2>5
<1> HIDE DEF Y
<1>10. Lists(<<n>>, {t}, H) /\ <<n>> \in Seq(Name) /\ {t} \cap Y = {}
  BY <1>2, <1>5, <1>8, ListsOne
<1>11. Lists(<<n>> \o L, {t} \cup Y, H) /\ <<n>> \o L \in Seq(Name)
  <2> PICK s, A : s = <<n>> /\ A = {t}
    OBVIOUS
  <2>1. s \in Seq(Name) /\ Lists(s, A, H) /\ A \cap Y = {}
    BY <1>10
  <2>2. Lists(s \o L, A \cup Y, H)
    BY <1>3, <1>9, <2>1, ListsConcat
  <2>3. s \o L \in Seq(Name)
    BY <1>3, <2>1
  <2> QED BY <2>2, <2>3
<1> QED BY <1>11 DEF Added, Y, S, H

\* toolReferenceIndex adds the name of every reference, once.
LEMMA IndexKeysList ==
  ASSUME NEW c, Tiered(c)
  PROVE  IndexKeys(c) \in Seq(Name) /\ Lists(IndexKeys(c), References(c), Titles(c))
<1> DEFINE kk == [i \in DOMAIN c.toolsets |->
                    <<c.toolsets[i].name>> \o Names(Expansion(c, c.toolsets[i].name))]
           X == [i \in DOMAIN c.toolsets |-> Added(c, i)]
           A == {ToolReference(c, i) : i \in DOMAIN c.tools}
           B == UNION {X[i] : i \in 1 .. Len(c.toolsets)}
           D == DOMAIN c.tools
           G == [i \in D |-> ToolReference(c, i)]
<1> PICK H : H = Titles(c)
  OBVIOUS
<1>1. c \in WellTyped /\ c.tools \in Seq(Entries)
  BY DEF Tiered, WellTyped
<1>2. DOMAIN c.toolsets = 1 .. Len(c.toolsets) /\ Len(c.toolsets) \in Nat
  BY <1>1, ToolsetsTyped
<1>3. \A i \in 1 .. Len(c.toolsets) : kk[i] \in Seq(Name) /\ Lists(kk[i], X[i], H)
  <2> SUFFICES ASSUME NEW i \in DOMAIN c.toolsets
               PROVE  kk[i] \in Seq(Name) /\ Lists(kk[i], X[i], H)
    BY <1>2
  <2> DEFINE L == <<c.toolsets[i].name>> \o Names(Expansion(c, c.toolsets[i].name))
  <2>1. kk[i] = L /\ X[i] = Added(c, i)
    OBVIOUS
  <2>2. L \in Seq(Name) /\ Lists(L, Added(c, i), H)
    BY ToolsetAdds
  <2> HIDE DEF kk, X, L
  <2> QED BY <2>1, <2>2
<1>4. kk \in Seq(Seq(Name)) /\ Len(kk) = Len(c.toolsets)
  <2>1. kk = [i \in 1 .. Len(c.toolsets) |-> kk[i]]
    BY <1>2
  <2> HIDE DEF kk, X
  <2> QED BY <1>2, <1>3, <2>1
<1>5. Apart(X, Len(c.toolsets))
  <2> SUFFICES ASSUME NEW i \in DOMAIN c.toolsets, NEW j \in DOMAIN c.toolsets, i # j
               PROVE  Added(c, i) \cap Added(c, j) = {}
    BY <1>2 DEF Apart
  <2>1. From(c, i) \cap From(c, j) = {}
    BY DEF From
  <2> QED BY <2>1 DEF Added, ToolsetReference, MemberReference
<1>6. Lists(FlattenSeq(kk), B, H) /\ FlattenSeq(kk) \in Seq(Name)
  <2> HIDE DEF kk, X
  <2>1. Apart(X, Len(kk)) /\ \A i \in 1 .. Len(kk) : Lists(kk[i], X[i], H)
    BY <1>3, <1>4, <1>5
  <2>2. Lists(FlattenSeq(kk), UNION {X[i] : i \in 1 .. Len(kk)}, H)
    BY <1>4, <2>1, ListsFlatten
  <2> QED BY <1>4, <2>2, FlattenTyped
<1>7. Lists(Names(c.tools), A, H) /\ Names(c.tools) \in Seq(Name)
  <2> PICK s : s = Names(c.tools)
    OBVIOUS
  <2>1. Lists(s, D, s) /\ DOMAIN s = D
    <3>1. DOMAIN s = D
      BY DEF Names
    <3> HIDE DEF D
    <3> QED BY <3>1, ListsPositions
  <2>2. G \in [D -> A] /\ \A i \in D : G[i] = ToolReference(c, i)
    OBVIOUS
  <2>3. \A i, j \in D : G[i] = G[j] => i = j
    BY DEF ToolReference
  <2>4. \A y \in A : \E i \in D : G[i] = y
    OBVIOUS
  <2>5. \A i \in D : H[G[i]] = s[i]
    BY DEF Titles, References, ToolReference, Names
  <2> PICK Y : Y = A
    OBVIOUS
  <2> HIDE DEF G, A, D
  <2>6. Lists(s, D, s) /\ G \in [D -> Y]
    BY <2>1, <2>2
  <2>7. \A y \in Y : \E i \in D : G[i] = y
    BY <2>4
  <2>8. Lists(s, Y, H)
    BY ONLY <2>3, <2>5, <2>6, <2>7, ListsAlong
  <2> QED BY <1>1, <2>8, NamesTyped
<1>8. \A b : b \in B <=> \E i \in DOMAIN c.toolsets : b \in Added(c, i)
  <2>1. \A i \in 1 .. Len(c.toolsets) : X[i] = Added(c, i)
    BY <1>2
  <2> HIDE DEF X
  <2> QED BY <1>2, <2>1
<1> HIDE DEF B
<1>9. A \cap B = {}
  BY <1>8 DEF Added, ToolReference, ToolsetReference, MemberReference
<1>10. References(c) = A \cup B
  <2>1. \A i \in DOMAIN c.toolsets : From(c, i) \subseteq Chains(c)
    BY ChainsAre
  <2>2. \A ch \in Chains(c) : ch[1][1] \in DOMAIN c.toolsets /\ ch \in From(c, ch[1][1])
    BY ChainsAre
  <2>3. B = {ToolsetReference(c, i) : i \in DOMAIN c.toolsets}
            \cup {MemberReference(c, ch) : ch \in Chains(c)}
    <3>1. ASSUME NEW b \in B
          PROVE  \/ \E i \in DOMAIN c.toolsets : b = ToolsetReference(c, i)
                 \/ \E ch \in Chains(c) : b = MemberReference(c, ch)
      BY <1>8, <2>1 DEF Added
    <3>2. \A i \in DOMAIN c.toolsets : ToolsetReference(c, i) \in B
      BY <1>8 DEF Added
    <3>3. \A ch \in Chains(c) : MemberReference(c, ch) \in B
      BY <1>8, <2>2 DEF Added
    <3> QED BY <3>1, <3>2, <3>3
  <2> QED BY <2>3 DEF References
<1>11. IndexKeys(c) = Names(c.tools) \o FlattenSeq(kk)
  BY DEF IndexKeys
<1> HIDE DEF A, kk
<1>12. Lists(Names(c.tools) \o FlattenSeq(kk), A \cup B, H)
  BY <1>6, <1>7, <1>9, ListsConcat
<1>13. IndexKeys(c) \in Seq(Name)
  <2> PICK s, t : s = Names(c.tools) /\ t = FlattenSeq(kk)
    OBVIOUS
  <2>1. s \o t \in Seq(Name)
    BY <1>6, <1>7
  <2> QED BY <1>11, <2>1
<1> QED BY <1>10, <1>11, <1>12, <1>13

\* No two references have one name.
Told(c) == \A r, s \in References(c) : r[3] = s[3] => r = s

\* The index is one to one exactly when its references can be told apart.
LEMMA IndexTold ==
  ASSUME NEW c, Tiered(c)
  PROVE  /\ IsInjective(IndexKeys(c)) <=> Told(c)
         /\ ToSet(IndexKeys(c)) = {r[3] : r \in References(c)}
<1> PICK L, R, H : L = IndexKeys(c) /\ R = References(c) /\ H = Titles(c)
  OBVIOUS
<1>1. Lists(L, R, H) /\ \A r \in R : H[r] = r[3]
  BY IndexKeysList DEF Titles
<1>2. IsInjective(L) <=> \A x, y \in R : H[x] = H[y] => x = y
  BY <1>1, ListsInjective
<1>3. \A e : e \in ToSet(L) <=> \E x \in R : e = H[x]
  BY <1>1, ListsElements
<1>4. ToSet(L) = {r[3] : r \in R}
  BY <1>1, <1>3
<1> QED BY <1>1, <1>2, <1>4 DEF Told

\* A chain grants an entry under the name of the chain.
LEMMA GrantedNamed ==
  ASSUME NEW c, Tiered(c), NEW ch \in Chains(c)
  PROVE  /\ Granted(c, ch) \in Entries /\ Granted(c, ch).name = ChainName(c, ch)
         /\ Granted(c, ch).type = EntryAt(c, Last(ch)).type
         /\ Granted(c, ch).target = EntryAt(c, Last(ch)).target
         /\ EntryAt(c, Last(ch)) \in Entries /\ Last(ch) \in Positions(c)
         /\ Granted(c, ch).type # "toolset"
<1> PICK e, m, i : e = EntryAt(c, Last(ch)) /\ m = ChainName(c, ch) /\ i = ch[1][1]
  OBVIOUS
<1>1. c \in WellTyped /\ i \in DOMAIN c.toolsets /\ ch \in From(c, i)
  BY ChainsAre DEF Tiered
<1>2. e \in Entries /\ m \in Name /\ Last(ch) \in Positions(c) /\ e.type # "toolset"
  BY <1>1, ChainTyped
<1> PICK g : g = [e EXCEPT !.name = m]
  OBVIOUS
<1>3. g \in Entries /\ g.name = m /\ g.type = e.type /\ g.target = e.target
  BY <1>2 DEF Entries
<1> QED BY <1>2, <1>3 DEF Granted

\* With the names told apart, the index grants a name what its reference grants.
GrantsAll(L, r) == L \in Seq(Entries) /\ ToSet(L) = r[4] /\ IsInjective(Names(L))

\* A tool's name grants the tool.
LEMMA ToolGrants ==
  ASSUME NEW c, Tiered(c), Told(c), NEW i \in DOMAIN c.tools
  PROVE  /\ Defines(c.tools, c.tools[i].name)
         /\ GrantsAll(IndexEntries(c, c.tools[i].name), ToolReference(c, i))
<1> PICK n, e : n = c.tools[i].name /\ e = c.tools[i]
  OBVIOUS
<1>1. c.tools \in Seq(Entries)
  BY DEF Tiered, WellTyped
<1>2. e \in Entries
  BY <1>1
<1>3. UniqueNames(c.tools)
  <2>1. ASSUME NEW j \in DOMAIN c.tools, NEW k \in DOMAIN c.tools,
               c.tools[j].name = c.tools[k].name
        PROVE  j = k
    <3>1. ToolReference(c, j) \in References(c) /\ ToolReference(c, k) \in References(c)
      BY DEF References
    <3>2. ToolReference(c, j)[3] = ToolReference(c, k)[3]
      BY <2>1 DEF ToolReference
    <3>3. ToolReference(c, j) = ToolReference(c, k)
      BY <3>1, <3>2 DEF Told
    <3> QED BY <3>3 DEF ToolReference
  <2> QED BY <2>1 DEF UniqueNames, Names, IsInjective
<1>4. Defines(c.tools, n) /\ Named(c.tools, n) = e
  BY <1>3, NamedUnique
<1> DEFINE L == <<e>>
<1>5. IndexEntries(c, n) = L
  BY <1>4 DEF IndexEntries
<1>6. L \in Seq(Entries) /\ DOMAIN L = {1} /\ L[1] = e
  BY <1>2
<1> HIDE DEF L
<1>7. ToSet(L) = {e} /\ IsInjective(Names(L))
  BY <1>6 DEF ToSet, Names, IsInjective
<1>8. ToolReference(c, i)[4] = {e}
  BY DEF ToolReference
<1> QED BY <1>4, <1>5, <1>6, <1>7, <1>8 DEF GrantsAll

\* A toolset's name grants all the toolset does.
LEMMA ToolsetGrants ==
  ASSUME NEW c, Tiered(c), Told(c), NEW i \in DOMAIN c.toolsets
  PROVE  /\ ~Defines(c.tools, c.toolsets[i].name)
         /\ GrantsAll(IndexEntries(c, c.toolsets[i].name), ToolsetReference(c, i))
<1> PICK n, S, r : n = c.toolsets[i].name /\ S = From(c, i) /\ r = ToolsetReference(c, i)
  OBVIOUS
<1>1. r \in References(c) /\ r[3] = n /\ r[1] = "toolset"
  BY DEF References, ToolsetReference
<1>2. ~Defines(c.tools, n)
  <2>1. SUFFICES ASSUME NEW j \in DOMAIN c.tools, c.tools[j].name = n PROVE FALSE
    BY DEF Defines, Names, ToSet
  <2> PICK s : s = ToolReference(c, j)
    OBVIOUS
  <2>2. s \in References(c) /\ s[3] = n /\ s[1] = "tool"
    BY <2>1 DEF References, ToolReference
  <2>3. s = r
    BY <1>1, <2>2 DEF Told
  <2> QED BY <1>1, <2>2, <2>3
<1>3. Defines(c.toolsets, n)
  BY NamedUnique DEF Tiered
<1>4. IndexEntries(c, n) = Expansion(c, n)
  BY <1>2, <1>3 DEF IndexEntries
<1> PICK L, F, H : /\ L = Expansion(c, n) /\ F = [ch \in S |-> Granted(c, ch)]
                   /\ H = [ch \in S |-> ChainName(c, ch)]
  OBVIOUS
<1>5. L \in Seq(Entries) /\ Lists(L, S, F)
  BY ExpansionChains
<1>6. S = {x \in Chains(c) : x[1][1] = i}
  BY ChainsAre
<1>7. r[4] = {Granted(c, ch) : ch \in S}
  BY <1>6 DEF ToolsetReference
<1>8. ToSet(L) = r[4]
  <2>1. \A e : e \in ToSet(L) <=> \E x \in S : e = F[x]
    BY <1>5, ListsElements
  <2> QED BY <1>7, <2>1
<1>9. IsInjective(Names(L))
  <2>1. \A ch \in S : H[ch] = F[ch].name
    BY <1>6, GrantedNamed
  <2>2. Lists(Names(L), S, H)
    BY <1>5, <2>1, NamesList
  <2>3. \A x, y \in S : H[x] = H[y] => x = y
    <3> SUFFICES ASSUME NEW x \in S, NEW y \in S, ChainName(c, x) = ChainName(c, y)
                 PROVE  x = y
      OBVIOUS
    <3> PICK s, t : s = MemberReference(c, x) /\ t = MemberReference(c, y)
      OBVIOUS
    <3>1. s \in References(c) /\ t \in References(c) /\ s[3] = t[3] /\ s[2] = x /\ t[2] = y
      BY <1>6 DEF References, MemberReference
    <3>2. s = t
      BY <3>1 DEF Told
    <3> QED BY <3>1, <3>2
  <2> PICK M : M = Names(L)
    OBVIOUS
  <2>4. Lists(M, S, H)
    BY <2>2
  <2>5. IsInjective(M)
    BY ONLY <2>3, <2>4, ListsInjective
  <2> QED BY <2>5
<1> QED BY <1>2, <1>4, <1>5, <1>8, <1>9 DEF GrantsAll

\* The name of a chain grants what the chain ends at.
LEMMA MemberGrants ==
  ASSUME NEW c, Tiered(c), Told(c), NEW ch \in Chains(c)
  PROVE  GrantsAll(IndexEntries(c, ChainName(c, ch)), MemberReference(c, ch))
<1> PICK n, r : n = ChainName(c, ch) /\ r = MemberReference(c, ch)
  OBVIOUS
<1>1. r \in References(c) /\ r[3] = n /\ r[1] = "member" /\ r[2] = ch
      /\ r[4] = {Granted(c, ch)}
  BY DEF References, MemberReference
<1>2. ~Defines(c.tools, n)
  <2>1. SUFFICES ASSUME NEW j \in DOMAIN c.tools, c.tools[j].name = n PROVE FALSE
    BY DEF Defines, Names, ToSet
  <2> PICK s : s = ToolReference(c, j)
    OBVIOUS
  <2>2. s \in References(c) /\ s[3] = n /\ s[1] = "tool"
    BY <2>1 DEF References, ToolReference
  <2>3. s = r
    BY <1>1, <2>2 DEF Told
  <2> QED BY <1>1, <2>2, <2>3
<1>3. ~Defines(c.toolsets, n)
  <2>1. SUFFICES ASSUME NEW j \in DOMAIN c.toolsets, c.toolsets[j].name = n PROVE FALSE
    BY DEF Defines, Names, ToSet
  <2> PICK s : s = ToolsetReference(c, j)
    OBVIOUS
  <2>2. s \in References(c) /\ s[3] = n /\ s[1] = "toolset"
    BY <2>1 DEF References, ToolsetReference
  <2>3. s = r
    BY <1>1, <2>2 DEF Told
  <2> QED BY <1>1, <2>2, <2>3
<1> DEFINE ss == [i \in DOMAIN c.toolsets |-> Expansion(c, c.toolsets[i].name)]
           all == FlattenSeq(ss)
<1>4. IndexEntries(c, n) = <<Named(all, n)>>
  BY <1>2, <1>3 DEF IndexEntries
<1>5. \A i \in DOMAIN c.toolsets : /\ ss[i] \in Seq(Entries)
                                   /\ \A e : e \in ToSet(ss[i]) <=>
                                        \E x \in From(c, i) : e = Granted(c, x)
  <2> SUFFICES ASSUME NEW i \in DOMAIN c.toolsets
               PROVE  /\ ss[i] \in Seq(Entries)
                      /\ \A e : e \in ToSet(ss[i]) <=> \E x \in From(c, i) : e = Granted(c, x)
    OBVIOUS
  <2> PICK L, S, F : /\ L = ss[i] /\ S = From(c, i) /\ F = [x \in S |-> Granted(c, x)]
    OBVIOUS
  <2>1. L \in Seq(Entries) /\ Lists(L, S, F)
    BY ExpansionChains
  <2> HIDE DEF ss
  <2>2. \A e : e \in ToSet(L) <=> \E x \in S : e = F[x]
    BY <2>1, ListsElements
  <2> QED BY <2>1, <2>2
<1>6. all \in Seq(Entries) /\ \A e : e \in ToSet(all) <=>
        \E i \in DOMAIN c.toolsets : e \in ToSet(ss[i])
  <2>1. c.toolsets \in Seq(Toolsets)
    BY DEF Tiered, WellTyped
  <2>2. DOMAIN ss = DOMAIN c.toolsets /\ ss = [i \in DOMAIN c.toolsets |-> ss[i]]
    OBVIOUS
  <2> PICK s : s = c.toolsets
    OBVIOUS
  <2> HIDE DEF ss
  <2>3. /\ s \in Seq(Toolsets) /\ DOMAIN ss = DOMAIN s /\ ss = [i \in DOMAIN s |-> ss[i]]
        /\ \A i \in DOMAIN s : ss[i] \in Seq(Entries)
    BY <1>5, <2>1, <2>2
  <2>4. /\ FlattenSeq(ss) \in Seq(Entries)
        /\ \A e : e \in ToSet(FlattenSeq(ss)) <=> \E i \in DOMAIN s : e \in ToSet(ss[i])
    BY ONLY <2>3, FlattenMapped, ZenonT(60)
  <2> QED BY <2>4
<1>7. \A e : e \in ToSet(all) <=> \E x \in Chains(c) : e = Granted(c, x)
  <2>1. /\ \A x \in Chains(c) : x[1][1] \in DOMAIN c.toolsets /\ x \in From(c, x[1][1])
        /\ \A i \in DOMAIN c.toolsets : From(c, i) \subseteq Chains(c)
    BY ChainsAre
  <2> HIDE DEF ss, all
  <2>2. ASSUME NEW e \in ToSet(all) PROVE \E x \in Chains(c) : e = Granted(c, x)
    <3>1. PICK i \in DOMAIN c.toolsets : e \in ToSet(ss[i])
      BY <1>6
    <3>2. PICK x \in From(c, i) : e = Granted(c, x)
      BY <1>5, <3>1
    <3> QED BY <2>1, <3>2
  <2>3. ASSUME NEW x \in Chains(c) PROVE Granted(c, x) \in ToSet(all)
    <3>1. Granted(c, x) \in ToSet(ss[x[1][1]])
      BY <1>5, <2>1
    <3> QED BY <1>6, <2>1, <3>1
  <2> QED BY <2>2, <2>3
<1> HIDE DEF ss, all
<1>8. PICK k \in DOMAIN all : all[k] = Granted(c, ch)
  BY <1>7 DEF ToSet
<1>9. Defines(all, n)
  BY <1>8, GrantedNamed DEF Defines, Names, ToSet
<1>10. PICK l \in DOMAIN all : Named(all, n) = all[l] /\ all[l].name = n
  BY <1>9, NamedIs
<1>11. PICK x \in Chains(c) : all[l] = Granted(c, x)
  BY <1>7 DEF ToSet
<1>12. x = ch
  <2> PICK s : s = MemberReference(c, x)
    OBVIOUS
  <2>1. s \in References(c) /\ s[3] = n /\ s[2] = x
    BY <1>10, <1>11, GrantedNamed DEF References, MemberReference
  <2>2. s = r
    BY <1>1, <2>1 DEF Told
  <2> QED BY <1>1, <2>1, <2>2
<1> PICK e : e = Granted(c, ch)
  OBVIOUS
<1> DEFINE L == <<e>>
<1>13. IndexEntries(c, n) = L
  BY <1>4, <1>10, <1>11, <1>12
<1>14. L \in Seq(Entries) /\ DOMAIN L = {1} /\ L[1] = e
  BY GrantedNamed
<1> HIDE DEF L
<1>15. ToSet(L) = {e} /\ IsInjective(Names(L))
  BY <1>14 DEF ToSet, Names, IsInjective
<1> QED BY <1>1, <1>13, <1>14, <1>15 DEF GrantsAll

\* A name of the index grants the leaves the definition gives it, each under its own name.
LEMMA NameGrants ==
  ASSUME NEW c, Tiered(c), Told(c), NEW n \in ToSet(IndexKeys(c))
  PROVE  /\ IndexEntries(c, n) \in Seq(Entries) /\ ToSet(IndexEntries(c, n)) = LeavesOf(c, n)
         /\ IsInjective(Names(IndexEntries(c, n)))
<1>1. PICK r \in References(c) : r[3] = n
  BY IndexTold
<1>2. GrantsAll(IndexEntries(c, n), r)
  <2>1. CASE \E i \in DOMAIN c.tools : r = ToolReference(c, i)
    BY <1>1, <2>1, ToolGrants DEF ToolReference
  <2>2. CASE \E i \in DOMAIN c.toolsets : r = ToolsetReference(c, i)
    BY <1>1, <2>2, ToolsetGrants DEF ToolsetReference
  <2>3. CASE \E ch \in Chains(c) : r = MemberReference(c, ch)
    BY <1>1, <2>3, MemberGrants DEF MemberReference
  <2> QED BY <2>1, <2>2, <2>3 DEF References
<1>3. {x \in References(c) : x[3] = n} = {r}
  BY <1>1 DEF Told
<1>4. LeavesOf(c, n) = r[4]
  BY <1>3 DEF LeavesOf
<1> QED BY <1>2, <1>4 DEF GrantsAll

-----------------------------------------------------------------------------
(***************************************************************************)
(* Validate and Sound, part by part.                                        *)
(***************************************************************************)
\* The relation a graph stands for has a way back exactly when the graph has.
LEMMA LoopsAre ==
  ASSUME NEW N, NEW E, NEW R, \A n, m \in N : m \in ToSet(E[n]) <=> <<n, m>> \in R
  PROVE  Acyclic(N, E, N) <=> ~Loops(R, N)
<1>1. \A T \in SUBSET N : \A n \in T :
        ToSet(E[n]) \cap T = {} <=> ~ \E m \in T : <<n, m>> \in R
  BY ZenonT(60)
<1>2. Acyclic(N, E, N) <=>
        \A T \in SUBSET N : T # {} => \E n \in T : ~ \E m \in T : <<n, m>> \in R
  BY <1>1 DEF Acyclic
<1> QED BY <1>2 DEF Loops

\* The names of a flattened list are unique exactly when those of its parts are and no two
\* parts share one.
LEMMA FlattenNames ==
  ASSUME NEW ss \in Seq(Seq(Entries))
  PROVE  IsInjective(Names(FlattenSeq(ss))) <=>
           /\ \A i \in 1 .. Len(ss) : IsInjective(Names(ss[i]))
           /\ \A i, j \in 1 .. Len(ss) : i # j =>
                \A e \in ToSet(ss[i]), f \in ToSet(ss[j]) : e.name # f.name
<1> PICK n, A, F : n = Len(ss) /\ A = Spots(ss) /\ F = [p \in Spots(ss) |-> ss[p[1]][p[2]]]
  OBVIOUS
<1> PICK L : L = FlattenSeq(ss)
  OBVIOUS
<1> PICK M, H : M = Names(L) /\ H = [p \in A |-> F[p].name]
  OBVIOUS
<1>1. /\ \A p : p \in A <=> \E i \in 1 .. n : \E k \in DOMAIN ss[i] : p = <<i, k>>
      /\ Lists(L, A, F)
  BY FlattenSpots
<1>2. \A x \in A : H[x] = F[x].name
  OBVIOUS
<1>3. Lists(M, A, H)
  BY <1>1, <1>2, NamesList
<1>4. IsInjective(M) <=> \A x, y \in A : H[x] = H[y] => x = y
  BY ONLY <1>3, ListsInjective
<1>5. \A i \in 1 .. n : \A k \in DOMAIN ss[i] :
        <<i, k>> \in A /\ H[<<i, k>>] = ss[i][k].name
  <2>1. \A i \in 1 .. n : \A k \in DOMAIN ss[i] : <<i, k>> \in A
    BY <1>1
  <2>2. \A i \in 1 .. n : \A k \in DOMAIN ss[i] : F[<<i, k>>] = ss[i][k]
    BY <2>1
  <2> QED BY <2>1, <2>2
<1>6. \A i \in 1 .. n :
        IsInjective(Names(ss[i])) <=>
          \A k, l \in DOMAIN ss[i] : ss[i][k].name = ss[i][l].name => k = l
  BY DEF Names, IsInjective
<1>7. ASSUME IsInjective(M)
      PROVE  /\ \A i \in 1 .. n : IsInjective(Names(ss[i]))
             /\ \A i, j \in 1 .. n : i # j =>
                  \A e \in ToSet(ss[i]), f \in ToSet(ss[j]) : e.name # f.name
  <2>1. ASSUME NEW i \in 1 .. n, NEW j \in 1 .. n, NEW k \in DOMAIN ss[i],
               NEW l \in DOMAIN ss[j], ss[i][k].name = ss[j][l].name
        PROVE  i = j /\ k = l
    <3>1. <<i, k>> \in A /\ <<j, l>> \in A /\ H[<<i, k>>] = H[<<j, l>>]
      BY <1>5, <2>1
    <3>2. <<i, k>> = <<j, l>>
      BY <1>4, <1>7, <3>1
    <3> QED BY <3>2
  <2>2. \A i \in 1 .. n : IsInjective(Names(ss[i]))
    <3>1. \A i \in 1 .. n : \A k, l \in DOMAIN ss[i] : ss[i][k].name = ss[i][l].name => k = l
      BY <2>1
    <3> QED BY ONLY <1>6, <3>1
  <2>3. \A i, j \in 1 .. n : i # j =>
          \A e \in ToSet(ss[i]), f \in ToSet(ss[j]) : e.name # f.name
    BY <2>1 DEF ToSet
  <2> QED BY <2>2, <2>3
<1>8. ASSUME \A i \in 1 .. n : IsInjective(Names(ss[i])),
             \A i, j \in 1 .. n : i # j =>
               \A e \in ToSet(ss[i]), f \in ToSet(ss[j]) : e.name # f.name,
             NEW x \in A, NEW y \in A, H[x] = H[y]
      PROVE  x = y
  <2>1. PICK i, k : i \in 1 .. n /\ k \in DOMAIN ss[i] /\ x = <<i, k>>
    BY <1>1
  <2>2. PICK j, l : j \in 1 .. n /\ l \in DOMAIN ss[j] /\ y = <<j, l>>
    BY <1>1
  <2>3. ss[i][k].name = ss[j][l].name
    BY <1>5, <1>8, <2>1, <2>2
  <2>4. i = j
    <3>1. ss[i][k] \in ToSet(ss[i]) /\ ss[j][l] \in ToSet(ss[j])
      BY <2>1, <2>2 DEF ToSet
    <3> QED BY <1>8, <2>1, <2>2, <2>3, <3>1
  <2>5. k = l
    BY <1>6, <1>8, <2>1, <2>2, <2>3, <2>4
  <2> QED BY <2>1, <2>2, <2>4, <2>5
<1>9. IsInjective(M) <=>
        /\ \A i \in 1 .. n : IsInjective(Names(ss[i]))
        /\ \A i, j \in 1 .. n : i # j =>
             \A e \in ToSet(ss[i]), f \in ToSet(ss[j]) : e.name # f.name
  BY <1>4, <1>7, <1>8
<1> QED BY <1>9

\* What the names on an agent's list grant it.
LEMMA ListGrants ==
  ASSUME NEW c, Tiered(c), Told(c), NEW a, a.tools \in Seq(Name),
         \A i \in DOMAIN a.tools : a.tools[i] \in ToSet(IndexKeys(c))
  PROVE  /\ GrantedTools(c, a) \in Seq(Entries)
         /\ \A t : t \in ToSet(GrantedTools(c, a)) <=>
              \E n \in ToSet(a.tools) : t \in LeavesOf(c, n)
         /\ IsInjective(Names(GrantedTools(c, a))) <=>
              \A i, j \in DOMAIN a.tools :
                i # j => LeafNames(c, a.tools[i]) \cap LeafNames(c, a.tools[j]) = {}
<1> PICK s : s = a.tools
  OBVIOUS
<1> DEFINE ss == [i \in DOMAIN s |-> IndexEntries(c, s[i])]
<1>1. s \in Seq(Name) /\ DOMAIN s = 1 .. Len(s) /\ Len(s) \in Nat
  OBVIOUS
<1>2. \A i \in DOMAIN s : /\ ss[i] \in Seq(Entries) /\ ToSet(ss[i]) = LeavesOf(c, s[i])
                          /\ IsInjective(Names(ss[i]))
  BY NameGrants
<1>3. GrantedTools(c, a) = FlattenSeq(ss)
  BY DEF GrantedTools
<1>4. DOMAIN ss = DOMAIN s /\ ss = [i \in DOMAIN s |-> ss[i]]
  OBVIOUS
<1> HIDE DEF ss
<1>5. ss \in Seq(Seq(Entries)) /\ Len(ss) = Len(s)
  <2>1. ss = [i \in 1 .. Len(s) |-> ss[i]]
    BY <1>1, <1>4
  <2>2. \A i \in 1 .. Len(s) : ss[i] \in Seq(Entries)
    BY <1>1, <1>2
  <2> QED BY ONLY <1>1, <2>1, <2>2
<1>6. /\ FlattenSeq(ss) \in Seq(Entries)
      /\ \A e : e \in ToSet(FlattenSeq(ss)) <=> \E i \in DOMAIN s : e \in ToSet(ss[i])
  <2>1. \A i \in DOMAIN s : ss[i] \in Seq(Entries)
    BY <1>2
  <2> QED BY ONLY <1>1, <1>4, <2>1, FlattenMapped, ZenonT(60)
<1>7. \A t : t \in ToSet(FlattenSeq(ss)) <=> \E n \in ToSet(s) : t \in LeavesOf(c, n)
  <2>1. \A n : n \in ToSet(s) <=> \E i \in DOMAIN s : s[i] = n
    BY DEF ToSet
  <2>2. \A t : t \in ToSet(FlattenSeq(ss)) <=> \E i \in DOMAIN s : t \in LeavesOf(c, s[i])
    BY <1>2, <1>6
  <2> QED BY ONLY <2>1, <2>2
<1>8. IsInjective(Names(FlattenSeq(ss))) <=>
        \A i, j \in 1 .. Len(s) : i # j =>
          \A e \in ToSet(ss[i]), f \in ToSet(ss[j]) : e.name # f.name
  <2>1. IsInjective(Names(FlattenSeq(ss))) <=>
          /\ \A i \in 1 .. Len(ss) : IsInjective(Names(ss[i]))
          /\ \A i, j \in 1 .. Len(ss) : i # j =>
               \A e \in ToSet(ss[i]), f \in ToSet(ss[j]) : e.name # f.name
    BY <1>5, FlattenNames
  <2> QED BY <1>1, <1>2, <1>5, <2>1
<1>9. ASSUME NEW i \in 1 .. Len(s), NEW j \in 1 .. Len(s)
      PROVE  LeafNames(c, s[i]) \cap LeafNames(c, s[j]) = {} <=>
               \A e \in ToSet(ss[i]), f \in ToSet(ss[j]) : e.name # f.name
  <2>1. ToSet(ss[i]) = LeavesOf(c, s[i]) /\ ToSet(ss[j]) = LeavesOf(c, s[j])
    BY <1>1, <1>2
  <2> QED BY <2>1 DEF LeafNames
<1>10. IsInjective(Names(FlattenSeq(ss))) <=>
         \A i, j \in DOMAIN s : i # j => LeafNames(c, s[i]) \cap LeafNames(c, s[j]) = {}
  <2>1. DOMAIN s = 1 .. Len(s)
    BY <1>1
  <2> QED BY ONLY <1>8, <1>9, <2>1
<1> QED BY <1>3, <1>6, <1>7, <1>10

\* The types of the definitions of a name are that of the one Named finds.
LEMMA TypesOf ==
  ASSUME NEW defs, UniqueNames(defs), NEW n
  PROVE  Types(defs, n) = IF Defines(defs, n) THEN {Named(defs, n).type} ELSE {}
<1>1. ASSUME Defines(defs, n) PROVE Types(defs, n) = {Named(defs, n).type}
  <2>1. PICK i \in DOMAIN defs : Named(defs, n) = defs[i] /\ defs[i].name = n
    BY <1>1, NamedIs
  <2>2. \A j \in DOMAIN defs : defs[j].name = n => j = i
    BY <2>1, NamedUnique
  <2>3. {x \in ToSet(defs) : x.name = n} = {defs[i]}
    BY <2>1, <2>2 DEF ToSet
  <2> QED BY <2>1, <2>3 DEF Types
<1>2. ASSUME ~Defines(defs, n) PROVE Types(defs, n) = {}
  <2>1. \A x \in ToSet(defs) : x.name # n
    BY <1>2 DEF Defines, Names, ToSet
  <2> QED BY <2>1 DEF Types
<1> QED BY <1>1, <1>2

-----------------------------------------------------------------------------
\* An entry is a tool's or stands at a position.
Holds(c, e) == e \in ToSet(c.tools) \/ \E p \in Positions(c) : e = EntryAt(c, p)

\* What the entries of a type name is there.
Present(c, type, N) == \A e : Holds(c, e) /\ e.type = type => e.target \in N

\* The entries Validate collects are just these.
LEMMA EntriesAre ==
  ASSUME NEW c \in WellTyped
  PROVE  \A e : e \in ToSet(AllEntries(c)) <=> Holds(c, e)
<1> PICK s : s = c.toolsets
  OBVIOUS
<1> DEFINE ss == [i \in DOMAIN s |-> s[i].tools]
<1>1. c.tools \in Seq(Entries) /\ s \in Seq(Toolsets)
  BY DEF WellTyped
<1>2. \A i \in DOMAIN s : ss[i] \in Seq(Entries)
  BY ToolsetsTyped
<1>3. AllEntries(c) = c.tools \o FlattenSeq(ss)
  BY DEF AllEntries
<1>4. DOMAIN ss = DOMAIN s /\ ss = [i \in DOMAIN s |-> ss[i]]
  OBVIOUS
<1>5. \A i \in DOMAIN s : ss[i] = s[i].tools
  OBVIOUS
<1> HIDE DEF ss
<1>6. /\ FlattenSeq(ss) \in Seq(Entries)
      /\ \A e : e \in ToSet(FlattenSeq(ss)) <=> \E i \in DOMAIN s : e \in ToSet(ss[i])
  BY ONLY <1>1, <1>2, <1>4, FlattenMapped, ZenonT(60)
<1>7. ToSet(AllEntries(c)) = ToSet(c.tools) \cup ToSet(FlattenSeq(ss))
  <2> PICK u, v : u = c.tools /\ v = FlattenSeq(ss)
    OBVIOUS
  <2>1. u \in Seq(Entries) /\ v \in Seq(Entries)
    BY <1>1, <1>6
  <2>2. ToSet(u \o v) = ToSet(u) \cup ToSet(v)
    BY <2>1, ConcatElements
  <2> QED BY <1>3, <2>2
<1>8. ASSUME NEW e
      PROVE  (\E i \in DOMAIN s : e \in ToSet(s[i].tools))
               <=> \E p \in Positions(c) : e = EntryAt(c, p)
  <2>1. ASSUME NEW i \in DOMAIN s, e \in ToSet(s[i].tools)
        PROVE  \E p \in Positions(c) : e = EntryAt(c, p)
    <3>1. PICK k \in DOMAIN s[i].tools : e = s[i].tools[k]
      BY <2>1 DEF ToSet
    <3> QED BY <3>1, PositionsAre
  <2>2. ASSUME NEW p \in Positions(c), e = EntryAt(c, p)
        PROVE  \E i \in DOMAIN s : e \in ToSet(s[i].tools)
    <3>1. p[1] \in DOMAIN s /\ p[2] \in DOMAIN s[p[1]].tools /\ e = s[p[1]].tools[p[2]]
      BY <2>2, PositionsAre DEF EntryAt
    <3> QED BY <3>1 DEF ToSet
  <2> QED BY <2>1, <2>2
<1> QED BY <1>5, <1>6, <1>7, <1>8 DEF Holds

\* What the targets of a type lie in.
LEMMA TargetsHeld ==
  ASSUME NEW c \in WellTyped, NEW type, NEW N
  PROVE  (\A t \in ToSet(Targets(AllEntries(c), type)) : t \in N) <=> Present(c, type, N)
<1> PICK L : L = AllEntries(c)
  OBVIOUS
<1>1. L \in Seq(Entries) /\ \A e : e \in ToSet(L) <=> Holds(c, e)
  BY AllEntriesOf, EntriesAre
<1>2. \A t : t \in ToSet(Targets(L, type)) <=>
        \E i \in DOMAIN L : L[i].type = type /\ L[i].target = t
  <2>1. Entries \in SUBSET Entries
    OBVIOUS
  <2> QED BY <1>1, <2>1, TargetsOf
<1>3. \A e : e \in ToSet(L) <=> \E i \in DOMAIN L : L[i] = e
  BY DEF ToSet
<1>4. \A t : t \in ToSet(Targets(L, type)) <=> \E e : Holds(c, e) /\ e.type = type /\ e.target = t
  BY ONLY <1>1, <1>2, <1>3
<1> QED BY <1>4 DEF Present

\* validateRefs finds nothing exactly when what is named is there.
LEMMA RefsAgree ==
  ASSUME NEW c \in WellTyped
  PROVE  ValidateRefs(c) <=>
           /\ Present(c, "subagent", AgentNames(c))
           /\ Present(c, "decider", ToSet(Names(c.deciders)))
           /\ \A a \in ToSet(c.agents) : ToSet(a.judges) \subseteq AgentNames(c)
<1>1. (\A t \in ToSet(Targets(AllEntries(c), "subagent")) : Defines(c.agents, t))
        <=> Present(c, "subagent", AgentNames(c))
  BY TargetsHeld DEF Defines, AgentNames
<1>2. (\A t \in ToSet(Targets(AllEntries(c), "decider")) : Defines(c.deciders, t))
        <=> Present(c, "decider", ToSet(Names(c.deciders)))
  BY TargetsHeld DEF Defines
<1>3. (\A i \in DOMAIN c.agents : \A j \in ToSet(c.agents[i].judges) : Defines(c.agents, j))
        <=> \A a \in ToSet(c.agents) : ToSet(a.judges) \subseteq AgentNames(c)
  <2>1. \A a : a \in ToSet(c.agents) <=> \E i \in DOMAIN c.agents : c.agents[i] = a
    BY DEF ToSet
  <2> QED BY <2>1 DEF Defines, AgentNames
<1> QED BY <1>1, <1>2, <1>3 DEF ValidateRefs

\* Names are unique exactly when there are as many as definitions.
LEMMA UniqueDistinct ==
  ASSUME NEW T, NEW defs \in Seq(T)
  PROVE  UniqueNames(defs) <=> Distinct(Names(defs))
<1>1. Names(defs) \in Seq(ToSet(Names(defs)))
  BY NamesAre
<1> QED BY <1>1, AllDifferent DEF UniqueNames, Distinct

\* A model of a kind.
LEMMA HasModelIs ==
  ASSUME NEW c, UniqueNames(c.models), NEW n, NEW type
  PROVE  HasModel(c, n, type) <=> Types(c.models, n) = {type}
BY TypesOf DEF HasModel

\* The checks of providers, models and deciders pass exactly when these are sound.
LEMMA BackendsAgree ==
  ASSUME NEW c \in WellTyped
  PROVE  ValidateBackends(c) <=> c.providers # <<>> /\ c.models # <<>> /\ BackendsSound(c)
<1>1. /\ UniqueNames(c.providers) <=> Distinct(Names(c.providers))
      /\ UniqueNames(c.models) <=> Distinct(Names(c.models))
      /\ UniqueNames(c.deciders) <=> Distinct(Names(c.deciders))
  BY UniqueDistinct DEF WellTyped
<1>2. ASSUME UniqueNames(c.providers)
      PROVE  (\A i \in DOMAIN c.models : ValidateModel(c, c.models[i])) <=>
               \A m \in ToSet(c.models) : \E type \in Types(c.providers, m.provider) :
                 m.type = "decision" => type = "openai-compatible"
  <2>1. \A m : m \in ToSet(c.models) <=> \E i \in DOMAIN c.models : c.models[i] = m
    BY DEF ToSet
  <2>2. \A m : ValidateModel(c, m) <=> \E type \in Types(c.providers, m.provider) :
                 m.type = "decision" => type = "openai-compatible"
    BY <1>2, TypesOf DEF ValidateModel
  <2> QED BY ONLY <2>1, <2>2
<1>3. ASSUME UniqueNames(c.models)
      PROVE  (\A i \in DOMAIN c.deciders : ValidateDecider(c, c.deciders[i])) <=>
               \A d \in ToSet(c.deciders) : Types(c.models, d.model) = {"decision"}
  <2>1. \A d : d \in ToSet(c.deciders) <=> \E i \in DOMAIN c.deciders : c.deciders[i] = d
    BY DEF ToSet
  <2>2. \A d : ValidateDecider(c, d) <=> Types(c.models, d.model) = {"decision"}
    BY <1>3, HasModelIs DEF ValidateDecider
  <2> QED BY ONLY <2>1, <2>2
<1> QED BY <1>1, <1>2, <1>3 DEF ValidateBackends, BackendsSound

\* The references of toolsets are to toolsets.
LEMMA ToolsetRefsAgree ==
  ASSUME NEW c \in WellTyped
  PROVE  ValidateToolsetRefs(c) <=>
           \A p \in Positions(c) :
             EntryAt(c, p).type = "toolset" => EntryAt(c, p).target \in ToolsetNames(c)
<1>1. ASSUME NEW i \in DOMAIN c.toolsets
      PROVE  \A t : t \in ToSet(Targets(c.toolsets[i].tools, "toolset")) <=>
                      \E k \in DOMAIN c.toolsets[i].tools :
                        /\ EntryAt(c, <<i, k>>).type = "toolset"
                        /\ EntryAt(c, <<i, k>>).target = t
  <2> PICK tools : tools = c.toolsets[i].tools
    OBVIOUS
  <2>1. tools \in Seq(Entries) /\ Entries \in SUBSET Entries
    BY ToolsetsTyped
  <2>2. \A t : t \in ToSet(Targets(tools, "toolset")) <=>
                 \E k \in DOMAIN tools : tools[k].type = "toolset" /\ tools[k].target = t
    BY <2>1, TargetsOf
  <2>3. \A k \in DOMAIN tools : EntryAt(c, <<i, k>>) = tools[k]
    BY PositionsAre
  <2>4. ASSUME NEW t
        PROVE  (\E k \in DOMAIN tools : tools[k].type = "toolset" /\ tools[k].target = t) <=>
                 \E k \in DOMAIN tools : /\ EntryAt(c, <<i, k>>).type = "toolset"
                                         /\ EntryAt(c, <<i, k>>).target = t
    BY ONLY <2>3
  <2> QED BY <2>2, <2>4
<1>2. \A t : Defines(c.toolsets, t) <=> t \in ToolsetNames(c)
  BY DEF Defines, ToolsetNames
<1>3. ValidateToolsetRefs(c) <=>
        \A i \in DOMAIN c.toolsets : \A k \in DOMAIN c.toolsets[i].tools :
          EntryAt(c, <<i, k>>).type = "toolset" =>
            EntryAt(c, <<i, k>>).target \in ToolsetNames(c)
  BY <1>1, <1>2 DEF ValidateToolsetRefs
<1> QED BY <1>3, PositionsAre

\* Toolsets as a graph: a way leads back exactly when detectCycle finds one.
LEMMA ToolsetCycles ==
  ASSUME NEW c \in WellTyped, UniqueNames(c.toolsets), ValidateToolsetRefs(c)
  PROVE  /\ DetectCycle(Names(c.toolsets), ToolsetEdges(c)) <=>
              Loops(Refers(c), ToolsetNames(c))
         /\ ~Loops(Refers(c), ToolsetNames(c)) => Tiered(c)
<1> DEFINE N == ToolsetNames(c)
           E == ToolsetEdges(c)
           R == Refers(c)
<1>1. Names(c.toolsets) \in Seq(N) /\ ToSet(Names(c.toolsets)) = N /\ IsFiniteSet(N)
  BY ToolsetsTyped, NamesAre DEF ToolsetNames
<1>2. E = [n \in N |-> E[n]]
  BY DEF ToolsetEdges
<1>3. ASSUME NEW n \in N
      PROVE  E[n] \in Seq(Name) /\ \A m : m \in ToSet(E[n]) <=> <<n, m>> \in R
  <2>1. PICK i \in DOMAIN c.toolsets : n = c.toolsets[i].name
    BY ToolsetsTyped
  <2>2. \A j \in DOMAIN c.toolsets : c.toolsets[j].name = n => j = i
    BY <2>1, NamedUnique
  <2>3. \A t : t \in ToSet(E[n]) <=>
          \E k \in DOMAIN c.toolsets[i].tools :
            /\ c.toolsets[i].tools[k].type = "toolset"
            /\ c.toolsets[i].tools[k].target = t
    BY <2>1, ToolsetEdgesAre
  <2>4. \A t : t \in ToSet(E[n]) <=>
          \E p \in Positions(c) : /\ c.toolsets[p[1]].name = n
                                  /\ EntryAt(c, p).type = "toolset" /\ EntryAt(c, p).target = t
    <3> HIDE DEF E
    <3>1. \A k \in DOMAIN c.toolsets[i].tools :
            <<i, k>> \in Positions(c) /\ EntryAt(c, <<i, k>>) = c.toolsets[i].tools[k]
      BY PositionsAre
    <3>2. \A p \in Positions(c) : c.toolsets[p[1]].name = n =>
            p[2] \in DOMAIN c.toolsets[i].tools /\ EntryAt(c, p) = c.toolsets[i].tools[p[2]]
      BY <2>2, PositionsAre DEF EntryAt
    <3> PICK tools : tools = c.toolsets[i].tools
      OBVIOUS
    <3>3. ASSUME NEW t, NEW k \in DOMAIN tools, tools[k].type = "toolset", tools[k].target = t
          PROVE  \E p \in Positions(c) :
                   /\ c.toolsets[p[1]].name = n
                   /\ EntryAt(c, p).type = "toolset" /\ EntryAt(c, p).target = t
      <4> PICK p : p = <<i, k>>
        OBVIOUS
      <4>1. p \in Positions(c) /\ p[1] = i /\ EntryAt(c, p) = tools[k]
        BY <3>1, <3>3
      <4> QED BY <2>1, <3>3, <4>1
    <3>4. ASSUME NEW t, NEW p \in Positions(c), c.toolsets[p[1]].name = n,
                 EntryAt(c, p).type = "toolset", EntryAt(c, p).target = t
          PROVE  \E k \in DOMAIN tools : tools[k].type = "toolset" /\ tools[k].target = t
      BY <3>2, <3>4
    <3>5. ASSUME NEW t
          PROVE  (\E k \in DOMAIN tools : tools[k].type = "toolset" /\ tools[k].target = t) <=>
                   \E p \in Positions(c) :
                     /\ c.toolsets[p[1]].name = n
                     /\ EntryAt(c, p).type = "toolset" /\ EntryAt(c, p).target = t
      BY ONLY <3>3, <3>4
    <3> QED BY <2>3, <3>5
  <2>5. \A m \in ToSet(E[n]) : m \in N
    <3>1. \A p \in Positions(c) :
            EntryAt(c, p).type = "toolset" => EntryAt(c, p).target \in ToolsetNames(c)
      BY ToolsetRefsAgree
    <3> HIDE DEF E
    <3> QED BY <2>4, <3>1
  <2>6. E[n] \in Seq(Name)
    <3>1. E[n] = Targets(Named(c.toolsets, n).tools, "toolset")
      BY DEF ToolsetEdges
    <3>2. Named(c.toolsets, n).tools \in Seq(Entries) /\ Entries \in SUBSET Entries
      BY <2>1, NamedUnique, ToolsetsTyped
    <3> QED BY <3>1, <3>2, TargetsOf
  <2> HIDE DEF E
  <2> QED BY <2>4, <2>5, <2>6 DEF Refers
<1> HIDE DEF E, N, R
<1>4. E \in [N -> Seq(N)]
  <2>1. ASSUME NEW n \in N PROVE E[n] \in Seq(N)
    <3>1. \A m \in ToSet(E[n]) : m \in N
      BY <1>3 DEF R, N, Refers
    <3>2. \A k \in DOMAIN E[n] : E[n][k] \in N
      BY <3>1 DEF ToSet
    <3> QED BY <1>3, <3>2
  <2> QED BY <1>2, <2>1
<1>5. Acyclic(N, E, N) <=> ~Loops(R, N)
  BY <1>3, LoopsAre
<1>6. DetectCycle(Names(c.toolsets), E) <=> ~Acyclic(N, E, N)
  BY <1>1, <1>4, DetectsCycles
<1> QED BY <1>5, <1>6 DEF Tiered, N, E, R

\* What EntriesSound asks of toolsets.
ToolsetsSound(c) ==
  /\ \A t \in ToSet(c.tools) : t.type # "toolset"
  /\ Present(c, "toolset", ToolsetNames(c))
  /\ ~Loops(Refers(c), ToolsetNames(c)) /\ Told(c)

\* With what it asks of agents and deciders that is EntriesSound.
LEMMA EntriesSoundIs ==
  ASSUME NEW c
  PROVE  EntriesSound(c) <=>
           /\ ToolsetsSound(c) /\ Present(c, "subagent", AgentNames(c))
           /\ Present(c, "decider", ToSet(Names(c.deciders)))
<1>1. \A t : t \in ToSet(c.tools) \cup {EntryAt(c, p) : p \in Positions(c)} <=> Holds(c, t)
  BY DEF Holds
<1> QED BY <1>1 DEF EntriesSound, ToolsetsSound, Present, Told, AgentNames

\* What can be told apart by its name has a name of its own.
LEMMA ToldUnique ==
  ASSUME NEW c \in WellTyped, Told(c)
  PROVE  UniqueNames(c.tools) /\ UniqueNames(c.toolsets)
<1>1. ASSUME NEW i \in DOMAIN c.tools, NEW j \in DOMAIN c.tools, c.tools[i].name = c.tools[j].name
      PROVE  i = j
  <2> PICK r, s : r = ToolReference(c, i) /\ s = ToolReference(c, j)
    OBVIOUS
  <2>1. r \in References(c) /\ s \in References(c)
    BY DEF References
  <2>2. r[3] = s[3] /\ r[2] = i /\ s[2] = j
    BY <1>1 DEF ToolReference
  <2> QED BY <2>1, <2>2 DEF Told
<1>2. ASSUME NEW i \in DOMAIN c.toolsets, NEW j \in DOMAIN c.toolsets,
             c.toolsets[i].name = c.toolsets[j].name
      PROVE  i = j
  <2> PICK r, s : r = ToolsetReference(c, i) /\ s = ToolsetReference(c, j)
    OBVIOUS
  <2>1. r \in References(c) /\ s \in References(c)
    BY DEF References
  <2>2. r[3] = s[3] /\ r[2] = i /\ s[2] = j
    BY <1>2 DEF ToolsetReference
  <2> QED BY <2>1, <2>2 DEF Told
<1> QED BY <1>1, <1>2 DEF UniqueNames, Names, IsInjective

\* The checks of tools and toolsets pass exactly when these are sound.
LEMMA ToolsetsAgree ==
  ASSUME NEW c \in WellTyped
  PROVE  /\ ValidateToolsets(c) <=> ToolsetsSound(c)
         /\ ToolsetsSound(c) => Tiered(c) /\ Told(c)
<1>1. (\A i \in DOMAIN c.tools : c.tools[i].type # "toolset")
        <=> \A t \in ToSet(c.tools) : t.type # "toolset"
  BY DEF ToSet
<1>2. ASSUME \A t \in ToSet(c.tools) : t.type # "toolset"
      PROVE  ValidateToolsetRefs(c) <=> Present(c, "toolset", ToolsetNames(c))
  BY <1>2, ToolsetRefsAgree DEF Present, Holds
<1>3. ASSUME ValidateToolsets(c) PROVE ToolsetsSound(c)
  <2>1. UniqueNames(c.toolsets) /\ ValidateToolsetRefs(c) /\ IsInjective(IndexKeys(c))
    BY <1>3 DEF ValidateToolsets
  <2>2. ~Loops(Refers(c), ToolsetNames(c)) /\ Tiered(c)
    BY <1>3, <2>1, ToolsetCycles DEF ValidateToolsets
  <2>3. Told(c)
    BY <2>1, <2>2, IndexTold
  <2> QED BY <1>1, <1>2, <1>3, <2>1, <2>2, <2>3 DEF ValidateToolsets, ToolsetsSound
<1>4. ASSUME ToolsetsSound(c) PROVE ValidateToolsets(c) /\ Tiered(c) /\ Told(c)
  <2>1. Told(c) /\ ~Loops(Refers(c), ToolsetNames(c)) /\ ValidateToolsetRefs(c)
    BY <1>2, <1>4 DEF ToolsetsSound
  <2>2. UniqueNames(c.tools) /\ UniqueNames(c.toolsets)
    BY <2>1, ToldUnique
  <2>3. Tiered(c) /\ ~DetectCycle(Names(c.toolsets), ToolsetEdges(c))
    BY <2>1, <2>2, ToolsetCycles
  <2>4. IsInjective(IndexKeys(c))
    BY <2>1, <2>3, IndexTold
  <2> QED BY <1>1, <1>4, <2>1, <2>2, <2>3, <2>4 DEF ValidateToolsets, ToolsetsSound
<1> QED BY <1>3, <1>4

\* An agent passes its checks exactly when it is sound.
LEMMA AgentAgrees ==
  ASSUME NEW c, Tiered(c), Told(c), UniqueNames(c.models), NEW a \in Agents
  PROVE  AgentSound(c, a) <=> ValidateAgent(c, a) /\ ToSet(a.judges) \subseteq AgentNames(c)
<1>1. HasModel(c, a.model, "llm") <=> Types(c.models, a.model) = {"llm"}
  BY HasModelIs
<1>2. IsInjective(a.judges) <=> Distinct(a.judges)
  BY AllDifferent DEF Agents, Distinct
<1>3. (\A i \in DOMAIN a.tools : a.tools[i] \in ToSet(IndexKeys(c)))
        <=> ToSet(a.tools) \subseteq {r[3] : r \in References(c)}
  <2>1. ToSet(IndexKeys(c)) = {r[3] : r \in References(c)}
    BY IndexTold
  <2>2. \A n : n \in ToSet(a.tools) <=> \E i \in DOMAIN a.tools : a.tools[i] = n
    BY DEF ToSet
  <2> QED BY <2>1, <2>2
<1>4. ASSUME \A i \in DOMAIN a.tools : a.tools[i] \in ToSet(IndexKeys(c))
      PROVE  IsInjective(Names(GrantedTools(c, a))) <=>
               \A i, j \in DOMAIN a.tools :
                 i # j => LeafNames(c, a.tools[i]) \cap LeafNames(c, a.tools[j]) = {}
  BY <1>4, ListGrants DEF Agents
<1> QED BY <1>1, <1>2, <1>3, <1>4 DEF AgentSound, ValidateAgent, AgentNames

\* What an agent leads to.
LEMMA AgentLeadsTo ==
  ASSUME NEW c, Tiered(c), Told(c), Resolvable(c), UniqueNames(c.agents),
         NEW n \in AgentNames(c), NEW m
  PROVE  m \in ToSet(AgentEdges(c)[n]) <=> <<n, m>> \in Delegates(c)
<1>1. PICK i \in DOMAIN c.agents : Named(c.agents, n) = c.agents[i] /\ c.agents[i].name = n
  BY NamedIs DEF Defines, AgentNames
<1>2. \A j \in DOMAIN c.agents : c.agents[j].name = n => j = i
  BY <1>1, NamedUnique
<1> PICK a, g : a = c.agents[i] /\ g = GrantedTools(c, a)
  OBVIOUS
<1>3. a.tools \in Seq(Name) /\ \A k \in DOMAIN a.tools : a.tools[k] \in ToSet(IndexKeys(c))
  <2>1. c.agents \in Seq(Agents)
    BY DEF WellTyped, Tiered
  <2>2. a \in Agents
    BY <2>1
  <2> QED BY <2>2 DEF Agents, Resolvable
<1>4. /\ g \in Seq(Entries)
      /\ \A t : t \in ToSet(g) <=> \E k \in ToSet(a.tools) : t \in LeavesOf(c, k)
  BY <1>3, ListGrants
<1>5. GrantsOf(c, n) = g /\ Named(c.agents, n).judges = a.judges
  BY <1>1 DEF GrantsOf
<1>6. /\ ToSet(AgentEdges(c)[n]) = ToSet(Targets(g, "subagent")) \cup ToSet(a.judges)
      /\ ToSet(Targets(g, "subagent")) \subseteq AgentNames(c)
      /\ a.judges \in Seq(AgentNames(c))
  BY <1>5, AgentEdgesAre
<1>7. m \in ToSet(Targets(g, "subagent")) <=>
        \E t \in ToSet(g) : t.type = "subagent" /\ t.target = m
  <2>1. Entries \in SUBSET Entries
    OBVIOUS
  <2>2. m \in ToSet(Targets(g, "subagent")) <=>
          \E k \in DOMAIN g : g[k].type = "subagent" /\ g[k].target = m
    BY <1>4, <2>1, TargetsOf
  <2> QED BY <2>2 DEF ToSet
<1>8. m \in ToSet(Targets(g, "subagent")) <=>
        \E k \in ToSet(a.tools) : \E t \in LeavesOf(c, k) : t.type = "subagent" /\ t.target = m
  BY <1>4, <1>7
<1>9. m \in ToSet(AgentEdges(c)[n]) => m \in AgentNames(c)
  BY <1>6, ElementsTyped
<1>10. <<n, m>> \in Delegates(c) <=>
         /\ m \in AgentNames(c)
         /\ \E j \in DOMAIN c.agents :
              /\ c.agents[j].name = n
              /\ \/ m \in ToSet(c.agents[j].judges)
                 \/ \E k \in ToSet(c.agents[j].tools) : \E t \in LeavesOf(c, k) :
                      t.type = "subagent" /\ t.target = m
  BY DEF Delegates, AgentNames
<1>11. <<n, m>> \in Delegates(c) <=>
         /\ m \in AgentNames(c)
         /\ \/ m \in ToSet(a.judges)
            \/ \E k \in ToSet(a.tools) : \E t \in LeavesOf(c, k) :
                 t.type = "subagent" /\ t.target = m
  BY <1>1, <1>2, <1>10
<1> QED BY <1>6, <1>8, <1>9, <1>11

\* Agents as a graph: a way leads back exactly when detectCycle finds one.
LEMMA AgentCycles ==
  ASSUME NEW c, Tiered(c), Told(c), Resolvable(c), UniqueNames(c.agents)
  PROVE  DetectCycle(Names(c.agents), AgentEdges(c)) <=> Loops(Delegates(c), AgentNames(c))
<1> PICK N, E, R : N = AgentNames(c) /\ E = AgentEdges(c) /\ R = Delegates(c)
  OBVIOUS
<1>1. Names(c.agents) \in Seq(N) /\ ToSet(Names(c.agents)) = N /\ IsFiniteSet(N)
  <2>1. c.agents \in Seq(Agents)
    BY DEF WellTyped, Tiered
  <2> QED BY <2>1, NamesAre DEF AgentNames
<1>2. E \in [N -> Seq(N)]
  BY AgentEdgesAre
<1>3. \A n, m \in N : m \in ToSet(E[n]) <=> <<n, m>> \in R
  BY AgentLeadsTo
<1>4. Acyclic(N, E, N) <=> ~Loops(R, N)
  BY <1>3, LoopsAre
<1>5. DetectCycle(Names(c.agents), E) <=> ~Acyclic(N, E, N)
  BY <1>1, <1>2, DetectsCycles
<1> QED BY <1>4, <1>5

\* An agent that is sound runs on a model of a provider.
LEMMA SoundBackends ==
  ASSUME NEW c \in WellTyped, Sound(c)
  PROVE  c.providers # <<>> /\ c.models # <<>>
<1>1. PICK a \in ToSet(c.agents) : Types(c.models, a.model) = {"llm"}
  <2>1. c.agents \in Seq(Agents) /\ c.agents # <<>>
    BY DEF WellTyped, Sound
  <2>2. c.agents[1] \in ToSet(c.agents)
    BY <2>1 DEF ToSet
  <2> QED BY <2>2 DEF Sound, AgentSound
<1>2. PICK m \in ToSet(c.models) : TRUE
  BY <1>1 DEF Types
<1>3. PICK type \in Types(c.providers, m.provider) : TRUE
  BY DEF Sound, BackendsSound
<1>4. \E p \in ToSet(c.providers) : TRUE
  BY <1>3 DEF Types
<1>5. DOMAIN c.models # {} /\ DOMAIN c.providers # {}
  BY <1>2, <1>4 DEF ToSet
<1> QED BY <1>5

\* Validate accepts a configuration exactly when it is sound.
LEMMA ValidateIsSound ==
  ASSUME NEW c \in WellTyped
  PROVE  Validate(c) <=> Sound(c)
<1>1. \A a : a \in ToSet(c.agents) <=> \E i \in DOMAIN c.agents : c.agents[i] = a
  BY DEF ToSet
<1>2. c.agents \in Seq(Agents) /\ \A a \in ToSet(c.agents) : a \in Agents
  <2>1. c.agents \in Seq(Agents)
    BY DEF WellTyped
  <2> QED BY <2>1, ElementsTyped
<1>3. UniqueNames(c.agents) <=> Distinct(Names(c.agents))
  BY <1>2, UniqueDistinct
<1>4. c.default # <<>> => (Defines(c.agents, c.default) <=> c.default \in ToSet(Names(c.agents)))
  BY DEF Defines
<1>5. ASSUME Tiered(c), Told(c), ValidateRefs(c), UniqueNames(c.agents),
             \A i \in DOMAIN c.agents : ValidateAgent(c, c.agents[i])
      PROVE  DetectCycle(Names(c.agents), AgentEdges(c)) <=>
               Loops(Delegates(c), ToSet(Names(c.agents)))
  <2>1. Resolvable(c)
    BY <1>5 DEF Resolvable, ValidateAgent
  <2> QED BY <1>5, <2>1, AgentCycles DEF AgentNames
<1>6. ASSUME Validate(c) PROVE Sound(c)
  <2>1. ToolsetsSound(c) /\ Tiered(c) /\ Told(c)
    BY <1>6, ToolsetsAgree DEF Validate
  <2>2. BackendsSound(c) /\ UniqueNames(c.models)
    BY <1>6, BackendsAgree DEF Validate, ValidateBackends
  <2>3. /\ Present(c, "subagent", AgentNames(c))
        /\ Present(c, "decider", ToSet(Names(c.deciders)))
        /\ \A a \in ToSet(c.agents) : ToSet(a.judges) \subseteq AgentNames(c)
    BY <1>6, RefsAgree DEF Validate
  <2>4. EntriesSound(c)
    BY <2>1, <2>3, EntriesSoundIs
  <2>5. \A a \in ToSet(c.agents) : ValidateAgent(c, a)
    BY <1>1, <1>6 DEF Validate
  <2>6. \A a \in ToSet(c.agents) : AgentSound(c, a)
    BY <1>2, <2>1, <2>2, <2>3, <2>5, AgentAgrees
  <2>7. ~Loops(Delegates(c), ToSet(Names(c.agents)))
    BY <1>5, <1>6, <2>1 DEF Validate
  <2> QED BY <1>3, <1>4, <1>6, <2>2, <2>4, <2>6, <2>7 DEF Validate, Sound
<1>7. ASSUME Sound(c) PROVE Validate(c)
  <2>1. EntriesSound(c) /\ BackendsSound(c) /\ \A a \in ToSet(c.agents) : AgentSound(c, a)
    BY <1>7 DEF Sound
  <2>2. /\ ToolsetsSound(c) /\ Present(c, "subagent", AgentNames(c))
        /\ Present(c, "decider", ToSet(Names(c.deciders)))
    BY <2>1, EntriesSoundIs
  <2>3. ValidateToolsets(c) /\ Tiered(c) /\ Told(c)
    BY <2>2, ToolsetsAgree
  <2>4. ValidateBackends(c) /\ UniqueNames(c.models)
    BY <1>7, <2>1, SoundBackends, BackendsAgree DEF ValidateBackends
  <2>5. \A a \in ToSet(c.agents) : ValidateAgent(c, a) /\ ToSet(a.judges) \subseteq AgentNames(c)
    BY <1>2, <2>1, <2>3, <2>4, AgentAgrees
  <2>6. ValidateRefs(c)
    BY <2>2, <2>5, RefsAgree
  <2>7. \A i \in DOMAIN c.agents : ValidateAgent(c, c.agents[i])
    BY <1>1, <2>5
  <2>8. UniqueNames(c.agents)
    BY <1>3, <1>7 DEF Sound
  <2>9. ~DetectCycle(Names(c.agents), AgentEdges(c))
    BY <1>5, <1>7, <2>3, <2>6, <2>7, <2>8 DEF Sound
  <2> QED BY <1>4, <1>7, <2>3, <2>4, <2>6, <2>7, <2>8, <2>9 DEF Validate, Sound
<1> QED BY <1>6, <1>7

\* A configuration is accepted exactly when it is sound: no name stands for two things, whatever
\* hyphens it is joined from, what is named is there and of the kind it is named for, and no
\* chain of tools, toolsets and judges leads back (config.go Validate).
THEOREM AcceptsExactlyTheSound == Spec => []ConfigSound
<1>1. Inv => ConfigSound
  BY ValidateIsSound, DelegationAssumption DEF Inv, PhaseInv, ConfigSound
<1> QED BY Invariance, <1>1, PTL
=============================================================================

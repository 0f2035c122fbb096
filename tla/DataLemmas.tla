----------------------------- MODULE DataLemmas -----------------------------
(***************************************************************************)
(* Recursion and induction over data from well-founded relations, and what  *)
(* FlattenSeq computes: the facts the theorems about configurations and     *)
(* about streamed answers rest on.  Nothing here is about the program.      *)
(***************************************************************************)
EXTENDS SequencesExt, FiniteSetTheorems, SequenceTheorems, WellFoundedInduction, TLAPS

\* A set of numbers that is not empty has a least one.
LEMMA LeastNat ==
  ASSUME NEW S \in SUBSET Nat, S # {}
  PROVE  \E m \in S : \A k \in S : m <= k
<1> DEFINE R == OpToRel(<, Nat)
<1>0. IsWellFoundedOn(R, Nat)
  BY NatLessThanWellFounded
<1>1. \E m \in S : \A k \in S : ~ (<<k, m>> \in R)
  <2> HIDE DEF R
  <2> QED BY <1>0, WFMin
<1>2. \A k, m \in Nat : <<k, m>> \in R <=> k < m
  BY DEF OpToRel
<1>3. PICK m \in S : \A k \in S : ~ (<<k, m>> \in R)
  BY <1>1
<1> HIDE DEF R
<1>4. ASSUME NEW k \in S PROVE m <= k
  <2>1. k \in Nat /\ m \in Nat
    OBVIOUS
  <2>2. ~ (k < m)
    BY <1>2, <1>3, <2>1
  <2> QED BY <2>1, <2>2
<1> QED BY <1>4

\* A relation that lowers a first measure, or keeps it and lowers a second, is well-founded.
LEMMA LexicographicWF ==
  ASSUME NEW S, NEW M, NEW L, NEW R,
         \A x \in S : M[x] \in Nat /\ L[x] \in Nat,
         \A x, y \in S : <<y, x>> \in R => \/ M[y] < M[x]
                                           \/ M[y] = M[x] /\ L[y] < L[x]
  PROVE  IsWellFoundedOn(R, S)
<1>1. ASSUME NEW T \in SUBSET S, T # {}
      PROVE  \E x \in T : \A y \in T : ~ (<<y, x>> \in R)
  <2> DEFINE P == {M[x] : x \in T}
  <2>1. P \in SUBSET Nat /\ P # {}
    BY <1>1
  <2>2. PICK m \in P : \A k \in P : m <= k
    <3> HIDE DEF P
    <3> QED BY <2>1, LeastNat
  <2> DEFINE U == {x \in T : M[x] = m}
             Q == {L[x] : x \in U}
  <2>3. Q \in SUBSET Nat /\ Q # {}
    BY <1>1, <2>2
  <2>4. PICK l \in Q : \A k \in Q : l <= k
    <3> HIDE DEF Q
    <3> QED BY <2>3, LeastNat
  <2>5. PICK x \in U : L[x] = l
    BY <2>4
  <2>6. ASSUME NEW y \in T, <<y, x>> \in R PROVE FALSE
    <3>1. x \in S /\ y \in S /\ M[x] = m /\ L[x] = l
      BY <2>5
    <3>2. m <= M[y]
      BY <2>2, <2>6
    <3>3. M[y] \in Nat /\ M[x] \in Nat /\ L[y] \in Nat /\ L[x] \in Nat
      BY <3>1
    <3>4. M[y] = m /\ L[y] < l
      <4> HIDE DEF P, U, Q
      <4> QED BY <2>6, <3>1, <3>2, <3>3
    <3>5. l <= L[y]
      BY <2>4, <3>4, <2>6
    <3> HIDE DEF P, U, Q
    <3> QED BY <3>1, <3>3, <3>4, <3>5
  <2> QED BY <2>5, <2>6
<1> QED BY <1>1, MinWF

Typed(S, U, V) == {f \in [S -> U] : \A x \in S : f[x] \in V[x]}

Contracting(S, R, U, V, F) ==
  /\ IsWellFoundedOn(R, S)
  /\ \A x \in S : V[x] # {} /\ V[x] \subseteq U
  /\ \A f \in Typed(S, U, V) : \A x \in S : F[f][x] \in V[x]
  /\ \A f, g \in Typed(S, U, V) : \A x \in S :
       (\A y \in S : <<y, x>> \in R => f[y] = g[y]) => F[f][x] = F[g][x]

\* A function defined by recursion exists when its body asks only for what lies below:
\* the fixpoint of F, every value of which has its type.
LEMMA Recursion ==
  ASSUME NEW S, NEW R, NEW U, NEW V, NEW F, Contracting(S, R, U, V, F)
  PROVE  \E w \in Typed(S, U, V) : \A x \in S : w[x] = F[w][x]
<1> DEFINE A == {f \in [S -> U] : \A x \in S : f[x] \in V[x]}
<1>a. /\ IsWellFoundedOn(R, S)
      /\ \A x \in S : V[x] # {} /\ V[x] \subseteq U
      /\ \A f \in A : \A x \in S : F[f][x] \in V[x]
      /\ \A f, g \in A : \A x \in S :
           (\A y \in S : <<y, x>> \in R => f[y] = g[y]) => F[f][x] = F[g][x]
      /\ A = {f \in [S -> U] : \A x \in S : f[x] \in V[x]}
  BY DEF Contracting, Typed
<1>b. A = Typed(S, U, V)
  BY DEF Typed
<1> SUFFICES \E w \in A : \A x \in S : w[x] = F[w][x]
  BY <1>b
<1> HIDE DEF A
<1> USE <1>a
<1> DEFINE Closed(G) == \A x \in S, f \in A :
                          (\A y \in S : <<y, x>> \in R => <<y, f[y]>> \in G)
                                => <<x, F[f][x]>> \in G
           G0 == {p \in S \X U : \A G \in SUBSET (S \X U) : Closed(G) => p \in G}
           Alone(x) == \E v \in V[x] : \A u \in U : <<x, u>> \in G0 <=> u = v
           the[x \in S] == CHOOSE v \in V[x] : \A u \in U : <<x, u>> \in G0 <=> u = v
<1>1. Closed(G0)
  <2>1. SUFFICES ASSUME NEW x \in S, NEW f \in A,
                        \A y \in S : <<y, x>> \in R => <<y, f[y]>> \in G0
                 PROVE  <<x, F[f][x]>> \in G0
    OBVIOUS
  <2>2. <<x, F[f][x]>> \in S \X U
    OBVIOUS
  <2>3. ASSUME NEW G \in SUBSET (S \X U), Closed(G)
        PROVE  <<x, F[f][x]>> \in G
    BY <2>1, <2>3
  <2> QED BY <2>2, <2>3
<1>2. ASSUME NEW x \in S, \A y \in S : <<y, x>> \in R => Alone(y)
      PROVE  Alone(x)
  <2> DEFINE f == [y \in S |-> IF <<y, x>> \in R THEN the[y] ELSE CHOOSE v \in V[y] : TRUE]
  <2>1. \A y \in S : <<y, x>> \in R => /\ the[y] \in V[y]
                                       /\ \A u \in U : <<y, u>> \in G0 <=> u = the[y]
    <3> HIDE DEF G0
    <3> QED BY <1>2
  <2>2. f \in A
    <3> HIDE DEF the, G0
    <3>1. ASSUME NEW y \in S PROVE f[y] \in V[y] /\ f[y] \in U
      <4>1. CASE <<y, x>> \in R
        <5>1. f[y] = the[y]
          BY <4>1
        <5> QED BY <2>1, <4>1, <5>1
      <4>2. CASE <<y, x>> \notin R
        <5>1. f[y] = CHOOSE v \in V[y] : TRUE
          BY <4>2
        <5> QED BY <5>1
      <4> QED BY <4>1, <4>2
    <3> QED BY <3>1
  <2>3. \A y \in S : <<y, x>> \in R => <<y, f[y]>> \in G0
    <3> HIDE DEF G0, the
    <3> QED BY <2>1
  <2> HIDE DEF f
  <2>4. <<x, F[f][x]>> \in G0
    <3> HIDE DEF G0, the
    <3> QED BY <1>1, <2>2, <2>3
  <2> DEFINE G1 == {p \in G0 : p[1] = x => p[2] = F[f][x]}
  <2>5. ASSUME NEW z \in S, NEW g \in A, \A y \in S : <<y, z>> \in R => <<y, g[y]>> \in G1
        PROVE  <<z, F[g][z]>> \in G1
    <3>1. \A y \in S : <<y, z>> \in R => <<y, g[y]>> \in G0
      BY <2>5
    <3>2. <<z, F[g][z]>> \in G0
      <4> HIDE DEF G0
      <4> QED BY <1>1, <3>1
    <3>3. z = x => F[g][z] = F[f][x]
      <4>1. SUFFICES ASSUME z = x PROVE F[g][x] = F[f][x]
        OBVIOUS
      <4>2. \A y \in S : <<y, x>> \in R => g[y] = f[y]
        <5> HIDE DEF G0, the
        <5>1. \A y \in S : g[y] \in U
          OBVIOUS
        <5> QED BY <2>1, <3>1, <4>1, <5>1 DEF f
      <4> QED BY <2>2, <4>2
    <3> HIDE DEF G0
    <3> QED BY <3>2, <3>3
  <2>6. Closed(G1) /\ G1 \in SUBSET (S \X U)
    <3>1. G1 \in SUBSET (S \X U)
      OBVIOUS
    <3> HIDE DEF G1, G0
    <3> QED BY <2>5, <3>1
  <2>7. \A u \in U : <<x, u>> \in G0 => u = F[f][x]
    <3> SUFFICES ASSUME NEW u \in U, <<x, u>> \in G0 PROVE u = F[f][x]
      OBVIOUS
    <3>1. <<x, u>> \in G1
      <4> HIDE DEF G1
      <4> QED BY <2>6
    <3> QED BY <3>1
  <2>8. F[f][x] \in V[x]
    BY <2>2
  <2> HIDE DEF G0
  <2> QED BY <2>4, <2>7, <2>8
<1>3. \A x \in S : Alone(x)
  <2> DEFINE T == {x \in S : ~Alone(x)}
  <2> HIDE DEF Alone
  <2>1. SUFFICES ASSUME T # {} PROVE FALSE
    OBVIOUS
  <2>2. PICK x \in T : \A y \in T : ~ (<<y, x>> \in R)
    BY <2>1, WFMin, Zenon
  <2> QED BY <1>2, <2>2
<1>4. \A x \in S : the[x] \in V[x] /\ \A u \in U : <<x, u>> \in G0 <=> u = the[x]
  <2> HIDE DEF G0
  <2> QED BY <1>3
<1>5. the \in A
  <2>1. the \in [S -> U] /\ \A x \in S : the[x] \in V[x]
    <3> HIDE DEF G0
    <3>1. the = [x \in S |-> CHOOSE v \in V[x] : \A u \in U : <<x, u>> \in G0 <=> u = v]
      OBVIOUS
    <3> HIDE DEF the
    <3> QED BY <1>4, <3>1
  <2> HIDE DEF the
  <2> QED BY <2>1
<1>6. ASSUME NEW x \in S
      PROVE  the[x] = F[the][x]
  <2> HIDE DEF the, G0
  <2>1. \A y \in S : <<y, the[y]>> \in G0
    BY <1>4
  <2>2. <<x, F[the][x]>> \in G0
    BY <1>1, <1>5, <2>1
  <2>3. F[the][x] \in U
    BY <1>5
  <2> QED BY <1>4, <2>2, <2>3
<1> HIDE DEF the
<1> QED BY <1>5, <1>6

\* FlattenSeq computes what its recursive function says.
LEMMA FlattenDefined ==
  ASSUME NEW T, NEW ss \in Seq(Seq(T)), ss # <<>>
  PROVE  \E g \in [1 .. Len(ss) -> Seq(T)] :
           /\ g[1] = ss[1]
           /\ \A i \in 2 .. Len(ss) : g[i] = g[i - 1] \o ss[i]
           /\ FlattenSeq(ss) = g[Len(ss)]
<1> DEFINE S == 1 .. Len(ss)
           R == OpToRel(<, Nat)
           V == [i \in S |-> Seq(T)]
           A == Typed(S, Seq(T), V)
           F == [f \in A |-> [i \in S |-> IF i = 1 THEN ss[i] ELSE f[i - 1] \o ss[i]]]
<1>1. IsWellFoundedOn(R, S)
  <2>1. S \subseteq Nat
    OBVIOUS
  <2> HIDE DEF S, R
  <2>2. IsWellFoundedOn(R, Nat)
    BY NatLessThanWellFounded DEF R
  <2> QED BY <2>1, <2>2, IsWellFoundedOnSubset
<1>2. \A i \in S : i # 1 => i - 1 \in S /\ <<i - 1, i>> \in R
  BY DEF OpToRel
<1>3. \A i \in S : V[i] # {} /\ V[i] \subseteq Seq(T) /\ ss[i] \in Seq(T)
  <2>1. <<>> \in Seq(T)
    OBVIOUS
  <2> QED BY <2>1
<1>4. \A f \in A : \A i \in S : F[f][i] \in V[i]
  <2> HIDE DEF R
  <2> QED BY <1>2, <1>3 DEF Typed
<1>5. \A f, g \in A : \A i \in S :
        (\A j \in S : <<j, i>> \in R => f[j] = g[j]) => F[f][i] = F[g][i]
  <2> HIDE DEF R, S
  <2> QED BY <1>2
<1>6. \E w \in A : \A i \in S : w[i] = F[w][i]
  <2>1. \A i \in S : V[i] # {} /\ V[i] \subseteq Seq(T)
    BY <1>3
  <2> HIDE DEF R, S, V, F
  <2>2. Contracting(S, R, Seq(T), V, F)
    BY <1>1, <1>4, <1>5, <2>1 DEF Contracting
  <2> QED BY <2>2, Recursion
<1>7. PICK w \in A : \A i \in S : w[i] = F[w][i]
  BY <1>6
<1> DEFINE Flat(g) == [i \in S |-> IF i = 1 THEN ss[i] ELSE g[i - 1] \o ss[i]]
           h == CHOOSE g : g = Flat(g)
<1>8. w = Flat(w)
  <2> HIDE DEF R, S, V
  <2> QED BY <1>7 DEF Typed
<1>9. h = Flat(h)
  <2> HIDE DEF Flat
  <2> QED BY <1>8
<1>10. Len(ss) # 0 /\ Len(ss) \in Nat
  OBVIOUS
<1>11. FlattenSeq(ss) = h[Len(ss)]
  BY <1>10 DEF FlattenSeq
<1>12. \A i \in S : h[i] = IF i = 1 THEN ss[i] ELSE h[i - 1] \o ss[i]
  <2> HIDE DEF h, S
  <2> QED BY <1>9
<1>13. DOMAIN h = S /\ h = [i \in S |-> h[i]]
  <2> HIDE DEF h, S
  <2> QED BY <1>9
<1> HIDE DEF h
<1>14. \A i \in S : h[i] \in Seq(T)
  <2> DEFINE B == {i \in S : h[i] \notin Seq(T)}
  <2>1. SUFFICES ASSUME B # {} PROVE FALSE
    OBVIOUS
  <2>2. PICK m \in B : \A k \in B : m <= k
    <3>1. B \in SUBSET Nat
      OBVIOUS
    <3> HIDE DEF B
    <3> QED BY <2>1, <3>1, LeastNat
  <2>3. CASE m = 1
    BY <1>3, <1>12, <2>3
  <2>4. CASE m # 1
    <3>1. h[m - 1] \in Seq(T)
      <4>1. m \in S /\ m - 1 \in S /\ ~ (m <= m - 1)
        BY <2>2, <2>4
      <4> HIDE DEF S
      <4> QED BY <2>2, <4>1
    <3>2. h[m] = h[m - 1] \o ss[m]
      BY <1>12, <2>4
    <3>3. ss[m] \in Seq(T)
      BY <1>3
    <3>4. h[m] \notin Seq(T)
      BY <2>2
    <3> QED
      <4> HIDE DEF B, S
      <4> QED BY <3>1, <3>2, <3>3, <3>4
  <2> QED BY <2>3, <2>4
<1>15. h \in [S -> Seq(T)]
  <2> HIDE DEF S
  <2> QED BY <1>13, <1>14
<1>16. h[1] = ss[1]
  BY <1>10, <1>12
<1>17. \A i \in 2 .. Len(ss) : h[i] = h[i - 1] \o ss[i]
  <2> SUFFICES ASSUME NEW i \in 2 .. Len(ss) PROVE h[i] = h[i - 1] \o ss[i]
    OBVIOUS
  <2>1. i \in S /\ i # 1
    OBVIOUS
  <2> HIDE DEF S
  <2> QED BY <1>12, <2>1
<1> QED BY <1>11, <1>15, <1>16, <1>17

\* What holds of <<>> and of a sequence with one more element holds of every sequence.
LEMMA SeqInduction ==
  ASSUME NEW T, NEW P, <<>> \in P,
         \A s \in Seq(T), e \in T : s \in P => Append(s, e) \in P
  PROVE  \A s \in Seq(T) : s \in P
<1> DEFINE B == {Len(s) : s \in Seq(T) \ P}
<1>1. SUFFICES ASSUME B # {} PROVE FALSE
  OBVIOUS
<1>2. B \in SUBSET Nat
  OBVIOUS
<1>3. PICK n \in B : \A k \in B : n <= k
  <2> HIDE DEF B
  <2> QED BY <1>1, <1>2, LeastNat
<1>4. PICK s \in Seq(T) \ P : Len(s) = n
  BY <1>3
<1> DEFINE r == SubSeq(s, 1, Len(s) - 1)
<1>5. s # <<>>
  OBVIOUS
<1>6. r \in Seq(T) /\ s[Len(s)] \in T /\ s = Append(r, s[Len(s)]) /\ Len(r) < n
  BY <1>4, <1>5
<1>7. r \in P
  <2>1. SUFFICES ASSUME r \notin P PROVE FALSE
    OBVIOUS
  <2> HIDE DEF r
  <2>2. Len(r) \in B /\ Len(r) \in Nat
    BY <1>6, <2>1
  <2>3. n <= Len(r)
    <3> HIDE DEF B
    <3> QED BY <1>3, <2>2
  <2>4. n \in Nat
    BY <1>2
  <2> HIDE DEF B
  <2> QED BY <1>6, <2>2, <2>3, <2>4
<1> HIDE DEF r
<1> QED BY <1>6, <1>7

LEMMA FlattenEmpty == FlattenSeq(<<>>) = <<>>
BY DEF FlattenSeq

\* Flattening sequences over T gives a sequence over T.
LEMMA FlattenTyped ==
  ASSUME NEW T, NEW ss \in Seq(Seq(T))
  PROVE  FlattenSeq(ss) \in Seq(T)
<1>1. CASE ss = <<>>
  <2>1. FlattenSeq(ss) = <<>>
    BY <1>1, FlattenEmpty
  <2> QED BY <2>1
<1>2. CASE ss # <<>>
  <2>1. Len(ss) \in 1 .. Len(ss)
    BY <1>2
  <2>2. PICK g \in [1 .. Len(ss) -> Seq(T)] : FlattenSeq(ss) = g[Len(ss)]
    BY <1>2, FlattenDefined
  <2> QED BY <2>1, <2>2
<1> QED BY <1>1, <1>2

\* One more sequence is flattened behind the others.
LEMMA FlattenAppend ==
  ASSUME NEW T, NEW ss \in Seq(Seq(T)), NEW s \in Seq(T)
  PROVE  FlattenSeq(Append(ss, s)) = FlattenSeq(ss) \o s
<1> DEFINE tt == Append(ss, s)
           n == Len(ss)
<1>1. tt \in Seq(Seq(T)) /\ tt # <<>> /\ Len(tt) = n + 1 /\ tt[n + 1] = s /\ n \in Nat
  <2>1. n \in Nat
    OBVIOUS
  <2>2. tt \in Seq(Seq(T))
    OBVIOUS
  <2>3. Len(tt) = n + 1 /\ tt[n + 1] = s
    OBVIOUS
  <2>4. tt # <<>>
    <3> HIDE DEF tt, n
    <3> QED BY <2>1, <2>3
  <2> QED BY <2>1, <2>2, <2>3, <2>4
<1>1a. \A i \in 1 .. n : tt[i] = ss[i]
  OBVIOUS
<1>1b. n = 0 => ss = <<>>
  OBVIOUS
<1> HIDE DEF tt
<1>2. PICK h \in [1 .. Len(tt) -> Seq(T)] :
        /\ h[1] = tt[1]
        /\ \A i \in 2 .. Len(tt) : h[i] = h[i - 1] \o tt[i]
        /\ FlattenSeq(tt) = h[Len(tt)]
  BY <1>1, FlattenDefined
<1>2a. /\ h[1] = tt[1]
       /\ \A i \in 2 .. n + 1 : h[i] = h[i - 1] \o tt[i]
       /\ FlattenSeq(tt) = h[n + 1]
  <2> HIDE DEF n
  <2> QED BY <1>1, <1>2
<1>3. CASE n = 0
  <2>1. FlattenSeq(ss) = <<>>
    BY <1>3, <1>1b, FlattenEmpty
  <2>2. FlattenSeq(tt) = s
    BY <1>1, <1>2a, <1>3
  <2> QED BY <2>1, <2>2 DEF tt
<1>4. CASE n # 0
  <2>1. PICK g \in [1 .. n -> Seq(T)] :
          /\ g[1] = ss[1]
          /\ \A i \in 2 .. n : g[i] = g[i - 1] \o ss[i]
          /\ FlattenSeq(ss) = g[n]
    <3>1. ss # <<>>
      BY <1>4
    <3> QED BY <3>1, FlattenDefined
  <2> DEFINE B == {i \in 1 .. n : h[i] # g[i]}
  <2>2. B = {}
    <3>1. SUFFICES ASSUME B # {} PROVE FALSE
      OBVIOUS
    <3>2. PICK m \in B : \A k \in B : m <= k
      <4>1. B \in SUBSET Nat
        OBVIOUS
      <4> HIDE DEF B
      <4> QED BY <3>1, <4>1, LeastNat
    <3>3. m # 1
      BY <1>2a, <2>1, <1>1a, <1>4, <1>1
    <3>4. m \in 2 .. n /\ m - 1 \in 1 .. n /\ ~ (m <= m - 1) /\ m \in 2 .. n + 1
      BY <3>2, <3>3, <1>1
    <3>5. h[m - 1] = g[m - 1]
      BY <3>2, <3>4
    <3>6. tt[m] = ss[m] /\ h[m] # g[m]
      BY <1>1a, <3>4
    <3> QED BY <1>2a, <2>1, <3>4, <3>5, <3>6
  <2>3. h[n] = g[n] /\ n + 1 \in 2 .. n + 1
    <3>1. n \in 1 .. n
      BY <1>4, <1>1
    <3>2. n + 1 \in 2 .. n + 1
      BY <1>4, <1>1
    <3> HIDE DEF n
    <3> QED BY <2>2, <3>1, <3>2
  <2>4. h[n + 1] = h[n] \o tt[n + 1]
    <3>1. (n + 1) - 1 = n
      BY <1>1
    <3>2. h[n + 1] = h[(n + 1) - 1] \o tt[n + 1]
      <4> HIDE DEF n
      <4> QED BY <1>2a, <2>3
    <3> HIDE DEF n
    <3> QED BY <3>1, <3>2
  <2> QED 
    <3> HIDE DEF n
    <3> QED BY <1>1, <1>2a, <2>1, <2>3, <2>4 DEF tt
<1> QED BY <1>3, <1>4

\* An element behind a concatenation is behind its second part.
LEMMA AppendAfter ==
  ASSUME NEW T, NEW s \in Seq(T), NEW t \in Seq(T), NEW e \in T
  PROVE  s \o Append(t, e) = Append(s \o t, e)
<1> DEFINE l == s \o Append(t, e)
           r == Append(s \o t, e)
<1>1. l \in Seq(T) /\ r \in Seq(T) /\ Len(l) = Len(r)
  OBVIOUS
<1>2. \A i \in 1 .. Len(l) : l[i] = r[i]
  OBVIOUS
<1> HIDE DEF l, r
<1>3. l = r
  BY <1>1, <1>2, SMTT(30)
<1> QED BY <1>3 DEF l, r

\* Flattening goes through a concatenation.
LEMMA FlattenConcat ==
  ASSUME NEW T, NEW ss \in Seq(Seq(T)), NEW tt \in Seq(Seq(T))
  PROVE  FlattenSeq(ss \o tt) = FlattenSeq(ss) \o FlattenSeq(tt)
<1> DEFINE P == {us \in Seq(Seq(T)) : FlattenSeq(ss \o us) = FlattenSeq(ss) \o FlattenSeq(us)}
<1>1. <<>> \in P
  <2>1. ss \o <<>> = ss /\ <<>> \in Seq(Seq(T))
    OBVIOUS
  <2>2. FlattenSeq(ss) \o <<>> = FlattenSeq(ss)
    <3>1. FlattenSeq(ss) \in Seq(T)
      BY FlattenTyped
    <3> QED BY <3>1
  <2> QED BY <2>1, <2>2, FlattenEmpty
<1>2. ASSUME NEW us \in Seq(Seq(T)), NEW s \in Seq(T), us \in P
      PROVE  Append(us, s) \in P
  <2>1. ss \o us \in Seq(Seq(T)) /\ Append(ss \o us, s) = ss \o Append(us, s)
    <3>1. ss \o us \in Seq(Seq(T))
      OBVIOUS
    <3>2. ss \o Append(us, s) = Append(ss \o us, s)
      BY AppendAfter, SMTT(30)
    <3> QED BY <3>1, <3>2
  <2>2. FlattenSeq(ss \o Append(us, s)) = FlattenSeq(ss \o us) \o s
    BY <2>1, FlattenAppend
  <2>3. FlattenSeq(Append(us, s)) = FlattenSeq(us) \o s
    BY FlattenAppend
  <2>4. FlattenSeq(ss) \in Seq(T) /\ FlattenSeq(us) \in Seq(T)
    BY FlattenTyped
  <2>5. (FlattenSeq(ss) \o FlattenSeq(us)) \o s = FlattenSeq(ss) \o (FlattenSeq(us) \o s)
    BY <2>4, SMTT(30)
  <2>6. Append(us, s) \in Seq(Seq(T))
    OBVIOUS
  <2>7. FlattenSeq(ss \o us) = FlattenSeq(ss) \o FlattenSeq(us)
    BY <1>2
  <2> QED BY <2>2, <2>3, <2>5, <2>6, <2>7, Zenon
<1>3. \A us \in Seq(Seq(T)) : us \in P
  <2> HIDE DEF P
  <2> QED BY <1>1, <1>2, SeqInduction
<1> QED BY <1>3

\* The elements of a concatenation.
LEMMA ConcatElements ==
  ASSUME NEW T, NEW f \in Seq(T), NEW s \in Seq(T)
  PROVE  ToSet(f \o s) = ToSet(f) \cup ToSet(s)
<1>1. ASSUME NEW e \in ToSet(f \o s) PROVE e \in ToSet(f) \/ e \in ToSet(s)
  <2>1. PICK i \in 1 .. Len(f) + Len(s) : e = (f \o s)[i]
    BY <1>1 DEF ToSet
  <2>2. CASE i <= Len(f)
    BY <2>1, <2>2 DEF ToSet
  <2>3. CASE ~ (i <= Len(f))
    <3>1. i - Len(f) \in 1 .. Len(s) /\ e = s[i - Len(f)]
      BY <2>1, <2>3
    <3> QED BY <3>1 DEF ToSet
  <2> QED BY <2>2, <2>3
<1>2. ASSUME NEW e \in ToSet(f) PROVE e \in ToSet(f \o s)
  <2>1. PICK i \in 1 .. Len(f) : e = f[i]
    BY <1>2 DEF ToSet
  <2>2. i \in DOMAIN (f \o s) /\ (f \o s)[i] = e
    BY <2>1
  <2> QED BY <2>2 DEF ToSet
<1>3. ASSUME NEW e \in ToSet(s) PROVE e \in ToSet(f \o s)
  <2>1. PICK i \in 1 .. Len(s) : e = s[i]
    BY <1>3 DEF ToSet
  <2>2. Len(f) + i \in DOMAIN (f \o s) /\ (f \o s)[Len(f) + i] = e
    BY <2>1
  <2> QED BY <2>2 DEF ToSet
<1> QED BY <1>1, <1>2, <1>3

\* The elements of a flattened sequence are those of its parts.
LEMMA FlattenElements ==
  ASSUME NEW T, NEW ss \in Seq(Seq(T)), NEW e
  PROVE  e \in ToSet(FlattenSeq(ss)) <=> \E i \in DOMAIN ss : e \in ToSet(ss[i])
<1> DEFINE Member(us) == \E i \in DOMAIN us : e \in ToSet(us[i])
           P == {us \in Seq(Seq(T)) : e \in ToSet(FlattenSeq(us)) <=> Member(us)}
<1>1. <<>> \in P
  <2>1. <<>> \in Seq(Seq(T)) /\ ~Member(<<>>) /\ ToSet(<<>>) = {}
    BY DEF ToSet
  <2> HIDE DEF Member
  <2> QED BY <2>1, FlattenEmpty
<1>2. ASSUME NEW us \in Seq(Seq(T)), NEW s \in Seq(T), us \in P
      PROVE  Append(us, s) \in P
  <2>1. FlattenSeq(Append(us, s)) = FlattenSeq(us) \o s /\ FlattenSeq(us) \in Seq(T)
    BY FlattenAppend, FlattenTyped
  <2>2. e \in ToSet(FlattenSeq(us) \o s) <=> e \in ToSet(FlattenSeq(us)) \/ e \in ToSet(s)
    BY <2>1, ConcatElements
  <2>3. Member(Append(us, s)) <=> Member(us) \/ e \in ToSet(s)
    <3> DEFINE vs == Append(us, s)
    <3>1. /\ DOMAIN vs = 1 .. Len(us) + 1 /\ DOMAIN us = 1 .. Len(us) /\ Len(us) \in Nat
          /\ \A i \in 1 .. Len(us) : vs[i] = us[i]
          /\ vs[Len(us) + 1] = s
      OBVIOUS
    <3> HIDE DEF vs
    <3>2. \A i \in 1 .. Len(us) + 1 : i \in 1 .. Len(us) \/ i = Len(us) + 1
      BY <3>1
    <3>3. \A i \in 1 .. Len(us) : i \in 1 .. Len(us) + 1
      BY <3>1
    <3>4. Len(us) + 1 \in 1 .. Len(us) + 1
      BY <3>1
    <3> QED BY <3>1, <3>2, <3>3, <3>4 DEF vs
  <2>4. Append(us, s) \in Seq(Seq(T))
    OBVIOUS
  <2>5. e \in ToSet(FlattenSeq(us)) <=> Member(us)
    BY <1>2
  <2>6. e \in ToSet(FlattenSeq(Append(us, s))) <=> Member(Append(us, s))
    <3> HIDE DEF Member
    <3> QED BY <2>1, <2>2, <2>3, <2>5
  <2> HIDE DEF Member
  <2> QED BY <2>4, <2>6
<1>3. \A us \in Seq(Seq(T)) : us \in P
  <2> HIDE DEF P
  <2> QED BY <1>1, <1>2, SeqInduction
<1> QED BY <1>3

LEMMA ElementsTyped ==
  ASSUME NEW T, NEW s \in Seq(T), NEW e \in ToSet(s)
  PROVE  e \in T
BY DEF ToSet

\* FlattenElements and FlattenTyped for the results of a function on a sequence.
LEMMA FlattenMapped ==
  ASSUME NEW T, NEW S, NEW s \in Seq(S), NEW ss, DOMAIN ss = DOMAIN s, ss
        = [i \in DOMAIN s |-> ss[i]],
         \A i \in DOMAIN s : ss[i] \in Seq(T)
  PROVE  /\ FlattenSeq(ss) \in Seq(T)
         /\ \A e : e \in ToSet(FlattenSeq(ss)) <=> \E i \in DOMAIN s : e \in ToSet(ss[i])
<1>1. DOMAIN s = 1 .. Len(s) /\ Len(s) \in Nat
  OBVIOUS
<1>2. ss \in Seq(Seq(T))
  BY <1>1
<1>3. ASSUME NEW e
      PROVE  e \in ToSet(FlattenSeq(ss)) <=> \E i \in DOMAIN s : e \in ToSet(ss[i])
  <2>1. e \in ToSet(FlattenSeq(ss)) <=> \E i \in DOMAIN ss : e \in ToSet(ss[i])
    BY <1>2, FlattenElements
  <2> QED BY <2>1
<1> QED BY <1>2, <1>3, FlattenTyped

Associates(a, b, c) == (a \o b) \o c = a \o (b \o c)

LEMMA ConcatAssociates ==
  ASSUME NEW T, NEW a \in Seq(T), NEW b \in Seq(T), NEW c \in Seq(T)
  PROVE  Associates(a, b, c)
<1>1. (a \o b) \o c = a \o (b \o c)
  BY ConcatAssociative
<1> QED BY <1>1, Zenon DEF Associates

Regroups(a, b, c, d) == a \o ((b \o c) \o d) = (a \o b) \o (c \o d)

\* Concatenations regroup.
LEMMA ConcatOfThree ==
  ASSUME NEW T, NEW a \in Seq(T), NEW b \in Seq(T), NEW c \in Seq(T), NEW d \in Seq(T)
  PROVE  Regroups(a, b, c, d)
<1>1. c \o d \in Seq(T)
  OBVIOUS
<1>2. Associates(b, c, d) /\ Associates(a, b, c \o d)
  BY <1>1, ConcatAssociates, Zenon
<1> QED BY <1>2, Zenon DEF Regroups, Associates

\* What is known of a sequence with one element more.
LEMMA Appended ==
  ASSUME NEW T, NEW s \in Seq(T), NEW e \in T
  PROVE  /\ Append(s, e) \in Seq(T) /\ Len(s) \in Nat /\ Len(Append(s, e)) = Len(s) + 1
         /\ DOMAIN s = 1 .. Len(s) /\ DOMAIN Append(s, e) = 1 .. Len(s) + 1
         /\ \A i \in 1 .. Len(s) : Append(s, e)[i] = s[i] /\ i \in 1 .. Len(s) + 1
         /\ Append(s, e)[Len(s) + 1] = e /\ Len(s) + 1 \in 1 .. Len(s) + 1
         /\ \A i \in 1 .. Len(s) + 1 : i \in 1 .. Len(s) \/ i = Len(s) + 1
OBVIOUS

\* A result is appended to the flattened results of a sequence when the sequence grows.
LEMMA FlattenGrows ==
  ASSUME NEW T, NEW ss \in Seq(Seq(T)), NEW tt,
         tt = [i \in 1 .. Len(ss) + 1 |-> tt[i]],
         \A i \in 1 .. Len(ss) : tt[i] = ss[i],
         tt[Len(ss) + 1] \in Seq(T)
  PROVE  FlattenSeq(tt) = FlattenSeq(ss) \o tt[Len(ss) + 1] /\ FlattenSeq(ss) \in Seq(T)
<1>1. Len(ss) \in Nat
  OBVIOUS
<1>2. PICK s \in Seq(T) : s = tt[Len(ss) + 1]
  OBVIOUS
<1> DEFINE uu == Append(ss, s)
<1>3. /\ DOMAIN uu = 1 .. Len(ss) + 1 /\ uu = [i \in 1 .. Len(ss) + 1 |-> uu[i]]
      /\ uu[Len(ss) + 1] = s /\ \A i \in 1 .. Len(ss) : uu[i] = ss[i]
  <2>1. DOMAIN uu = 1 .. Len(ss) + 1 /\ uu[Len(ss) + 1] = s /\ uu \in Seq(Seq(T))
        /\ \A i \in 1 .. Len(ss) : uu[i] = ss[i]
    BY Appended
  <2> HIDE DEF uu
  <2>2. uu = [i \in DOMAIN uu |-> uu[i]]
    BY <2>1
  <2> QED BY <2>1, <2>2
<1>4. FlattenSeq(uu) = FlattenSeq(ss) \o s
  BY FlattenAppend
<1> HIDE DEF uu
<1>5. \A i \in 1 .. Len(ss) + 1 : i \in 1 .. Len(ss) \/ i = Len(ss) + 1
  BY <1>1
<1>6. \A i \in 1 .. Len(ss) + 1 : tt[i] = uu[i]
  BY <1>2, <1>3, <1>5
<1>7. tt = uu
  BY <1>3, <1>6
<1> QED BY <1>2, <1>4, <1>7, FlattenTyped

\* The elements other than none.
Given(texts, none) ==
  FlattenSeq([i \in DOMAIN texts |-> IF texts[i] # none THEN <<texts[i]>> ELSE <<>>])

\* One element more is among them, unless it is none.
LEMMA GivenAppend ==
  ASSUME NEW T, NEW none, NEW ts \in Seq(T), NEW t \in T
  PROVE  /\ Given(ts, none) \in Seq(T)
         /\ Given(Append(ts, t), none) = IF t # none THEN Append(Given(ts, none), t)
                                         ELSE Given(ts, none)
<1> DEFINE own(x) == IF x # none THEN <<x>> ELSE <<>>
           ss == [k \in DOMAIN ts |-> own(ts[k])]
           es == Append(ts, t)
           tt == [k \in DOMAIN es |-> own(es[k])]
<1>1. \A x \in T : own(x) \in Seq(T)
  OBVIOUS
<1>2. Given(ts, none) = FlattenSeq(ss) /\ Given(es, none) = FlattenSeq(tt)
  BY DEF Given
<1>3. /\ DOMAIN ts = 1 .. Len(ts) /\ Len(ts) \in Nat /\ DOMAIN es = 1 .. Len(ts) + 1
      /\ \A k \in 1 .. Len(ts) : es[k] = ts[k] /\ k \in 1 .. Len(ts) + 1 /\ ts[k] \in T
      /\ es[Len(ts) + 1] = t /\ Len(ts) + 1 \in 1 .. Len(ts) + 1
  <2>1. \A k \in DOMAIN ts : ts[k] \in T
    OBVIOUS
  <2> QED BY <2>1, Appended
<1> HIDE DEF es, own
<1>4. ss \in Seq(Seq(T)) /\ Len(ss) = Len(ts)
  BY <1>1, <1>3
<1>5. /\ tt = [i \in 1 .. Len(ss) + 1 |-> tt[i]] /\ tt[Len(ss) + 1] = own(t)
      /\ \A i \in 1 .. Len(ss) : tt[i] = ss[i]
  BY <1>3, <1>4
<1> HIDE DEF ss, tt
<1>6. FlattenSeq(tt) = FlattenSeq(ss) \o own(t) /\ FlattenSeq(ss) \in Seq(T)
  <2>1. tt[Len(ss) + 1] \in Seq(T)
    BY <1>1, <1>5
  <2>2. FlattenSeq(tt) = FlattenSeq(ss) \o tt[Len(ss) + 1] /\ FlattenSeq(ss) \in Seq(T)
    BY <1>4, <1>5, <2>1, FlattenGrows
  <2> QED BY <1>5, <2>2
<1>7. PICK s \in Seq(T) : s = FlattenSeq(ss)
  BY <1>6
<1>8. s \o own(t) = IF t # none THEN Append(s, t) ELSE s
  BY DEF own
<1> QED BY <1>2, <1>6, <1>7, <1>8 DEF es

\* The last element of a sequence with one more is that one.
LEMMA LastAppended ==
  ASSUME NEW T, NEW s \in Seq(T), NEW e \in T
  PROVE  /\ Append(s, e) # <<>> /\ Last(Append(s, e)) = e
         /\ s # <<>> => Last(s) \in T
BY DEF Last

\* What holds of 0 and goes on from one number to the next holds up to the last.
LEMMA UpTo ==
  ASSUME NEW n \in Nat, NEW P, 0 \in P, \A i \in 1 .. n : i - 1 \in P => i \in P
  PROVE  \A i \in 0 .. n : i \in P
<1> DEFINE B == {i \in 0 .. n : i \notin P}
<1>1. SUFFICES ASSUME B # {} PROVE FALSE
  OBVIOUS
<1>2. PICK m \in B : \A k \in B : m <= k
  <2>1. B \in SUBSET Nat
    OBVIOUS
  <2> HIDE DEF B
  <2> QED BY <1>1, <2>1, LeastNat
<1>3. m \in 1 .. n /\ m - 1 \in 0 .. n /\ ~ (m <= m - 1)
  OBVIOUS
<1> QED BY <1>2, <1>3

\* The first i elements.
First(s, i) == [k \in 1 .. i |-> s[k]]

\* The first i are the elements before and the one at i.
LEMMA FirstNext ==
  ASSUME NEW T, NEW s \in Seq(T), NEW i \in 1 .. Len(s)
  PROVE  /\ First(s, i) = Append(First(s, i - 1), s[i])
         /\ First(s, i) \in Seq(T) /\ First(s, i - 1) \in Seq(T) /\ s[i] \in T
<1> DEFINE p == First(s, i - 1)
           q == First(s, i)
           e == s[i]
<1>1. e \in T /\ i \in Nat /\ i - 1 \in Nat /\ Len(s) \in Nat
  OBVIOUS
<1>2. p \in Seq(T) /\ Len(p) = i - 1 /\ q \in Seq(T) /\ Len(q) = i
  BY DEF First
<1>3. \A k \in 1 .. i - 1 : p[k] = s[k] /\ q[k] = s[k]
  BY DEF First
<1>4. q[i] = e
  BY DEF First
<1> HIDE DEF p, q, e
<1>5. Append(p, e) \in Seq(T) /\ Len(Append(p, e)) = i
      /\ \A k \in 1 .. i : Append(p, e)[k] = q[k]
  BY <1>1, <1>2, <1>3, <1>4
<1> PICK r : r = Append(p, e)
  OBVIOUS
<1>6. r = q
  BY <1>2, <1>5
<1> QED BY <1>1, <1>2, <1>6 DEF p, q, e

-----------------------------------------------------------------------------
(***************************************************************************)
(* What a list lists: b gives every position its own member of X, and the   *)
(* element there is what F makes of that member.                            *)
(***************************************************************************)
ListedBy(b, L, X, F) ==
  /\ b \in [DOMAIN L -> X]
  /\ \A i, j \in DOMAIN L : b[i] = b[j] => i = j
  /\ \A x \in X : \E i \in DOMAIN L : b[i] = x
  /\ \A i \in DOMAIN L : L[i] = F[b[i]]

Lists(L, X, F) == \E b : ListedBy(b, L, X, F)

\* The empty list lists nothing.
LEMMA ListsNone ==
  ASSUME NEW F
  PROVE  Lists(<<>>, {}, F)
<1>1. ListedBy(<<>>, <<>>, {}, F)
  <2>1. DOMAIN <<>> = {} /\ <<>> \in [{} -> {}]
    OBVIOUS
  <2> QED BY <2>1 DEF ListedBy
<1> QED BY <1>1 DEF Lists

\* A list of one element lists one member.
LEMMA ListsOne ==
  ASSUME NEW F, NEW x, NEW e, e = F[x]
  PROVE  Lists(<<e>>, {x}, F)
<1> DEFINE b == [i \in 1 .. 1 |-> x]
           L == <<e>>
<1>1. DOMAIN L = 1 .. 1 /\ L[1] = e /\ \A i \in 1 .. 1 : i = 1
  OBVIOUS
<1> HIDE DEF L
<1>2. b \in [1 .. 1 -> {x}] /\ b[1] = x /\ 1 \in 1 .. 1
  OBVIOUS
<1> HIDE DEF b
<1>3. ListedBy(b, L, {x}, F)
  BY <1>1, <1>2 DEF ListedBy
<1> QED BY <1>3 DEF Lists, L

\* Every list lists its positions.
LEMMA ListsPositions ==
  ASSUME NEW L
  PROVE  Lists(L, DOMAIN L, L)
<1>1. ListedBy([i \in DOMAIN L |-> i], L, DOMAIN L, L)
  BY DEF ListedBy
<1> QED BY <1>1 DEF Lists

\* The elements of a list are what its members make.
LEMMA ListsElements ==
  ASSUME NEW L, NEW X, NEW F, Lists(L, X, F)
  PROVE  \A e : e \in ToSet(L) <=> \E x \in X : e = F[x]
BY DEF Lists, ListedBy, ToSet

\* Elements are different exactly when different members make different ones.
LEMMA ListsInjective ==
  ASSUME NEW L, NEW X, NEW F, Lists(L, X, F)
  PROVE  IsInjective(L) <=> \A x, y \in X : F[x] = F[y] => x = y
<1> PICK b : ListedBy(b, L, X, F)
  BY DEF Lists
<1>1. ASSUME IsInjective(L), NEW x \in X, NEW y \in X, F[x] = F[y] PROVE x = y
  <2>1. PICK i \in DOMAIN L, j \in DOMAIN L : b[i] = x /\ b[j] = y
    BY DEF ListedBy
  <2>2. L[i] = L[j]
    BY <1>1, <2>1 DEF ListedBy
  <2> QED BY <1>1, <2>1, <2>2 DEF IsInjective
<1>2. ASSUME \A x, y \in X : F[x] = F[y] => x = y,
             NEW i \in DOMAIN L, NEW j \in DOMAIN L, L[i] = L[j]
      PROVE  i = j
  <2>1. b[i] \in X /\ b[j] \in X /\ F[b[i]] = F[b[j]]
    BY <1>2 DEF ListedBy
  <2> QED BY <1>2, <2>1 DEF ListedBy
<1> QED BY <1>1, <1>2 DEF IsInjective

\* A list lists whatever stands one to one for its members.
LEMMA ListsAlong ==
  ASSUME NEW L, NEW X, NEW F, Lists(L, X, F), NEW Y, NEW H, NEW G \in [X -> Y],
         \A x, y \in X : G[x] = G[y] => x = y,
         \A y \in Y : \E x \in X : G[x] = y,
         \A x \in X : H[G[x]] = F[x]
  PROVE  Lists(L, Y, H)
<1> PICK b : ListedBy(b, L, X, F)
  BY DEF Lists
<1> DEFINE g == [i \in DOMAIN L |-> G[b[i]]]
<1>1. g \in [DOMAIN L -> Y] /\ \A i \in DOMAIN L : g[i] = G[b[i]] /\ b[i] \in X
  BY DEF ListedBy
<1> HIDE DEF g
<1>2. \A i \in DOMAIN L : L[i] = H[g[i]]
  BY <1>1 DEF ListedBy
<1>3. \A i, j \in DOMAIN L : g[i] = g[j] => i = j
  BY <1>1 DEF ListedBy
<1>4. \A y \in Y : \E i \in DOMAIN L : g[i] = y
  BY <1>1 DEF ListedBy
<1>5. ListedBy(g, L, Y, H)
  BY <1>1, <1>2, <1>3, <1>4 DEF ListedBy
<1> QED BY <1>5 DEF Lists

\* The same members may make the same elements in another way.
LEMMA ListsAs ==
  ASSUME NEW L, NEW X, NEW F, Lists(L, X, F), NEW H, \A x \in X : H[x] = F[x]
  PROVE  Lists(L, X, H)
BY DEF Lists, ListedBy

\* What a function makes of a list's elements lists what it makes of the members.
LEMMA ListsOf ==
  ASSUME NEW L, NEW X, NEW F, Lists(L, X, F), NEW M, NEW H, DOMAIN M = DOMAIN L,
         \A i \in DOMAIN L : \A x \in X : L[i] = F[x] => M[i] = H[x]
  PROVE  Lists(M, X, H)
BY DEF Lists, ListedBy

\* One list behind the other lists the members of both.
LEMMA ListsConcat ==
  ASSUME NEW T, NEW s \in Seq(T), NEW t \in Seq(T), NEW X, NEW Y, NEW F,
         Lists(s, X, F), Lists(t, Y, F), X \cap Y = {}
  PROVE  Lists(s \o t, X \cup Y, F)
<1> PICK b, d : ListedBy(b, s, X, F) /\ ListedBy(d, t, Y, F)
  BY DEF Lists
<1> DEFINE m == Len(s)
           n == Len(t)
           L == s \o t
           g == [i \in 1 .. m + n |-> IF i <= m THEN b[i] ELSE d[i - m]]
<1>1. /\ m \in Nat /\ n \in Nat /\ DOMAIN s = 1 .. m /\ DOMAIN t = 1 .. n
      /\ DOMAIN L = 1 .. m + n
      /\ \A i \in 1 .. m + n : L[i] = IF i <= m THEN s[i] ELSE t[i - m]
  OBVIOUS
<1>2. /\ \A i \in 1 .. m + n : i <= m => i \in 1 .. m
      /\ \A i \in 1 .. m + n : ~ (i <= m) => i - m \in 1 .. n
  BY <1>1
<1>3. \A i \in 1 .. m + n : g[i] = IF i <= m THEN b[i] ELSE d[i - m]
  OBVIOUS
<1>4. DOMAIN g = 1 .. m + n /\ g = [i \in DOMAIN g |-> g[i]]
  OBVIOUS
<1>5. \A i \in 1 .. n : m + i \in 1 .. m + n /\ ~ (m + i <= m) /\ (m + i) - m = i
  BY <1>1
<1>6. \A i \in 1 .. m : i \in 1 .. m + n /\ i <= m
  BY <1>1
<1>7. \A i, j \in 1 .. m + n : i - m = j - m => i = j
  BY <1>1
<1> HIDE DEF g, L, m, n
<1>8. g \in [1 .. m + n -> X \cup Y]
  BY <1>1, <1>2, <1>3, <1>4 DEF ListedBy
<1>9. ASSUME NEW i \in 1 .. m + n, NEW j \in 1 .. m + n, g[i] = g[j] PROVE i = j
  <2>1. /\ \A k, l \in 1 .. m : b[k] = b[l] => k = l
        /\ \A k, l \in 1 .. n : d[k] = d[l] => k = l
        /\ (\A k \in 1 .. m : b[k] \in X) /\ (\A k \in 1 .. n : d[k] \in Y)
    BY <1>1 DEF ListedBy
  <2>2. CASE i <= m /\ j <= m
    BY <1>2, <1>3, <1>9, <2>1, <2>2
  <2>3. CASE ~ (i <= m) /\ ~ (j <= m)
    BY <1>2, <1>3, <1>7, <1>9, <2>1, <2>3
  <2>4. CASE ~ (i <= m <=> j <= m)
    BY <1>2, <1>3, <1>9, <2>1, <2>4
  <2> QED BY <2>2, <2>3, <2>4
<1>10. \A x \in X \cup Y : \E i \in 1 .. m + n : g[i] = x
  <2>1. ASSUME NEW x \in X PROVE \E i \in 1 .. m + n : g[i] = x
    BY <1>1, <1>3, <1>6 DEF ListedBy
  <2>2. ASSUME NEW x \in Y PROVE \E i \in 1 .. m + n : g[i] = x
    <3>1. PICK i \in 1 .. n : d[i] = x
      BY <1>1 DEF ListedBy
    <3>2. g[m + i] = x
      BY <1>3, <1>5, <3>1
    <3> QED BY <1>5, <3>2
  <2> QED BY <2>1, <2>2
<1>11. \A i \in 1 .. m + n : L[i] = F[g[i]]
  <2>1. /\ \A k \in 1 .. m : s[k] = F[b[k]]
        /\ \A k \in 1 .. n : t[k] = F[d[k]]
    BY <1>1 DEF ListedBy
  <2> QED BY <1>1, <1>2, <1>3, <2>1
<1>12. ListedBy(g, L, X \cup Y, F)
  BY <1>1, <1>8, <1>9, <1>10, <1>11 DEF ListedBy
<1> QED BY <1>12 DEF Lists, L

Apart(X, n) == \A i, j \in 1 .. n : i # j => X[i] \cap X[j] = {}

\* Lists of disjoint sets, flattened, list all their members.
LEMMA ListsFlatten ==
  ASSUME NEW T, NEW ss \in Seq(Seq(T)), NEW X, NEW F, Apart(X, Len(ss)),
         \A i \in 1 .. Len(ss) : Lists(ss[i], X[i], F)
  PROVE  Lists(FlattenSeq(ss), UNION {X[i] : i \in 1 .. Len(ss)}, F)
<1> DEFINE n == Len(ss)
           U(k) == UNION {X[i] : i \in 1 .. k}
           P == {k \in Nat : Lists(FlattenSeq(First(ss, k)), U(k), F)}
<1>1. n \in Nat /\ First(ss, n) = ss /\ First(ss, 0) = <<>>
  BY DEF First
<1>2. 0 \in P
  <2>1. U(0) = {}
    OBVIOUS
  <2> HIDE DEF U
  <2> QED BY <1>1, <2>1, FlattenEmpty, ListsNone
<1>3. ASSUME NEW k \in 1 .. n, k - 1 \in P PROVE k \in P
  <2> DEFINE f == FlattenSeq(First(ss, k - 1))
             s == ss[k]
             V == U(k - 1)
  <2>1. /\ First(ss, k) = Append(First(ss, k - 1), s)
        /\ First(ss, k - 1) \in Seq(Seq(T)) /\ s \in Seq(T)
    BY FirstNext
  <2>2. FlattenSeq(First(ss, k)) = f \o s /\ f \in Seq(T)
    BY <2>1, FlattenAppend, FlattenTyped
  <2>3. \A i \in 1 .. k - 1 : i \in 1 .. n /\ i # k /\ i \in 1 .. k
    BY <1>1
  <2>4. \A i \in 1 .. k : i \in 1 .. k - 1 \/ i = k
    OBVIOUS
  <2>5. V \cap X[k] = {}
    BY <2>3 DEF Apart
  <2>6. U(k) = V \cup X[k] /\ k \in Nat /\ k \in 1 .. k
    BY <2>3, <2>4
  <2>7. Lists(f, V, F) /\ Lists(s, X[k], F)
    BY <1>3
  <2> HIDE DEF f, s, V, U, n
  <2>8. Lists(f \o s, V \cup X[k], F)
    BY <2>1, <2>2, <2>5, <2>7, ListsConcat
  <2> QED BY <2>2, <2>6, <2>8
<1>4. n \in P
  <2>1. \A k \in 0 .. n : k \in P
    <3> HIDE DEF P, n
    <3> QED BY <1>1, <1>2, <1>3, UpTo
  <2> HIDE DEF P
  <2> QED BY <1>1, <2>1
<1> HIDE DEF n, U
<1>5. Lists(FlattenSeq(First(ss, n)), U(n), F)
  BY <1>4
<1> QED BY <1>1, <1>5 DEF n, U

Spots(ss) == UNION {{i} \X DOMAIN ss[i] : i \in 1 .. Len(ss)}

\* A flattened list lists the positions of its parts.
LEMMA FlattenSpots ==
  ASSUME NEW T, NEW ss \in Seq(Seq(T))
  PROVE  /\ \A p : p \in Spots(ss) <=>
              \E i \in 1 .. Len(ss) : \E k \in DOMAIN ss[i] : p = <<i, k>>
         /\ Lists(FlattenSeq(ss), Spots(ss), [p \in Spots(ss) |-> ss[p[1]][p[2]]])
<1> DEFINE n == Len(ss)
           X == [i \in 1 .. n |-> {i} \X DOMAIN ss[i]]
           A == UNION {X[i] : i \in 1 .. n}
           F == [p \in A |-> ss[p[1]][p[2]]]
<1>1. \A p : p \in A <=> \E i \in 1 .. n : \E k \in DOMAIN ss[i] : p = <<i, k>>
  OBVIOUS
<1>2. \A i \in 1 .. n : \A k \in DOMAIN ss[i] : <<i, k>> \in A /\ F[<<i, k>>] = ss[i][k]
  BY <1>1
<1>3. Apart(X, n)
  BY DEF Apart
<1>4. \A i \in 1 .. n : Lists(ss[i], X[i], F)
  <2> SUFFICES ASSUME NEW i \in 1 .. n PROVE Lists(ss[i], X[i], F)
    OBVIOUS
  <2> DEFINE D == DOMAIN ss[i]
             G == [k \in D |-> <<i, k>>]
  <2>1. Lists(ss[i], D, ss[i])
    BY ListsPositions
  <2>2. G \in [D -> X[i]] /\ \A k \in D : G[k] = <<i, k>>
    OBVIOUS
  <2>3. \A y \in X[i] : \E k \in D : y = <<i, k>>
    OBVIOUS
  <2>4. \A k \in D : F[G[k]] = ss[i][k]
    BY <1>2, <2>2
  <2> PICK s, Y : s = ss[i] /\ Y = X[i]
    OBVIOUS
  <2> HIDE DEF G, X, F, D
  <2>5. Lists(s, D, s) /\ G \in [D -> Y]
    BY <2>1, <2>2
  <2>6. \A x, y \in D : G[x] = G[y] => x = y
    BY <2>2
  <2>7. \A y \in Y : \E x \in D : G[x] = y
    BY <2>2, <2>3
  <2>8. \A x \in D : F[G[x]] = s[x]
    BY <2>4
  <2>9. Lists(s, Y, F)
    BY ONLY <2>5, <2>6, <2>7, <2>8, ListsAlong
  <2> QED BY <2>9
<1>5. Lists(FlattenSeq(ss), A, F)
  <2> HIDE DEF X, F
  <2> QED BY <1>3, <1>4, ListsFlatten
<1>6. A = Spots(ss)
  BY DEF Spots
<1> QED BY <1>1, <1>5, <1>6

\* A list has every element once exactly when it has as many elements as positions.
LEMMA AllDifferent ==
  ASSUME NEW T, NEW s \in Seq(T)
  PROVE  IsInjective(s) <=> Cardinality(ToSet(s)) = Len(s)
<1>1. DOMAIN s = 1 .. Len(s) /\ Len(s) \in Nat
  OBVIOUS
<1>2. s \in Surjection(1 .. Len(s), ToSet(s))
  BY <1>1 DEF Surjection, ToSet
<1>3. IsFiniteSet(1 .. Len(s)) /\ Cardinality(1 .. Len(s)) = Len(s)
  BY <1>1, FS_Interval
<1>4. Cardinality(ToSet(s)) = Cardinality(1 .. Len(s)) <=>
        s \in Injection(1 .. Len(s), ToSet(s))
  BY <1>2, <1>3, FS_Surjection
<1>5. s \in Injection(1 .. Len(s), ToSet(s)) <=> IsInjective(s)
  BY <1>1, <1>2 DEF Injection, Surjection
<1> QED BY <1>3, <1>4, <1>5
=============================================================================

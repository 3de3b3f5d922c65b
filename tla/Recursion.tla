------------------------------ MODULE Recursion -------------------------------
(***************************************************************************)
(* What the proofs need of recursive functions.  A loop over a sequence is *)
(* written as f[n \in 0 .. Len(s)], n being the number of rounds made; the *)
(* compiler and the timelines recur along references, to arguments of      *)
(* lower rank.  Of both it is shown that such a function exists, and that  *)
(* what each round or each rank keeps holds throughout.                    *)
(***************************************************************************)
EXTENDS Integers, SequenceTheorems, FiniteSetTheorems, WellFoundedInduction, TLAPS

\* The least number of a nonempty set of numbers.
LEMMA LeastNat ==
  ASSUME NEW T \in SUBSET Nat, T # {}
  PROVE  \E x \in T : \A y \in T : x <= y
<1>1. IsWellFoundedOn(OpToRel(<, Nat), Nat)
  BY NatLessThanWellFounded
<1>2. PICK x \in T : \A y \in T : ~(<<y, x>> \in OpToRel(<, Nat))
  BY <1>1, WFMin
<1>3. \A y \in T : ~(y < x)
  BY <1>2 DEF OpToRel
<1> QED BY <1>3

\* Induction up to n: a set that each round keeps within has every round.
LEMMA EveryRound ==
  ASSUME NEW n \in Nat, NEW T, 0 \in T, \A i \in 1 .. n : i - 1 \in T => i \in T
  PROVE  \A i \in 0 .. n : i \in T
<1> SUFFICES ASSUME NEW k \in 0 .. n, k \notin T
             PROVE  FALSE
  OBVIOUS
<1> DEFINE U == {i \in 0 .. n : i \notin T}
<1>0. U \in SUBSET Nat /\ U # {}
  OBVIOUS
<1>1. PICK x \in U : \A y \in U : x <= y
  <2> HIDE DEF U
  <2> QED BY <1>0, LeastNat
<1>2. x # 0 /\ x - 1 \in 0 .. n
  OBVIOUS
<1>3. x - 1 \in T
  BY <1>1, <1>2
<1> QED BY <1>2, <1>3

\* f is a function of the rounds up to n.
Over(f, n) == f = [i \in 0 .. n |-> f[i]]

\* Two functions that start alike and step alike are one function.
LEMMA OneLoop ==
  ASSUME NEW n \in Nat, NEW f, NEW g,
         Over(f, n), Over(g, n),
         f[0] = g[0],
         \A i \in 1 .. n : f[i - 1] = g[i - 1] => f[i] = g[i]
  PROVE  f = g
<1> DEFINE T == {i \in 0 .. n : f[i] = g[i]}
<1>1. \A i \in 0 .. n : i \in T
  <2>1. 0 \in T
    OBVIOUS
  <2>2. ASSUME NEW i \in 1 .. n, i - 1 \in T
        PROVE  i \in T
    BY <2>2
  <2> HIDE DEF T
  <2> QED BY <2>1, <2>2, EveryRound
<1>2. [i \in 0 .. n |-> f[i]] = [i \in 0 .. n |-> g[i]]
  BY <1>1
<1> QED BY <1>2 DEF Over

\* A loop of n rounds over values in S.
Loop(f, n, c, step) == f = [i \in 0 .. n |-> IF i = 0 THEN c ELSE step[<<f[i - 1], i>>]]

LEMMA LoopExists ==
  ASSUME NEW n \in Nat, NEW S, NEW c \in S, NEW step \in [S \X (1 .. n) -> S]
  PROVE  \E f \in [0 .. n -> S] : Loop(f, n, c, step)
<1> DEFINE T == {k \in 0 .. n : \E f \in [0 .. k -> S] : Loop(f, k, c, step)}
<1>1. 0 \in T
  <2> DEFINE f == [i \in 0 .. 0 |-> c]
  <2>1. f \in [0 .. 0 -> S] /\ Loop(f, 0, c, step)
    BY DEF Loop
  <2> QED BY <2>1
<1>2. ASSUME NEW k \in 1 .. n, k - 1 \in T
      PROVE  k \in T
  <2>1. PICK f \in [0 .. k - 1 -> S] : Loop(f, k - 1, c, step)
    BY <1>2
  <2> DEFINE g == [i \in 0 .. k |-> IF i = k THEN step[<<f[k - 1], k>>] ELSE f[i]]
  <2>2. f[k - 1] \in S /\ <<f[k - 1], k>> \in S \X (1 .. n)
    BY <2>1
  <2>3. g \in [0 .. k -> S]
    BY <2>1, <2>2
  <2>4. \A i \in 0 .. k : g[i] = IF i = 0 THEN c ELSE step[<<g[i - 1], i>>]
    <3>1. /\ f[0] = c
          /\ \A i \in 1 .. k - 1 : f[i] = step[<<f[i - 1], i>>]
      BY <2>1 DEF Loop
    <3>2. \A i \in 0 .. k - 1 : g[i] = f[i]
      OBVIOUS
    <3>3. g[k] = step[<<f[k - 1], k>>]
      OBVIOUS
    <3> HIDE DEF g
    <3>4. \A i \in 1 .. k - 1 : g[i] = step[<<g[i - 1], i>>]
      <4> SUFFICES ASSUME NEW i \in 1 .. k - 1
                   PROVE  g[i] = step[<<g[i - 1], i>>]
        OBVIOUS
      <4>1. i \in 0 .. k - 1 /\ i - 1 \in 0 .. k - 1
        OBVIOUS
      <4>2. g[i] = f[i] /\ g[i - 1] = f[i - 1]
        BY <3>2, <4>1
      <4> QED BY <3>1, <4>2
    <3>5. g[k - 1] = f[k - 1]
      BY <3>2
    <3>6. g[k] = step[<<g[k - 1], k>>]
      BY <3>3, <3>5
    <3>7. g[0] = c
      BY <3>1, <3>2
    <3>8. SUFFICES ASSUME NEW i \in 1 .. k
                   PROVE  g[i] = step[<<g[i - 1], i>>]
      BY <3>7
    <3>9. i = k \/ i \in 1 .. k - 1
      OBVIOUS
    <3> QED BY <3>4, <3>6, <3>9
  <2>5. Loop(g, k, c, step)
    BY <2>4 DEF Loop
  <2> QED BY <2>3, <2>5
<1>3. n \in T
  <2> HIDE DEF T
  <2>1. \A i \in 0 .. n : i \in T
    BY <1>1, <1>2, EveryRound
  <2> QED BY <2>1
<1> QED BY <1>3

\* Induction by rank: a set that has a member when it has all those of lower
\* rank has every member.
LEMMA ByRank ==
  ASSUME NEW D, NEW w \in [D -> Nat], NEW T,
         \A x \in D : (\A y \in D : w[y] < w[x] => y \in T) => x \in T
  PROVE  D \subseteq T
<1> SUFFICES ASSUME NEW z \in D, z \notin T
             PROVE  FALSE
  OBVIOUS
<1> DEFINE U == {w[x] : x \in {y \in D : y \notin T}}
<1>1. U \in SUBSET Nat /\ U # {}
  OBVIOUS
<1>2. PICK k \in U : \A j \in U : k <= j
  <2> HIDE DEF U
  <2> QED BY <1>1, LeastNat
<1>3. PICK x \in D : x \notin T /\ w[x] = k
  BY <1>2
<1>4. ASSUME NEW y \in D, w[y] < w[x]
      PROVE  y \in T
  <2>1. SUFFICES ASSUME y \notin T PROVE FALSE
    OBVIOUS
  <2>2. w[y] \in U
    BY <2>1
  <2>3. w[x] \in Nat /\ w[y] \in Nat
    OBVIOUS
  <2>4. w[x] <= w[y]
    BY <1>2, <1>3, <2>2
  <2> QED BY <1>4, <2>3, <2>4
<1> QED BY <1>3, <1>4

\* A function whose value at a member of D follows from its values at those of
\* lower rank m, which is at most N: f[x] = step[<<f, x>>].
Ranked(D, V, m, N, step) ==
  /\ m \in [D -> 0 .. N]
  /\ step \in [[D -> V] \X D -> V]
  /\ \A f, g \in [D -> V] : \A x \in D :
       (\A y \in D : m[y] < m[x] => f[y] = g[y]) => step[<<f, x>>] = step[<<g, x>>]

Solves(f, D, V, step) == f \in [D -> V] /\ \A x \in D : f[x] = step[<<f, x>>]

LEMMA RankedExists ==
  ASSUME NEW D, NEW V, NEW v \in V, NEW N \in Nat, NEW m, NEW step, Ranked(D, V, m, N, step)
  PROVE  \E f : Solves(f, D, V, step)
<1> DEFINE S == [D -> V]
           n == N + 2
           round == [p \in S \X (1 .. n) |-> [x \in D |-> step[<<p[1], x>>]]]
           c == [x \in D |-> v]
<1>0. /\ m \in [D -> 0 .. N]
      /\ step \in [S \X D -> V]
      /\ \A f, g \in S : \A x \in D :
           (\A y \in D : m[y] < m[x] => f[y] = g[y]) => step[<<f, x>>] = step[<<g, x>>]
  BY DEF Ranked
<1>1. n \in Nat /\ c \in S /\ round \in [S \X (1 .. n) -> S]
  BY <1>0
<1>2. PICK g \in [0 .. n -> S] : Loop(g, n, c, round)
  <2> HIDE DEF n, S, c, round
  <2> QED BY <1>1, LoopExists
<1>3. ASSUME NEW i \in 1 .. n, NEW x \in D
      PROVE  g[i][x] = step[<<g[i - 1], x>>]
  <2>1. i \in 0 .. n /\ i # 0 /\ i - 1 \in 0 .. n
    OBVIOUS
  <2>2. g[i] = round[<<g[i - 1], i>>]
    BY <1>2, <2>1 DEF Loop
  <2>3. g[i - 1] \in S
    BY <2>1
  <2>4. <<g[i - 1], i>> \in S \X (1 .. n)
    BY <2>3
  <2> HIDE DEF S, n
  <2> QED BY <2>2, <2>4
<1> HIDE DEF S, round, c
<1> DEFINE T == {k \in 0 .. N + 1 : \A x \in D : m[x] < k => g[k][x] = g[k + 1][x]}
<1>4. 0 \in T
  BY <1>0
<1>5. ASSUME NEW k \in 1 .. N + 1, k - 1 \in T
      PROVE  k \in T
  <2> SUFFICES ASSUME NEW x \in D, m[x] < k
               PROVE  g[k][x] = g[k + 1][x]
    OBVIOUS
  <2>1. k \in 1 .. n /\ k + 1 \in 1 .. n /\ k - 1 \in 0 .. n /\ k \in 0 .. n
    OBVIOUS
  <2>2. g[k][x] = step[<<g[k - 1], x>>] /\ g[k + 1][x] = step[<<g[k], x>>]
    BY <1>3, <2>1
  <2>3. ASSUME NEW y \in D, m[y] < m[x]
        PROVE  g[k - 1][y] = g[k][y]
    <3>1. m[y] \in Int /\ m[x] \in Int
      BY <1>0
    <3> QED BY <1>5, <2>3, <3>1
  <2>4. g[k - 1] \in S /\ g[k] \in S
    BY <2>1
  <2> QED BY <1>0, <2>2, <2>3, <2>4
<1>6. N + 1 \in T
  <2> HIDE DEF T, n
  <2>1. N + 1 \in Nat
    OBVIOUS
  <2>2. \A i \in 0 .. N + 1 : i \in T
    BY <1>4, <1>5, <2>1, EveryRound
  <2> QED BY <2>2
<1>7. g[N + 1] \in S
  BY <1>1 DEF n
<1>8. ASSUME NEW x \in D
      PROVE  g[N + 1][x] = step[<<g[N + 1], x>>]
  <2>1. m[x] < N + 1
    BY <1>0
  <2>2. g[N + 1][x] = g[N + 2][x]
    <3>1. N + 1 + 1 = N + 2
      OBVIOUS
    <3> QED BY <1>6, <2>1, <3>1
  <2>3. N + 2 \in 1 .. n /\ N + 2 - 1 = N + 1
    OBVIOUS
  <2> QED BY <1>3, <2>2, <2>3
<1> QED BY <1>7, <1>8 DEF S, Solves

\* Induction over sequences: a set that appending keeps within has them all.
LEMMA EverySeq ==
  ASSUME NEW E, NEW T, <<>> \in T,
         \A s \in Seq(E), e \in E : s \in T => Append(s, e) \in T
  PROVE  Seq(E) \subseteq T
<1> SUFFICES ASSUME NEW s \in Seq(E)
             PROVE  s \in T
  OBVIOUS
<1> DEFINE U == {i \in 0 .. Len(s) : SubSeq(s, 1, i) \in T}
<1>0. Len(s) \in Nat
  OBVIOUS
<1>1. 0 \in U
  <2>1. SubSeq(s, 1, 0) = <<>>
    BY SubSeqEmpty
  <2>2. SubSeq(s, 1, 0) \in T
    BY <2>1, Zenon
  <2>3. 0 \in 0 .. Len(s)
    BY <1>0
  <2> QED BY <2>2, <2>3, Zenon
<1>2. ASSUME NEW i \in 1 .. Len(s), i - 1 \in U
      PROVE  i \in U
  <2>1. SubSeq(s, 1, i - 1) \in Seq(E) /\ s[i] \in E
    BY SubSeqProperties
  <2>2. SubSeq(s, 1, i) = Append(SubSeq(s, 1, i - 1), s[i])
    BY <2>1, SubSeqRecursiveSecond, AppendIsConcat
  <2>3. SubSeq(s, 1, i) \in T
    BY <1>2, <2>1, <2>2
  <2> QED BY <2>3
<1>3. \A i \in 0 .. Len(s) : i \in U
  <2> HIDE DEF U
  <2> QED BY <1>0, <1>1, <1>2, EveryRound
<1>4. SubSeq(s, 1, Len(s)) \in T
  BY <1>0, <1>3
<1> QED BY <1>4, SubSeqFull

\* What a loop over the members of s makes of c: f[i] is its value after i
\* of them.
Folds(f, s, c, step) == f = [i \in 0 .. Len(s) |-> IF i = 0 THEN c ELSE step[<<f[i - 1], s[i]>>]]

Folded(s, c, step) == (CHOOSE f : Folds(f, s, c, step))[Len(s)]

LEMMA FoldsMeans ==
  ASSUME NEW E, NEW s \in Seq(E), NEW c, NEW step, NEW f, Folds(f, s, c, step)
  PROVE  /\ Len(s) \in Nat
         /\ Over(f, Len(s))
         /\ f[0] = c
         /\ \A i \in 1 .. Len(s) : f[i] = step[<<f[i - 1], s[i]>>]
<1>1. Len(s) \in Nat
  OBVIOUS
<1>2. \A i \in 0 .. Len(s) : f[i] = IF i = 0 THEN c ELSE step[<<f[i - 1], s[i]>>]
  BY DEF Folds
<1>3. Over(f, Len(s))
  BY DEF Folds, Over
<1>4. 0 \in 0 .. Len(s) /\ \A i \in 1 .. Len(s) : i \in 0 .. Len(s) /\ i # 0
  BY <1>1
<1> QED BY <1>1, <1>2, <1>3, <1>4

LEMMA FoldExists ==
  ASSUME NEW E, NEW S, NEW s \in Seq(E), NEW c \in S, NEW step \in [S \X E -> S]
  PROVE  \E f \in [0 .. Len(s) -> S] : Folds(f, s, c, step)
<1> DEFINE rounds == [p \in S \X (1 .. Len(s)) |-> step[<<p[1], s[p[2]]>>]]
<1>0. Len(s) \in Nat
  OBVIOUS
<1>1. rounds \in [S \X (1 .. Len(s)) -> S]
  OBVIOUS
<1>2. PICK f \in [0 .. Len(s) -> S] : Loop(f, Len(s), c, rounds)
  <2> HIDE DEF rounds
  <2> QED BY <1>0, <1>1, LoopExists
<1>3. \A i \in 1 .. Len(s) : rounds[<<f[i - 1], i>>] = step[<<f[i - 1], s[i]>>]
  <2> SUFFICES ASSUME NEW i \in 1 .. Len(s)
               PROVE  rounds[<<f[i - 1], i>>] = step[<<f[i - 1], s[i]>>]
    OBVIOUS
  <2>1. f[i - 1] \in S
    BY <1>0
  <2>2. <<f[i - 1], i>> \in S \X (1 .. Len(s))
    BY <2>1
  <2> QED BY <2>2
<1>4. Folds(f, s, c, step)
  <2> HIDE DEF rounds
  <2> QED BY <1>2, <1>3 DEF Folds, Loop
<1> QED BY <1>4

\* A function that starts and steps as the loop does gives its result.
StepsAs(f, s, S, step) ==
  /\ Over(f, Len(s))
  /\ \A i \in 1 .. Len(s) : f[i - 1] \in S => f[i] = step[<<f[i - 1], s[i]>>]

LEMMA FoldedIs ==
  ASSUME NEW E, NEW S, NEW s \in Seq(E), NEW step \in [S \X E -> S],
         NEW f, f[0] \in S, StepsAs(f, s, S, step)
  PROVE  f[Len(s)] = Folded(s, f[0], step) /\ f[Len(s)] \in S
<1> DEFINE c == f[0]
<1>0. c \in S
  OBVIOUS
<1>1. PICK g \in [0 .. Len(s) -> S] : Folds(g, s, c, step)
  BY <1>0, FoldExists
<1> DEFINE h == CHOOSE x : Folds(x, s, c, step)
<1>2. Folds(h, s, c, step)
  BY <1>1
<1> HIDE DEF h, c
<1>3. /\ Len(s) \in Nat
      /\ Over(h, Len(s)) /\ Over(g, Len(s))
  BY <1>1, <1>2, FoldsMeans
<1>4. g[0] = c /\ \A i \in 1 .. Len(s) : g[i] = step[<<g[i - 1], s[i]>>]
  BY <1>1, FoldsMeans
<1>5. h[0] = c /\ \A i \in 1 .. Len(s) : h[i] = step[<<h[i - 1], s[i]>>]
  BY <1>2, FoldsMeans
<1>6. g = h
  <2>1. \A i \in 1 .. Len(s) : g[i - 1] = h[i - 1] => g[i] = h[i]
    BY <1>4, <1>5
  <2>2. g[0] = h[0]
    BY <1>4, <1>5
  <2> QED BY <1>3, <2>1, <2>2, OneLoop
<1>7. g = f
  <2>1. \A i \in 1 .. Len(s) : g[i - 1] \in S
    BY <1>3
  <2>2. \A i \in 1 .. Len(s) : g[i - 1] = f[i - 1] => g[i] = f[i]
    BY <1>4, <2>1 DEF StepsAs
  <2>3. Over(f, Len(s)) /\ g[0] = f[0]
    BY <1>4 DEF StepsAs, c
  <2> QED BY <1>3, <2>2, <2>3, OneLoop
<1>8. Folded(s, c, step) = h[Len(s)]
  BY DEF Folded, h
<1>9. g[Len(s)] \in S
  BY <1>3
<1> QED BY <1>6, <1>7, <1>8, <1>9 DEF c

\* A loop over members of E that makes values in S of a c in S.
IsStep(step, E, S, c) == c \in S /\ step \in [S \X E -> S]

\* The result for a sequence follows from the one for its front.
LEMMA FoldedNext ==
  ASSUME NEW E, NEW S, NEW c, NEW step, IsStep(step, E, S, c), NEW s \in Seq(E), NEW e \in E
  PROVE  /\ Folded(<<>>, c, step) = c
         /\ Folded(s, c, step) \in S
         /\ Folded(Append(s, e), c, step) = step[<<Folded(s, c, step), e>>]
<1> c \in S /\ step \in [S \X E -> S]
  BY DEF IsStep
<1>1. PICK f \in [0 .. Len(s) -> S] : Folds(f, s, c, step)
  BY FoldExists
<1>2. /\ Len(s) \in Nat
      /\ Over(f, Len(s))
      /\ f[0] = c /\ \A i \in 1 .. Len(s) : f[i] = step[<<f[i - 1], s[i]>>]
  BY <1>1, FoldsMeans
<1>3. f[Len(s)] = Folded(s, c, step) /\ f[Len(s)] \in S
  <2>1. StepsAs(f, s, S, step)
    BY <1>2 DEF StepsAs
  <2>2. f[0] \in S
    BY <1>2
  <2>3. f[Len(s)] = Folded(s, f[0], step) /\ f[Len(s)] \in S
    BY <2>1, <2>2, FoldedIs
  <2> QED BY <1>2, <2>3
<1> DEFINE t == Append(s, e)
           v == step[<<f[Len(s)], e>>]
           g == [i \in 0 .. Len(t) |-> IF i = Len(t) THEN v ELSE f[i]]
<1>4. /\ t \in Seq(E) /\ Len(t) = Len(s) + 1 /\ t[Len(t)] = e
      /\ \A i \in 1 .. Len(s) : t[i] = s[i]
  OBVIOUS
<1>5. /\ Over(g, Len(t)) /\ g[Len(t)] = v
      /\ \A i \in 0 .. Len(s) : g[i] = f[i]
  <2> HIDE DEF t
  <2> QED BY <1>2, <1>4 DEF Over
<1> HIDE DEF g, t
<1>6. \A i \in 1 .. Len(t) : g[i] = step[<<g[i - 1], t[i]>>]
  <2> SUFFICES ASSUME NEW i \in 1 .. Len(t)
               PROVE  g[i] = step[<<g[i - 1], t[i]>>]
    OBVIOUS
  <2>0. i - 1 \in 0 .. Len(s)
    BY <1>2, <1>4
  <2>1. i - 1 \in 0 .. Len(s) /\ g[i - 1] = f[i - 1]
    BY <1>5, <2>0
  <2>2. CASE i = Len(t)
    <3>1. g[i] = v /\ i - 1 = Len(s) /\ t[i] = e
      BY <1>2, <1>4, <1>5, <2>2
    <3> QED BY <2>1, <3>1
  <2>3. CASE i \in 1 .. Len(s)
    <3>1. g[i] = f[i] /\ t[i] = s[i]
      BY <1>4, <1>5, <2>3
    <3> QED BY <1>2, <2>1, <2>3, <3>1
  <2> QED BY <1>2, <1>4, <2>2, <2>3
<1>7. g[0] = c
  BY <1>2, <1>5
<1>8. g[Len(t)] = Folded(t, c, step)
  <2>1. StepsAs(g, t, S, step)
    BY <1>5, <1>6 DEF StepsAs
  <2>2. g[0] \in S /\ t \in Seq(E)
    BY <1>4, <1>7
  <2>3. g[Len(t)] = Folded(t, g[0], step) /\ g[Len(t)] \in S
    BY <2>1, <2>2, FoldedIs
  <2> QED BY <1>7, <2>3
<1>9. Folded(<<>>, c, step) = c
  <2> DEFINE z == [i \in 0 .. 0 |-> c]
             none == <<>>
  <2>1. /\ none \in Seq(E) /\ Len(none) = 0
        /\ Over(z, 0) /\ z[0] = c
    BY DEF Over
  <2> HIDE DEF z, none
  <2>2. StepsAs(z, none, S, step)
    BY <2>1 DEF StepsAs
  <2>3. none \in Seq(E) /\ z[0] \in S
    BY <2>1
  <2>4. z[Len(none)] = Folded(none, z[0], step) /\ z[Len(none)] \in S
    BY <2>2, <2>3, FoldedIs
  <2> QED BY <2>1, <2>4 DEF none
<1> QED BY <1>3, <1>5, <1>8, <1>9 DEF t
==============================================================================

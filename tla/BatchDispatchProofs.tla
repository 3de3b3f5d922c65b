------------------------- MODULE BatchDispatchProofs --------------------------
(***************************************************************************)
(* Proofs about BatchDispatch for any devices, any frame buffer and        *)
(* batches of any length, and about HidExchange for every board, every     *)
(* batch, and however many replies are late.                               *)
(*                                                                         *)
(* Each pass of Batching is a loop over the batch.  Recursion gives the    *)
(* loop's function (it exists and is unique), hence what one job more does *)
(* to the pass (the lemmas named ...Next), and induction over the batch    *)
(* then gives what the pass keeps (those named ...Keeps): expansion trades *)
(* redraws for flushes and leaves the requests alone, deduplication drops  *)
(* flushes that are there already, grouping only inserts the bounds.       *)
(*                                                                         *)
(* A reply does not name its LED, so LayoutIsRight rests on what can stand *)
(* in the queue before it: a query asks for LED 0 only after it has read a *)
(* count, and for the next one only after it has read an info.  Whatever   *)
(* the queue lags by, the infos in it form runs that begin behind a count; *)
(* and the query that reads such a run reads it from its beginning.        *)
(***************************************************************************)
EXTENDS BatchDispatch, Recursion

\* Jobs of any LED; groups of them are never empty.
Job   == {j \in [kind : {"flush", "redraw", "caps"}, device : Devices, index : Nat] :
            j.kind = "redraw" => j.index = 0}
Group == Seq(Job) \ {<<>>}

\* A sequence with one member more.
LEMMA Appended ==
  ASSUME NEW E, NEW s \in Seq(E), NEW e \in E
  PROVE  /\ Len(s) \in Nat /\ DOMAIN s = 1 .. Len(s)
         /\ DOMAIN Append(s, e) = 1 .. Len(s) + 1
         /\ Append(s, e)[Len(s) + 1] = e
         /\ \A i \in 1 .. Len(s) : Append(s, e)[i] = s[i]
OBVIOUS

LEMMA JobsTyped == Jobs \subseteq Job
BY LEDsAreNumbers DEF Jobs, Job, Flush, Redraw, Request

\* The ascending listing of a finite set lists it.
LEMMA AscendingLists ==
  ASSUME NEW S \in SUBSET Nat, IsFiniteSet(S)
  PROVE  /\ Ascending(S) \in Seq(S)
         /\ \A x \in S : \E i \in DOMAIN Ascending(S) : Ascending(S)[i] = x
<1> DEFINE Below(x) == {y \in S : y < x}
           N == 0 .. Cardinality(S) - 1
           rank == [x \in S |-> Cardinality(Below(x))]
<1>1. Cardinality(S) \in Nat
  BY FS_CardinalityType
<1>2. \A x \in S : IsFiniteSet(Below(x)) /\ Cardinality(Below(x)) \in N
  <2> SUFFICES ASSUME NEW x \in S
               PROVE  IsFiniteSet(Below(x)) /\ Cardinality(Below(x)) \in N
    OBVIOUS
  <2>1. Below(x) \in SUBSET S /\ Below(x) # S
    OBVIOUS
  <2>2. /\ IsFiniteSet(Below(x)) /\ Cardinality(Below(x)) <= Cardinality(S)
        /\ Cardinality(Below(x)) # Cardinality(S)
    BY <2>1, FS_Subset
  <2>3. Cardinality(Below(x)) \in Nat
    BY <2>2, FS_CardinalityType
  <2> HIDE DEF Below
  <2> QED BY <1>1, <2>2, <2>3
<1>3. \A x, z \in S : x < z => Cardinality(Below(x)) # Cardinality(Below(z))
  <2> SUFFICES ASSUME NEW x \in S, NEW z \in S, x < z
               PROVE  Cardinality(Below(x)) # Cardinality(Below(z))
    OBVIOUS
  <2>1. Below(x) \in SUBSET Below(z)
    <3> SUFFICES ASSUME NEW y \in S, y < x
                 PROVE  y < z
      OBVIOUS
    <3>1. x \in Nat /\ y \in Nat /\ z \in Nat
      OBVIOUS
    <3> QED BY <3>1
  <2>2. x \in Nat /\ x \in Below(z) /\ x \notin Below(x)
    OBVIOUS
  <2>3. Below(x) # Below(z)
    BY <2>2
  <2> HIDE DEF Below
  <2> QED BY <1>2, <2>1, <2>3, FS_Subset
<1>4. \A x, z \in S : rank[x] = rank[z] => x = z
  <2> SUFFICES ASSUME NEW x \in S, NEW z \in S, rank[x] = rank[z]
               PROVE  x = z
    OBVIOUS
  <2>1. x < z \/ z < x \/ x = z
    OBVIOUS
  <2> HIDE DEF Below
  <2> QED BY <1>3, <2>1
<1>5. IsFiniteSet(N) /\ Cardinality(N) = Cardinality(S)
  <2>1. 0 \in Int /\ Cardinality(S) - 1 \in Int
    BY <1>1
  <2>2. /\ IsFiniteSet(N)
        /\ Cardinality(N) = IF 0 > Cardinality(S) - 1 THEN 0 ELSE Cardinality(S) - 1 - 0 + 1
    BY <2>1, FS_Interval
  <2> HIDE DEF N
  <2> QED BY <1>1, <2>2
<1>6. rank \in [S -> N]
  BY <1>2
<1>7. rank \in Injection(S, N)
  <2> HIDE DEF rank, N
  <2> QED BY <1>4, <1>6 DEF Injection, IsInjective
<1>8. rank \in Surjection(S, N)
  <2> HIDE DEF rank, N
  <2> QED BY <1>5, <1>7, FS_Injection
<1>9. \A i \in 1 .. Cardinality(S) : \E x \in S : Cardinality(Below(x)) = i - 1
  <2> SUFFICES ASSUME NEW i \in 1 .. Cardinality(S)
               PROVE  \E x \in S : Cardinality(Below(x)) = i - 1
    OBVIOUS
  <2>1. i - 1 \in N
    BY <1>1
  <2>2. PICK x \in S : rank[x] = i - 1
    <3> HIDE DEF rank, N
    <3> QED BY <1>8, <2>1 DEF Surjection
  <2> QED BY <2>2
<1> DEFINE at(i) == CHOOSE x \in S : Cardinality(Below(x)) = i - 1
<1>10. \A i \in 1 .. Cardinality(S) : at(i) \in S /\ Cardinality(Below(at(i))) = i - 1
  BY <1>9
<1>11. Ascending(S) = [i \in 1 .. Cardinality(S) |-> at(i)]
  BY DEF Ascending
<1> HIDE DEF at
<1>12. Ascending(S) \in Seq(S)
  <2> DEFINE a == [i \in 1 .. Cardinality(S) |-> at(i)]
  <2>1. a \in [1 .. Cardinality(S) -> S]
    BY <1>10
  <2>2. a \in Seq(S)
    <3> HIDE DEF a
    <3> QED BY <1>1, <2>1
  <2> QED BY <1>11, <2>2
<1>13. \A x \in S : \E i \in DOMAIN Ascending(S) : Ascending(S)[i] = x
  <2> SUFFICES ASSUME NEW x \in S
               PROVE  \E i \in 1 .. Cardinality(S) : at(i) = x
    BY <1>11
  <2> DEFINE i == rank[x] + 1
  <2>1. i \in 1 .. Cardinality(S) /\ rank[x] = i - 1
    <3>1. rank[x] \in N
      BY <1>6
    <3> HIDE DEF rank
    <3> QED BY <1>1, <3>1
  <2>2. at(i) \in S /\ rank[at(i)] = i - 1
    BY <1>10, <2>1
  <2>3. at(i) = x
    <3> HIDE DEF rank, i
    <3> QED BY <1>4, <2>1, <2>2
  <2> QED BY <2>1, <2>3
<1> QED BY <1>12, <1>13

\* The flushes of a redraw are those of the LEDs in the frame buffer.
LEMMA ExpandedIs ==
  ASSUME NEW j \in Job
  PROVE  /\ expanded(j, Cached) \in Seq(Job)
         /\ j.kind # "redraw" => expanded(j, Cached) = <<j>>
         /\ j.kind = "redraw" =>
              /\ \A i \in DOMAIN expanded(j, Cached) : expanded(j, Cached)[i].kind = "flush"
              /\ {expanded(j, Cached)[i] : i \in DOMAIN expanded(j, Cached)}
                   = {Flush(j.device, l) : l \in Cached[j.device]}
<1>1. ASSUME j.kind # "redraw"
      PROVE  expanded(j, Cached) = <<j>>
  BY <1>1 DEF expanded
<1>2. ASSUME j.kind = "redraw"
      PROVE  /\ expanded(j, Cached) \in Seq(Job)
             /\ \A i \in DOMAIN expanded(j, Cached) : expanded(j, Cached)[i].kind = "flush"
             /\ {expanded(j, Cached)[i] : i \in DOMAIN expanded(j, Cached)}
                  = {Flush(j.device, l) : l \in Cached[j.device]}
  <2> DEFINE d == j.device
             leds == Ascending(Cached[d])
             out == [i \in DOMAIN leds |-> Flush(d, leds[i])]
  <2>1. d \in Devices /\ Cached[d] \in SUBSET Nat /\ IsFiniteSet(Cached[d])
    BY LEDsAreNumbers, FrameBufferIsFinite DEF Job
  <2>2. leds \in Seq(Cached[d]) /\ \A l \in Cached[d] : \E i \in DOMAIN leds : leds[i] = l
    <3> HIDE DEF d
    <3> QED BY <2>1, AscendingLists
  <2>3. expanded(j, Cached) = out
    BY <1>2 DEF expanded
  <2> HIDE DEF leds, d
  <2>4. /\ DOMAIN leds = 1 .. Len(leds) /\ Len(leds) \in Nat
        /\ \A i \in DOMAIN leds : leds[i] \in Cached[d]
    BY <2>2
  <2>5. \A l \in Nat : Flush(d, l) \in Job /\ Flush(d, l).kind = "flush"
    BY <2>1 DEF Flush, Job
  <2>6. \A i \in 1 .. Len(leds) : Flush(d, leds[i]) \in Job
    BY <2>1, <2>4, <2>5
  <2>7. out \in Seq(Job)
    BY <2>4, <2>6
  <2>8. \A i \in DOMAIN leds : out[i] = Flush(d, leds[i]) /\ out[i].kind = "flush"
    BY <2>1, <2>4, <2>5
  <2>9. {out[i] : i \in DOMAIN out} = {Flush(d, l) : l \in Cached[d]}
    BY <2>2, <2>4, <2>8
  <2> HIDE DEF out
  <2>10. DOMAIN out = DOMAIN leds
    BY DEF out
  <2> QED BY <2>3, <2>7, <2>8, <2>9, <2>10 DEF d
<1>3. <<j>> \in Seq(Job)
  OBVIOUS
<1> HIDE DEF Job
<1>4. CASE j.kind = "redraw"
  BY <1>2, <1>4
<1>5. CASE j.kind # "redraw"
  BY <1>1, <1>3, <1>5, Zenon
<1> QED BY <1>4, <1>5

\* The choice of members as a fold.
ChooseStep(E, R) == [p \in Seq(E) \X E |-> IF p[2] \in R THEN Append(p[1], p[2]) ELSE p[1]]

LEMMA ChooseType ==
  ASSUME NEW E, NEW R
  PROVE  ChooseStep(E, R) \in [Seq(E) \X E -> Seq(E)]
<1> SUFFICES ASSUME NEW s \in Seq(E), NEW e \in E
             PROVE  Append(s, e) \in Seq(E)
  BY DEF ChooseStep
<1> QED OBVIOUS

LEMMA ChosenFold ==
  ASSUME NEW E, NEW R, NEW s \in Seq(E)
  PROVE  Chosen(s, R) = Folded(s, <<>>, ChooseStep(E, R))
<1> DEFINE S == Seq(E)
           step == ChooseStep(E, R)
           c == <<>>
           then(v, j) == (IF j \in R THEN Append(v, j) ELSE v)
           out == CHOOSE out : out = [n \in 0 .. Len(s) |-> IF n = 0 THEN c ELSE then(out[n - 1], s[n])]
<1>1. c \in S /\ step \in [S \X E -> S] /\ Len(s) \in Nat
  <2>1. c \in S /\ Len(s) \in Nat
    OBVIOUS
  <2>2. step \in [S \X E -> S]
    BY ChooseType
  <2> QED BY <2>1, <2>2
<1>2. \A v \in S, j \in E : step[<<v, j>>] = then(v, j)
  BY DEF ChooseStep
<1>3. Chosen(s, R) = out[Len(s)]
  BY Zenon DEF Chosen
<1> HIDE DEF S, step, then, out
<1>4. PICK f \in [0 .. Len(s) -> S] : Folds(f, s, c, step)
  BY <1>1, FoldExists
<1>5. f = [n \in 0 .. Len(s) |-> IF n = 0 THEN c ELSE then(f[n - 1], s[n])]
  <2>1. \A n \in 1 .. Len(s) : f[n - 1] \in S /\ s[n] \in E
    BY <1>1
  <2>2. \A n \in 0 .. Len(s) :
          (IF n = 0 THEN c ELSE step[<<f[n - 1], s[n]>>])
             = (IF n = 0 THEN c ELSE then(f[n - 1], s[n]))
    BY <1>1, <1>2, <2>1
  <2> QED BY <1>4, <2>2 DEF Folds
<1>6. out = [n \in 0 .. Len(s) |-> IF n = 0 THEN c ELSE then(out[n - 1], s[n])]
  BY <1>5, Zenon DEF out
<1>7. StepsAs(out, s, S, step) /\ out[0] = c
  <2>1. Over(out, Len(s))
    BY <1>6 DEF Over
  <2>2. out[0] = c /\ \A n \in 1 .. Len(s) : out[n] = then(out[n - 1], s[n])
    BY <1>1, <1>6
  <2>3. \A n \in 1 .. Len(s) : s[n] \in E
    OBVIOUS
  <2> QED BY <1>2, <2>1, <2>2, <2>3 DEF StepsAs
<1>8. out[Len(s)] = Folded(s, out[0], step) /\ out[Len(s)] \in S
  <2>1. out[0] \in S
    BY <1>1, <1>7
  <2> QED BY <1>1, <1>7, <2>1, FoldedIs
<1> QED BY <1>3, <1>7, <1>8 DEF step

\* Deduplication as a fold.
DedupeStep == [p \in Seq(Job) \X Job |->
                 IF p[2].kind = "flush" /\ Contains(p[1], p[2]) THEN p[1] ELSE Append(p[1], p[2])]

LEMMA DedupeType == DedupeStep \in [Seq(Job) \X Job -> Seq(Job)]
<1> SUFFICES ASSUME NEW s \in Seq(Job), NEW j \in Job
             PROVE  Append(s, j) \in Seq(Job)
  BY DEF DedupeStep
<1> QED OBVIOUS

LEMMA DedupeFold ==
  ASSUME NEW jobs \in Seq(Job)
  PROVE  dedupeFlushes(jobs) = Folded(jobs, <<>>, DedupeStep)
<1> DEFINE S == Seq(Job)
           step == DedupeStep
           c == <<>>
           then(v, j) == (IF j.kind = "flush" /\ Contains(v, j) THEN v ELSE Append(v, j))
           out == CHOOSE out : out = [n \in 0 .. Len(jobs) |-> IF n = 0 THEN c ELSE then(out[n - 1], jobs[n])]
<1>1. c \in S /\ step \in [S \X Job -> S] /\ Len(jobs) \in Nat
  <2>1. c \in S /\ Len(jobs) \in Nat
    OBVIOUS
  <2>2. step \in [S \X Job -> S]
    BY DedupeType
  <2> QED BY <2>1, <2>2
<1>2. \A v \in S, j \in Job : step[<<v, j>>] = then(v, j)
  BY DEF DedupeStep
<1>3. dedupeFlushes(jobs) = out[Len(jobs)]
  BY Zenon DEF dedupeFlushes
<1> HIDE DEF S, step, then, out
<1>4. PICK f \in [0 .. Len(jobs) -> S] : Folds(f, jobs, c, step)
  BY <1>1, FoldExists
<1>5. f = [n \in 0 .. Len(jobs) |-> IF n = 0 THEN c ELSE then(f[n - 1], jobs[n])]
  <2>1. \A n \in 1 .. Len(jobs) : f[n - 1] \in S /\ jobs[n] \in Job
    BY <1>1
  <2>2. \A n \in 0 .. Len(jobs) :
          (IF n = 0 THEN c ELSE step[<<f[n - 1], jobs[n]>>])
             = (IF n = 0 THEN c ELSE then(f[n - 1], jobs[n]))
    BY <1>1, <1>2, <2>1
  <2> QED BY <1>4, <2>2 DEF Folds
<1>6. out = [n \in 0 .. Len(jobs) |-> IF n = 0 THEN c ELSE then(out[n - 1], jobs[n])]
  BY <1>5, Zenon DEF out
<1>7. StepsAs(out, jobs, S, step) /\ out[0] = c
  <2>1. Over(out, Len(jobs))
    BY <1>6 DEF Over
  <2>2. out[0] = c /\ \A n \in 1 .. Len(jobs) : out[n] = then(out[n - 1], jobs[n])
    BY <1>1, <1>6
  <2>3. \A n \in 1 .. Len(jobs) : jobs[n] \in Job
    OBVIOUS
  <2> QED BY <1>2, <2>1, <2>2, <2>3 DEF StepsAs
<1>8. out[Len(jobs)] = Folded(jobs, out[0], step) /\ out[Len(jobs)] \in S
  <2>1. out[0] \in S
    BY <1>1, <1>7
  <2> QED BY <1>1, <1>7, <2>1, FoldedIs
<1> QED BY <1>3, <1>7, <1>8 DEF step

\* Expansion as a fold.
ExpandStep == [p \in Seq(Job) \X Job |-> p[1] \o expanded(p[2], Cached)]

LEMMA ExpandType == ExpandStep \in [Seq(Job) \X Job -> Seq(Job)]
<1> SUFFICES ASSUME NEW s \in Seq(Job), NEW j \in Job
             PROVE  s \o expanded(j, Cached) \in Seq(Job)
  BY DEF ExpandStep
<1> QED BY ExpandedIs, ConcatProperties

LEMMA ExpandFold ==
  ASSUME NEW jobs \in Seq(Job)
  PROVE  expandRedraws(jobs, Cached) = Folded(jobs, <<>>, ExpandStep)
<1> DEFINE S == Seq(Job)
           step == ExpandStep
           c == <<>>
           then(v, j) == v \o expanded(j, Cached)
           out == CHOOSE out : out = [n \in 0 .. Len(jobs) |-> IF n = 0 THEN c ELSE then(out[n - 1], jobs[n])]
<1>1. c \in S /\ step \in [S \X Job -> S] /\ Len(jobs) \in Nat
  <2>1. c \in S /\ Len(jobs) \in Nat
    OBVIOUS
  <2>2. step \in [S \X Job -> S]
    BY ExpandType
  <2> QED BY <2>1, <2>2
<1>2. \A v \in S, j \in Job : step[<<v, j>>] = then(v, j)
  BY DEF ExpandStep
<1>3. expandRedraws(jobs, Cached) = out[Len(jobs)]
  BY Zenon DEF expandRedraws
<1> HIDE DEF S, step, then, out
<1>4. PICK f \in [0 .. Len(jobs) -> S] : Folds(f, jobs, c, step)
  BY <1>1, FoldExists
<1>5. f = [n \in 0 .. Len(jobs) |-> IF n = 0 THEN c ELSE then(f[n - 1], jobs[n])]
  <2>1. \A n \in 1 .. Len(jobs) : f[n - 1] \in S /\ jobs[n] \in Job
    BY <1>1
  <2>2. \A n \in 0 .. Len(jobs) :
          (IF n = 0 THEN c ELSE step[<<f[n - 1], jobs[n]>>])
             = (IF n = 0 THEN c ELSE then(f[n - 1], jobs[n]))
    BY <1>1, <1>2, <2>1
  <2> QED BY <1>4, <2>2 DEF Folds
<1>6. out = [n \in 0 .. Len(jobs) |-> IF n = 0 THEN c ELSE then(out[n - 1], jobs[n])]
  BY <1>5, Zenon DEF out
<1>7. StepsAs(out, jobs, S, step) /\ out[0] = c
  <2>1. Over(out, Len(jobs))
    BY <1>6 DEF Over
  <2>2. out[0] = c /\ \A n \in 1 .. Len(jobs) : out[n] = then(out[n - 1], jobs[n])
    BY <1>1, <1>6
  <2>3. \A n \in 1 .. Len(jobs) : jobs[n] \in Job
    OBVIOUS
  <2> QED BY <1>2, <2>1, <2>2, <2>3 DEF StepsAs
<1>8. out[Len(jobs)] = Folded(jobs, out[0], step) /\ out[Len(jobs)] \in S
  <2>1. out[0] \in S
    BY <1>1, <1>7
  <2> QED BY <1>1, <1>7, <2>1, FoldedIs
<1> QED BY <1>3, <1>7, <1>8 DEF step

\* Grouping as a fold.
PlaceStep(ceiling) == [p \in Seq(Group) \X Job |-> Placed(p[1], p[2], ceiling)]

LEMMA PlacedType ==
  ASSUME NEW ceiling \in Nat
  PROVE  PlaceStep(ceiling) \in [Seq(Group) \X Job -> Seq(Group)]
<1> SUFFICES ASSUME NEW groups \in Seq(Group), NEW j \in Job
             PROVE  Placed(groups, j, ceiling) \in Seq(Group)
  BY DEF PlaceStep
<1>1. <<j>> \in Group
  BY DEF Group
<1>2. ASSUME groups # <<>>
      PROVE  [groups EXCEPT ![Len(groups)] = Append(@, j)] \in Seq(Group)
  <2>1. Len(groups) \in 1 .. Len(groups) /\ groups[Len(groups)] \in Group
    BY <1>2
  <2>2. Append(groups[Len(groups)], j) \in Group
    BY <2>1, AppendProperties DEF Group
  <2> QED BY <2>1, <2>2, ExceptSeq
<1> QED BY <1>1, <1>2 DEF Placed

LEMMA GroupsFold ==
  ASSUME NEW ceiling \in Nat, NEW jobs \in Seq(Job)
  PROVE  GroupsUpTo(ceiling, jobs) = Folded(jobs, <<>>, PlaceStep(ceiling))
<1> DEFINE S == Seq(Group)
           step == PlaceStep(ceiling)
           c == <<>>
           then(v, j) == Placed(v, j, ceiling)
           out == CHOOSE out : out = [n \in 0 .. Len(jobs) |-> IF n = 0 THEN c ELSE then(out[n - 1], jobs[n])]
<1>1. c \in S /\ step \in [S \X Job -> S] /\ Len(jobs) \in Nat
  <2>1. c \in S /\ Len(jobs) \in Nat
    OBVIOUS
  <2>2. step \in [S \X Job -> S]
    BY PlacedType
  <2> QED BY <2>1, <2>2
<1>2. \A v \in S, j \in Job : step[<<v, j>>] = then(v, j)
  BY DEF PlaceStep
<1>3. GroupsUpTo(ceiling, jobs) = out[Len(jobs)]
  BY Zenon DEF GroupsUpTo
<1> HIDE DEF S, step, then, out
<1>4. PICK f \in [0 .. Len(jobs) -> S] : Folds(f, jobs, c, step)
  BY <1>1, FoldExists
<1>5. f = [n \in 0 .. Len(jobs) |-> IF n = 0 THEN c ELSE then(f[n - 1], jobs[n])]
  <2>1. \A n \in 1 .. Len(jobs) : f[n - 1] \in S /\ jobs[n] \in Job
    BY <1>1
  <2>2. \A n \in 0 .. Len(jobs) :
          (IF n = 0 THEN c ELSE step[<<f[n - 1], jobs[n]>>])
             = (IF n = 0 THEN c ELSE then(f[n - 1], jobs[n]))
    BY <1>1, <1>2, <2>1
  <2> QED BY <1>4, <2>2 DEF Folds
<1>6. out = [n \in 0 .. Len(jobs) |-> IF n = 0 THEN c ELSE then(out[n - 1], jobs[n])]
  BY <1>5, Zenon DEF out
<1>7. StepsAs(out, jobs, S, step) /\ out[0] = c
  <2>1. Over(out, Len(jobs))
    BY <1>6 DEF Over
  <2>2. out[0] = c /\ \A n \in 1 .. Len(jobs) : out[n] = then(out[n - 1], jobs[n])
    BY <1>1, <1>6
  <2>3. \A n \in 1 .. Len(jobs) : jobs[n] \in Job
    OBVIOUS
  <2> QED BY <1>2, <2>1, <2>2, <2>3 DEF StepsAs
<1>8. out[Len(jobs)] = Folded(jobs, out[0], step) /\ out[Len(jobs)] \in S
  <2>1. out[0] \in S
    BY <1>1, <1>7
  <2> QED BY <1>1, <1>7, <2>1, FoldedIs
<1> QED BY <1>3, <1>7, <1>8 DEF step

(***************************************************************************)
(* Each pass, one job more.                                                *)
(***************************************************************************)
LEMMA ChosenNext ==
  ASSUME NEW E, NEW R, NEW s \in Seq(E), NEW e \in E
  PROVE  /\ Chosen(<<>>, R) = <<>> /\ Chosen(s, R) \in Seq(E)
         /\ Chosen(Append(s, e), R) = IF e \in R THEN Append(Chosen(s, R), e) ELSE Chosen(s, R)
<1> DEFINE step == ChooseStep(E, R)
<1>1. <<>> \in Seq(E) /\ Append(s, e) \in Seq(E)
  OBVIOUS
<1>2. /\ Chosen(s, R) = Folded(s, <<>>, step)
      /\ Chosen(<<>>, R) = Folded(<<>>, <<>>, step)
      /\ Chosen(Append(s, e), R) = Folded(Append(s, e), <<>>, step)
  BY <1>1, ChosenFold
<1>3. step \in [Seq(E) \X E -> Seq(E)]
  BY ChooseType
<1>4. \A v \in Seq(E) : step[<<v, e>>] = IF e \in R THEN Append(v, e) ELSE v
  BY DEF ChooseStep
<1> HIDE DEF step
<1>5. /\ Folded(<<>>, <<>>, step) = <<>>
      /\ Folded(s, <<>>, step) \in Seq(E)
      /\ Folded(Append(s, e), <<>>, step) = step[<<Folded(s, <<>>, step), e>>]
  <2>1. IsStep(step, E, Seq(E), <<>>)
    BY <1>1, <1>3 DEF IsStep
  <2> QED BY <2>1, FoldedNext
<1> QED BY <1>2, <1>4, <1>5

LEMMA DedupeNext ==
  ASSUME NEW s \in Seq(Job), NEW j \in Job
  PROVE  /\ dedupeFlushes(<<>>) = <<>> /\ dedupeFlushes(s) \in Seq(Job)
         /\ dedupeFlushes(Append(s, j)) =
              IF j.kind = "flush" /\ Contains(dedupeFlushes(s), j)
              THEN dedupeFlushes(s) ELSE Append(dedupeFlushes(s), j)
<1> DEFINE step == DedupeStep
           then(v) == IF j.kind = "flush" /\ Contains(v, j) THEN v ELSE Append(v, j)
<1>1. <<>> \in Seq(Job) /\ Append(s, j) \in Seq(Job)
  OBVIOUS
<1>2. /\ dedupeFlushes(s) = Folded(s, <<>>, step)
      /\ dedupeFlushes(<<>>) = Folded(<<>>, <<>>, step)
      /\ dedupeFlushes(Append(s, j)) = Folded(Append(s, j), <<>>, step)
  BY <1>1, DedupeFold
<1>3. step \in [Seq(Job) \X Job -> Seq(Job)]
  BY DedupeType
<1>4. \A v \in Seq(Job) : step[<<v, j>>] = then(v)
  BY DEF DedupeStep
<1> HIDE DEF step, then
<1>5. /\ Folded(<<>>, <<>>, step) = <<>>
      /\ Folded(s, <<>>, step) \in Seq(Job)
      /\ Folded(Append(s, j), <<>>, step) = step[<<Folded(s, <<>>, step), j>>]
  <2>1. IsStep(step, Job, Seq(Job), <<>>)
    BY <1>1, <1>3 DEF IsStep
  <2> QED BY <2>1, FoldedNext
<1>6. /\ dedupeFlushes(<<>>) = <<>> /\ dedupeFlushes(s) \in Seq(Job)
      /\ dedupeFlushes(Append(s, j)) = then(dedupeFlushes(s))
  BY <1>2, <1>4, <1>5
<1> QED BY <1>6 DEF then

LEMMA ExpandNext ==
  ASSUME NEW s \in Seq(Job), NEW j \in Job
  PROVE  /\ expandRedraws(<<>>, Cached) = <<>> /\ expandRedraws(s, Cached) \in Seq(Job)
         /\ expandRedraws(Append(s, j), Cached) = expandRedraws(s, Cached) \o expanded(j, Cached)
<1> DEFINE step == ExpandStep
           then(v) == v \o expanded(j, Cached)
<1>1. <<>> \in Seq(Job) /\ Append(s, j) \in Seq(Job)
  OBVIOUS
<1>2. /\ expandRedraws(s, Cached) = Folded(s, <<>>, step)
      /\ expandRedraws(<<>>, Cached) = Folded(<<>>, <<>>, step)
      /\ expandRedraws(Append(s, j), Cached) = Folded(Append(s, j), <<>>, step)
  BY <1>1, ExpandFold
<1>3. step \in [Seq(Job) \X Job -> Seq(Job)]
  BY ExpandType
<1>4. \A v \in Seq(Job) : step[<<v, j>>] = then(v)
  BY DEF ExpandStep
<1> HIDE DEF step, then
<1>5. /\ Folded(<<>>, <<>>, step) = <<>>
      /\ Folded(s, <<>>, step) \in Seq(Job)
      /\ Folded(Append(s, j), <<>>, step) = step[<<Folded(s, <<>>, step), j>>]
  <2>1. IsStep(step, Job, Seq(Job), <<>>)
    BY <1>1, <1>3 DEF IsStep
  <2> QED BY <2>1, FoldedNext
<1>6. /\ expandRedraws(<<>>, Cached) = <<>> /\ expandRedraws(s, Cached) \in Seq(Job)
      /\ expandRedraws(Append(s, j), Cached) = then(expandRedraws(s, Cached))
  BY <1>2, <1>4, <1>5
<1> QED BY <1>6 DEF then

LEMMA GroupsNext ==
  ASSUME NEW ceiling \in Nat, NEW s \in Seq(Job), NEW j \in Job
  PROVE  /\ GroupsUpTo(ceiling, <<>>) = <<>> /\ GroupsUpTo(ceiling, s) \in Seq(Group)
         /\ GroupsUpTo(ceiling, Append(s, j)) = Placed(GroupsUpTo(ceiling, s), j, ceiling)
<1> DEFINE step == PlaceStep(ceiling)
<1>1. <<>> \in Seq(Job) /\ Append(s, j) \in Seq(Job) /\ <<>> \in Seq(Group)
  OBVIOUS
<1>2. /\ GroupsUpTo(ceiling, s) = Folded(s, <<>>, step)
      /\ GroupsUpTo(ceiling, <<>>) = Folded(<<>>, <<>>, step)
      /\ GroupsUpTo(ceiling, Append(s, j)) = Folded(Append(s, j), <<>>, step)
  BY <1>1, GroupsFold
<1>3. step \in [Seq(Group) \X Job -> Seq(Group)]
  BY PlacedType
<1>4. \A v \in Seq(Group) : step[<<v, j>>] = Placed(v, j, ceiling)
  BY DEF PlaceStep
<1> HIDE DEF step
<1>5. /\ Folded(<<>>, <<>>, step) = <<>>
      /\ Folded(s, <<>>, step) \in Seq(Group)
      /\ Folded(Append(s, j), <<>>, step) = step[<<Folded(s, <<>>, step), j>>]
  <2>1. IsStep(step, Job, Seq(Group), <<>>)
    BY <1>1, <1>3 DEF IsStep
  <2> QED BY <2>1, FoldedNext
<1> QED BY <1>2, <1>4, <1>5

\* The groups joined together, one group more.
Concatenates(step, S) ==
  /\ \A v, t \in S : step[<<v, t>>] = v \o t
  /\ \A t \in S : <<>> \o t = t

\* Flattening is the fold of concatenation.
LEMMA FlattenFold ==
  ASSUME NEW S, NEW step \in [S \X S -> S], <<>> \in S, Concatenates(step, S),
         NEW tt \in Seq(S)
  PROVE  FlattenSeq(tt) = Folded(tt, <<>>, step)
<1> DEFINE c == <<>>
<1>0. Len(tt) \in Nat /\ c \in S
  OBVIOUS
<1> HIDE DEF c
<1>1. PICK f \in [0 .. Len(tt) -> S] : Folds(f, tt, c, step)
  BY <1>0, FoldExists
<1>2. f[0] = c /\ \A i \in 1 .. Len(tt) : f[i] = step[<<f[i - 1], tt[i]>>]
  BY <1>1, FoldsMeans
<1>3. \A i \in 1 .. Len(tt) : f[i] = f[i - 1] \o tt[i]
  <2> SUFFICES ASSUME NEW i \in 1 .. Len(tt)
               PROVE  f[i] = f[i - 1] \o tt[i]
    OBVIOUS
  <2>1. f[i - 1] \in S /\ tt[i] \in S
    BY <1>0
  <2> QED BY <1>2, <2>1 DEF Concatenates
<1>4. \A i \in 1 .. Len(tt) : i = 1 => f[i] = tt[i]
  <2> SUFFICES ASSUME 1 \in 1 .. Len(tt)
               PROVE  f[1] = tt[1]
    OBVIOUS
  <2>0. tt[1] \in S /\ 1 - 1 = 0
    OBVIOUS
  <2>1. f[1] = f[0] \o tt[1] /\ tt[1] \in S
    BY <1>3, <2>0
  <2> QED BY <1>2, <2>1 DEF Concatenates, c
<1>5. f[Len(tt)] = Folded(tt, c, step)
  <2>1. StepsAs(f, tt, S, step)
    BY <1>1, <1>2, FoldsMeans DEF StepsAs
  <2>2. f[0] \in S
    BY <1>0, <1>2
  <2>3. f[Len(tt)] = Folded(tt, f[0], step) /\ f[Len(tt)] \in S
    BY <2>1, <2>2, FoldedIs
  <2> QED BY <1>2, <2>3
<1>6. CASE Len(tt) = 0
  <2>1. tt = <<>>
    BY <1>6
  <2> QED BY <1>2, <1>5, <1>6, <2>1 DEF FlattenSeq, c
<1>7. CASE Len(tt) # 0
  <2> DEFINE flatten == CHOOSE flatten : flatten = [i \in 1 .. Len(tt) |->
                          IF i = 1 THEN tt[i] ELSE flatten[i - 1] \o tt[i]]
             g == [i \in 1 .. Len(tt) |-> f[i]]
             T == {k \in 0 .. Len(tt) : k > 0 => flatten[k] = f[k]}
  <2>1. FlattenSeq(tt) = flatten[Len(tt)]
    BY <1>7, Zenon DEF FlattenSeq
  <2>2. g = [i \in 1 .. Len(tt) |-> IF i = 1 THEN tt[i] ELSE g[i - 1] \o tt[i]]
    <3>1. ASSUME NEW i \in 1 .. Len(tt)
          PROVE  f[i] = IF i = 1 THEN tt[i] ELSE g[i - 1] \o tt[i]
      <4>1. CASE i = 1
        BY <1>4, <4>1
      <4>2. CASE i # 1
        <5>1. g[i - 1] = f[i - 1]
          BY <1>0, <4>2
        <5> QED BY <1>3, <4>2, <5>1
      <4> QED BY <4>1, <4>2
    <3> QED BY <3>1
  <2>3. flatten = [i \in 1 .. Len(tt) |-> IF i = 1 THEN tt[i] ELSE flatten[i - 1] \o tt[i]]
    <3> HIDE DEF g
    <3> QED BY <2>2, Zenon
  <2> HIDE DEF flatten, g
  <2>4. 0 \in T
    BY <1>0
  <2>5. ASSUME NEW i \in 1 .. Len(tt), i - 1 \in T
        PROVE  i \in T
    <3>1. flatten[i] = IF i = 1 THEN tt[i] ELSE flatten[i - 1] \o tt[i]
      BY <2>3
    <3>2. flatten[i] = f[i]
      <4>1. CASE i = 1
        BY <1>4, <3>1, <4>1
      <4>2. CASE i # 1
        <5>1. flatten[i - 1] = f[i - 1]
          BY <1>0, <2>5, <4>2
        <5> QED BY <1>3, <3>1, <4>2, <5>1
      <4> QED BY <4>1, <4>2
    <3> QED BY <1>0, <3>2
  <2>6. \A i \in 0 .. Len(tt) : i \in T
    <3> HIDE DEF T
    <3> QED BY <1>0, <2>4, <2>5, EveryRound
  <2>7. Len(tt) \in 0 .. Len(tt) /\ Len(tt) > 0
    BY <1>0, <1>7
  <2>8. flatten[Len(tt)] = f[Len(tt)]
    BY <2>6, <2>7
  <2> QED BY <1>5, <2>1, <2>8 DEF c
<1> QED BY <1>6, <1>7

LEMMA FlattenNext ==
  ASSUME NEW E, NEW ss \in Seq(Seq(E)), NEW s \in Seq(E)
  PROVE  /\ FlattenSeq(<<>>) = <<>> /\ FlattenSeq(ss) \in Seq(E)
         /\ FlattenSeq(Append(ss, s)) = FlattenSeq(ss) \o s
<1> DEFINE S == Seq(E)
           step == [p \in S \X S |-> p[1] \o p[2]]
<1>1. <<>> \in S /\ step \in [S \X S -> S]
  <2>1. \A p \in S \X S : p[1] \o p[2] \in S
    BY ConcatProperties
  <2> QED BY <2>1
<1>2. \A v, t \in S : step[<<v, t>>] = v \o t
  OBVIOUS
<1>3. \A t \in S : <<>> \o t = t
  BY ConcatEmptySeq
<1>4. <<>> \in Seq(S) /\ Append(ss, s) \in Seq(S)
  OBVIOUS
<1> HIDE DEF S, step
<1>5. \A tt \in Seq(S) : FlattenSeq(tt) = Folded(tt, <<>>, step)
  BY <1>1, <1>2, <1>3, FlattenFold DEF Concatenates
<1>6. ss \in Seq(S) /\ s \in S
  BY DEF S
<1>7. IsStep(step, S, S, <<>>)
  BY <1>1 DEF IsStep
<1>8. /\ Folded(<<>>, <<>>, step) = <<>>
      /\ Folded(ss, <<>>, step) \in S
      /\ Folded(Append(ss, s), <<>>, step) = step[<<Folded(ss, <<>>, step), s>>]
  BY <1>6, <1>7, FoldedNext
<1>9. FlattenSeq(ss) \in S
  BY <1>5, <1>6, <1>8
<1>10. FlattenSeq(Append(ss, s)) = FlattenSeq(ss) \o s
  BY <1>2, <1>4, <1>5, <1>6, <1>8
<1>11. FlattenSeq(<<>>) = <<>>
  BY <1>4, <1>5, <1>8
<1> QED BY <1>9, <1>10, <1>11 DEF S

(***************************************************************************)
(* What each pass keeps of the jobs.                                       *)
(***************************************************************************)
\* Requests are those of R; no flush and no redraw is one.
Answered(R) == \A r \in R : r.kind \notin {"flush", "redraw"}

\* No LED is flushed twice.
Once(s) == \A i, k \in DOMAIN s : s[i] = s[k] /\ s[i].kind = "flush" => i = k

LEMMA FlushesNext ==
  ASSUME NEW s \in Seq(Job), NEW j \in Job
  PROVE  /\ Flushes(<<>>) = {}
         /\ j.kind = "flush" => Flushes(Append(s, j)) = Flushes(s) \cup {j}
         /\ j.kind # "flush" => Flushes(Append(s, j)) = Flushes(s)
<1> DEFINE t == Append(s, j)
<1>1. /\ Len(s) \in Nat /\ DOMAIN s = 1 .. Len(s)
      /\ DOMAIN t = 1 .. Len(s) + 1 /\ t[Len(s) + 1] = j
      /\ \A i \in 1 .. Len(s) : t[i] = s[i]
  OBVIOUS
<1> HIDE DEF t
<1>2. \A i \in DOMAIN t : i \in DOMAIN s \/ i = Len(s) + 1
  BY <1>1
<1>3. j.kind = "flush" => Flushes(t) = Flushes(s) \cup {j}
  <2> SUFFICES ASSUME j.kind = "flush"
               PROVE  Flushes(t) = Flushes(s) \cup {j}
    OBVIOUS
  <2>1. Flushes(t) \subseteq Flushes(s) \cup {j}
    BY <1>1, <1>2 DEF Flushes
  <2>2. j \in Flushes(t)
    BY <1>1 DEF Flushes
  <2>3. Flushes(s) \subseteq Flushes(t)
    BY <1>1 DEF Flushes
  <2> QED BY <2>1, <2>2, <2>3
<1>4. j.kind # "flush" => Flushes(t) = Flushes(s)
  <2> SUFFICES ASSUME j.kind # "flush"
               PROVE  Flushes(t) = Flushes(s)
    OBVIOUS
  <2>1. Flushes(t) \subseteq Flushes(s)
    BY <1>1, <1>2 DEF Flushes
  <2>2. Flushes(s) \subseteq Flushes(t)
    BY <1>1 DEF Flushes
  <2> QED BY <2>1, <2>2
<1>5. Flushes(<<>>) = {}
  BY DEF Flushes
<1> QED BY <1>3, <1>4, <1>5 DEF t

LEMMA FlushesConcat ==
  ASSUME NEW s \in Seq(Job), NEW t \in Seq(Job)
  PROVE  Flushes(s \o t) = Flushes(s) \cup Flushes(t)
<1> DEFINE u == s \o t
<1>1. /\ Len(s) \in Nat /\ DOMAIN s = 1 .. Len(s)
      /\ Len(t) \in Nat /\ DOMAIN t = 1 .. Len(t)
      /\ DOMAIN u = 1 .. Len(s) + Len(t)
      /\ \A i \in 1 .. Len(s) : u[i] = s[i]
      /\ \A i \in 1 .. Len(t) : u[Len(s) + i] = t[i]
  OBVIOUS
<1> HIDE DEF u
<1>2. \A i \in DOMAIN u : i \in DOMAIN s \/ \E k \in DOMAIN t : i = Len(s) + k
  <2> SUFFICES ASSUME NEW i \in DOMAIN u, i \notin DOMAIN s
               PROVE  \E k \in DOMAIN t : i = Len(s) + k
    OBVIOUS
  <2>1. i - Len(s) \in DOMAIN t /\ i = Len(s) + (i - Len(s))
    BY <1>1
  <2> QED BY <2>1
<1>3. Flushes(u) \subseteq Flushes(s) \cup Flushes(t)
  BY <1>1, <1>2 DEF Flushes
<1>4. Flushes(s) \subseteq Flushes(u)
  BY <1>1 DEF Flushes
<1>5. Flushes(t) \subseteq Flushes(u)
  <2>1. \A k \in DOMAIN t : Len(s) + k \in DOMAIN u
    BY <1>1
  <2> QED BY <1>1, <2>1 DEF Flushes
<1> QED BY <1>3, <1>4, <1>5 DEF u

\* Jobs that are no requests add none.
LEMMA ChosenSkips ==
  ASSUME NEW R, NEW s \in Seq(Job), NEW t \in Seq(Job),
         \A i \in DOMAIN t : t[i] \notin R
  PROVE  Chosen(s \o t, R) = Chosen(s, R)
<1> DEFINE Skips(u) == (\A i \in DOMAIN u : u[i] \notin R) => Chosen(s \o u, R) = Chosen(s, R)
           T == {u \in Seq(Job) : Skips(u)}
<1>1. <<>> \in T
  <2>1. s \o <<>> = s
    BY ConcatEmptySeq
  <2> QED BY <2>1
<1>2. ASSUME NEW u \in Seq(Job), NEW e \in Job, u \in T
      PROVE  Append(u, e) \in T
  <2>1. Append(u, e) \in Seq(Job)
    OBVIOUS
  <2>2. Skips(Append(u, e))
    <3> SUFFICES ASSUME \A i \in DOMAIN Append(u, e) : Append(u, e)[i] \notin R
                 PROVE  Chosen(s \o Append(u, e), R) = Chosen(s, R)
      OBVIOUS
    <3>0. /\ Len(u) \in Nat /\ DOMAIN u = 1 .. Len(u)
          /\ DOMAIN Append(u, e) = 1 .. Len(u) + 1
          /\ Append(u, e)[Len(u) + 1] = e
          /\ \A i \in 1 .. Len(u) : Append(u, e)[i] = u[i]
      BY Appended
    <3>1. \A i \in DOMAIN u : u[i] \notin R
      BY <3>0
    <3>2. e \notin R
      BY <3>0
    <3>3. s \o Append(u, e) = Append(s \o u, e) /\ s \o u \in Seq(Job)
      <4>1. /\ Append(u, e) = u \o <<e>> /\ <<e>> \in Seq(Job)
            /\ s \o u \in Seq(Job) /\ Append(s \o u, e) = (s \o u) \o <<e>>
        BY AppendIsConcat, ConcatProperties
      <4> QED BY <4>1, ConcatAssociative
    <3>4. Chosen(Append(s \o u, e), R) = Chosen(s \o u, R)
      <4> DEFINE v == s \o u
      <4>1. v \in Seq(Job)
        BY <3>3
      <4> HIDE DEF v
      <4>2. Chosen(Append(v, e), R) = IF e \in R THEN Append(Chosen(v, R), e) ELSE Chosen(v, R)
        BY <4>1, ChosenNext
      <4> QED BY <3>2, <4>2 DEF v
    <3> QED BY <1>2, <3>1, <3>3, <3>4
  <2> QED BY <2>1, <2>2
<1>3. t \in T
  <2> HIDE DEF T
  <2> QED BY <1>1, <1>2, EverySeq
<1> QED BY <1>3

\* The flushes that the redraws of s stand for.
Lit(s) == UNION {{Flush(d, i) : i \in Cached[d]} : d \in {e \in Devices : Contains(s, Redraw(e))}}

\* Expansion adds the flushes of the redraws and keeps the requests.
LEMMA ExpandKeeps ==
  ASSUME NEW R, Answered(R), NEW s \in Seq(Job)
  PROVE  /\ Flushes(expandRedraws(s, Cached)) = Flushes(s) \cup Lit(s)
         /\ Chosen(expandRedraws(s, Cached), R) = Chosen(s, R)
<1> DEFINE x(u) == expandRedraws(u, Cached)
           Kept(u) == Flushes(x(u)) = Flushes(u) \cup Lit(u) /\ Chosen(x(u), R) = Chosen(u, R)
           T == {u \in Seq(Job) : Kept(u)}
<1>0. \A u \in Seq(Job), j \in Job :
        x(<<>>) = <<>> /\ x(u) \in Seq(Job) /\ x(Append(u, j)) = x(u) \o expanded(j, Cached)
  BY ExpandNext
<1> HIDE DEF x
<1>1. <<>> \in T
  <2>1. \A d \in Devices : ~Contains(<<>>, Redraw(d))
    BY DEF Contains
  <2>2. Lit(<<>>) = {}
    BY <2>1 DEF Lit
  <2>3. <<>> \in Seq(Job) /\ Flushes(<<>>) = {} /\ x(<<>>) = <<>>
    <3>1. x(<<>>) = <<>>
      <4>1. \E d \in Devices : TRUE
        BY ConnectedIsADevice
      <4>2. PICK d \in Devices : TRUE
        BY <4>1
      <4>3. Redraw(d) \in Job /\ <<>> \in Seq(Job)
        BY DEF Redraw, Job
      <4> QED BY <1>0, <4>3
    <3> QED BY <3>1 DEF Flushes
  <2> QED BY <2>2, <2>3
<1>2. ASSUME NEW u \in Seq(Job), NEW j \in Job, u \in T
      PROVE  Append(u, j) \in T
  <2> DEFINE new == expanded(j, Cached)
  <2>1. new \in Seq(Job) /\ x(u) \in Seq(Job) /\ x(Append(u, j)) = x(u) \o new /\ Append(u, j) \in Seq(Job)
    BY <1>0, ExpandedIs
  <2>2. \A d \in Devices : Contains(Append(u, j), Redraw(d)) <=> Contains(u, Redraw(d)) \/ j = Redraw(d)
    <3> SUFFICES ASSUME NEW d \in Devices
                 PROVE  Contains(Append(u, j), Redraw(d)) <=> Contains(u, Redraw(d)) \/ j = Redraw(d)
      OBVIOUS
    <3> DEFINE r == Redraw(d)
    <3> HIDE DEF r
    <3>1. /\ Len(Append(u, j)) = Len(u) + 1 /\ Len(u) \in Nat /\ Append(u, j)[Len(u) + 1] = j
          /\ \A i \in 1 .. Len(u) : Append(u, j)[i] = u[i]
      OBVIOUS
    <3>2. Contains(Append(u, j), r) <=> Contains(u, r) \/ j = r
      BY <3>1 DEF Contains
    <3> QED BY <3>2 DEF r
  <2>3. Flushes(x(u)) = Flushes(u) \cup Lit(u) /\ Chosen(x(u), R) = Chosen(u, R)
    BY <1>2
  <2>4. Flushes(x(Append(u, j))) = Flushes(u) \cup Lit(u) \cup Flushes(new)
    BY <2>1, <2>3, FlushesConcat
  <2>5. CASE j.kind = "redraw"
    <3> DEFINE d == j.device
    <3>1. d \in Devices /\ j = Redraw(d)
      <4>1. j.index = 0 /\ j = [kind |-> "redraw", device |-> d, index |-> j.index] /\ d \in Devices
        BY <2>5 DEF Job
      <4> QED BY <4>1 DEF Redraw
    <3> HIDE DEF d
    <3>2. /\ \A i \in DOMAIN new : new[i].kind = "flush"
          /\ {new[i] : i \in DOMAIN new} = {Flush(d, l) : l \in Cached[d]}
      BY <2>5, ExpandedIs DEF d
    <3> HIDE DEF new
    <3>3. Flushes(new) = {Flush(d, l) : l \in Cached[d]}
      <4>1. {k \in DOMAIN new : new[k].kind = "flush"} = DOMAIN new
        BY <3>2
      <4> QED BY <3>2, <4>1 DEF Flushes
    <3>4. Lit(Append(u, j)) = Lit(u) \cup {Flush(d, l) : l \in Cached[d]}
      <4>1. \A e \in Devices : j = Redraw(e) <=> e = d
        BY <3>1 DEF Redraw
      <4> DEFINE F(e) == {Flush(e, l) : l \in Cached[e]}
                 D(s2) == {e \in Devices : Contains(s2, Redraw(e))}
      <4>2. D(Append(u, j)) = D(u) \cup {d}
        BY <2>2, <3>1, <4>1
      <4> HIDE DEF D, F
      <4>3. \A K : UNION {F(e) : e \in K \cup {d}} = (UNION {F(e) : e \in K}) \cup F(d)
        <5> SUFFICES ASSUME NEW K
                     PROVE  UNION {F(e) : e \in K \cup {d}} = (UNION {F(e) : e \in K}) \cup F(d)
          OBVIOUS
        <5> DEFINE A == UNION {F(e) : e \in K \cup {d}}
                   B == UNION {F(e) : e \in K}
        <5>1. A \subseteq B \cup F(d) /\ B \subseteq A
          OBVIOUS
        <5>2. F(d) \subseteq A
          <6>1. d \in K \cup {d}
            OBVIOUS
          <6> QED BY <6>1, Zenon
        <5> HIDE DEF A, B
        <5>3. A = B \cup F(d)
          BY <5>1, <5>2
        <5> QED BY <5>3 DEF A, B
      <4> QED BY <4>2, <4>3 DEF D, F, Lit
    <3>5. Flushes(Append(u, j)) = Flushes(u)
      BY <2>5, FlushesNext
    <3>6. Chosen(x(u) \o new, R) = Chosen(x(u), R)
      <4>1. \A i \in DOMAIN new : new[i] \notin R
        BY <3>2 DEF Answered
      <4> QED BY <2>1, <4>1, ChosenSkips
    <3>7. Chosen(Append(u, j), R) = Chosen(u, R)
      <4>1. j \notin R
        BY <2>5 DEF Answered
      <4> QED BY <4>1, ChosenNext
    <3>8. Kept(Append(u, j))
      BY <2>1, <2>3, <2>4, <3>3, <3>4, <3>5, <3>6, <3>7
    <3> QED BY <2>1, <3>8
  <2>6. CASE j.kind # "redraw"
    <3>1. new = <<j>>
      BY <2>6, ExpandedIs
    <3> HIDE DEF new
    <3>2. x(Append(u, j)) = Append(x(u), j)
      BY <2>1, <3>1, AppendIsConcat
    <3>3. Flushes(Append(x(u), j)) = Flushes(x(u)) \cup Flushes(Append(u, j))
      <4>1. /\ j.kind = "flush" => Flushes(Append(u, j)) = Flushes(u) \cup {j}
            /\ j.kind # "flush" => Flushes(Append(u, j)) = Flushes(u)
        BY FlushesNext
      <4>2. /\ j.kind = "flush" => Flushes(Append(x(u), j)) = Flushes(x(u)) \cup {j}
            /\ j.kind # "flush" => Flushes(Append(x(u), j)) = Flushes(x(u))
        BY <2>1, FlushesNext
      <4>3. Flushes(u) \subseteq Flushes(x(u))
        BY <2>3
      <4>4. CASE j.kind = "flush"
        BY <4>1, <4>2, <4>3, <4>4
      <4>5. CASE j.kind # "flush"
        BY <4>1, <4>2, <4>3, <4>5
      <4> QED BY <4>4, <4>5
    <3>4. Lit(Append(u, j)) = Lit(u)
      <4>1. \A e \in Devices : j # Redraw(e)
        BY <2>6 DEF Redraw
      <4>2. {e \in Devices : Contains(Append(u, j), Redraw(e))} = {e \in Devices : Contains(u, Redraw(e))}
        BY <2>2, <4>1
      <4> QED BY <4>2 DEF Lit
    <3>5. Flushes(u) \subseteq Flushes(Append(u, j))
      BY FlushesNext
    <3>6. Chosen(Append(x(u), j), R) = Chosen(Append(u, j), R)
      <4>1. Chosen(Append(u, j), R) = IF j \in R THEN Append(Chosen(u, R), j) ELSE Chosen(u, R)
        BY ChosenNext
      <4>2. Chosen(Append(x(u), j), R) = IF j \in R THEN Append(Chosen(x(u), R), j) ELSE Chosen(x(u), R)
        <5> DEFINE v == x(u)
        <5>1. v \in Seq(Job)
          BY <2>1
        <5> HIDE DEF v
        <5>2. Chosen(Append(v, j), R) = IF j \in R THEN Append(Chosen(v, R), j) ELSE Chosen(v, R)
          BY <5>1, ChosenNext
        <5> QED BY <5>2 DEF v
      <4> QED BY <2>3, <4>1, <4>2
    <3>7. Kept(Append(u, j))
      BY <2>3, <3>2, <3>3, <3>4, <3>5, <3>6
    <3> QED BY <2>1, <3>7
  <2> QED BY <2>5, <2>6
<1>3. s \in T
  <2> HIDE DEF T
  <2> QED BY <1>1, <1>2, EverySeq
<1> QED BY <1>3 DEF x

\* Deduplication keeps every LED's flush, once, and the requests.
LEMMA DedupeKeeps ==
  ASSUME NEW R, Answered(R), NEW s \in Seq(Job)
  PROVE  /\ Flushes(dedupeFlushes(s)) = Flushes(s)
         /\ Once(dedupeFlushes(s))
         /\ Chosen(dedupeFlushes(s), R) = Chosen(s, R)
<1> DEFINE x(u) == dedupeFlushes(u)
           Kept(u) == Flushes(x(u)) = Flushes(u) /\ Once(x(u)) /\ Chosen(x(u), R) = Chosen(u, R)
           T == {u \in Seq(Job) : Kept(u)}
<1>0. \A u \in Seq(Job), j \in Job :
        /\ x(<<>>) = <<>> /\ x(u) \in Seq(Job)
        /\ x(Append(u, j)) = IF j.kind = "flush" /\ Contains(x(u), j) THEN x(u) ELSE Append(x(u), j)
  BY DedupeNext
<1> HIDE DEF x
<1>1. <<>> \in T
  <2>1. Redraw(Connected) \in Job
    BY ConnectedIsADevice DEF Redraw, Job
  <2>2. x(<<>>) = <<>>
    BY <1>0, <2>1
  <2> QED BY <2>2 DEF Once
<1>2. ASSUME NEW u \in Seq(Job), NEW j \in Job, u \in T
      PROVE  Append(u, j) \in T
  <2> DEFINE v == x(u)
             w == x(Append(u, j))
  <2>1. v \in Seq(Job) /\ Append(u, j) \in Seq(Job)
    BY <1>0
  <2>2. w = IF j.kind = "flush" /\ Contains(v, j) THEN v ELSE Append(v, j)
    BY <1>0
  <2>3. Flushes(v) = Flushes(u) /\ Once(v) /\ Chosen(v, R) = Chosen(u, R)
    BY <1>2
  <2> HIDE DEF v, w
  <2>4. /\ j.kind = "flush" => Flushes(Append(u, j)) = Flushes(u) \cup {j}
        /\ j.kind # "flush" => Flushes(Append(u, j)) = Flushes(u)
    BY FlushesNext
  <2>5. /\ j.kind = "flush" => Flushes(Append(v, j)) = Flushes(v) \cup {j}
        /\ j.kind # "flush" => Flushes(Append(v, j)) = Flushes(v)
    BY <2>1, FlushesNext
  <2>6. Chosen(Append(u, j), R) = IF j \in R THEN Append(Chosen(u, R), j) ELSE Chosen(u, R)
    BY ChosenNext
  <2>7. Chosen(Append(v, j), R) = IF j \in R THEN Append(Chosen(v, R), j) ELSE Chosen(v, R)
    BY <2>1, ChosenNext
  <2>8. CASE j.kind = "flush" /\ Contains(v, j)
    <3>1. j \in Flushes(v)
      BY <2>8 DEF Contains, Flushes
    <3>2. j \notin R
      BY <2>8 DEF Answered
    <3>3. Flushes(w) = Flushes(Append(u, j)) /\ Once(w) /\ Chosen(w, R) = Chosen(Append(u, j), R)
      BY <2>2, <2>3, <2>4, <2>6, <2>8, <3>1, <3>2
    <3> QED BY <2>1, <3>3 DEF w
  <2>9. CASE ~(j.kind = "flush" /\ Contains(v, j))
    <3>1. w = Append(v, j)
      BY <2>2, <2>9
    <3>2. Flushes(w) = Flushes(Append(u, j))
      BY <2>3, <2>4, <2>5, <3>1
    <3>3. Chosen(w, R) = Chosen(Append(u, j), R)
      BY <2>3, <2>6, <2>7, <3>1
    <3>4. Once(w)
      <4>1. /\ Len(v) \in Nat /\ DOMAIN v = 1 .. Len(v)
            /\ DOMAIN w = 1 .. Len(v) + 1
            /\ w[Len(v) + 1] = j
            /\ \A i \in 1 .. Len(v) : w[i] = v[i]
        BY <2>1, <3>1, Appended
      <4>2. j.kind = "flush" => \A i \in DOMAIN v : v[i] # j
        BY <2>9 DEF Contains
      <4> SUFFICES ASSUME NEW i \in DOMAIN w, NEW k \in DOMAIN w, w[i] = w[k], w[i].kind = "flush"
                   PROVE  i = k
        BY DEF Once
      <4>3. CASE i \in DOMAIN v /\ k \in DOMAIN v
        BY <2>3, <4>1, <4>3 DEF Once
      <4>4. CASE i = Len(v) + 1
        BY <4>1, <4>2, <4>4
      <4>5. CASE k = Len(v) + 1
        BY <4>1, <4>2, <4>5
      <4> QED BY <4>1, <4>3, <4>4, <4>5
    <3> QED BY <2>1, <3>2, <3>3, <3>4 DEF w
  <2> QED BY <2>8, <2>9
<1>3. s \in T
  <2> HIDE DEF T
  <2> QED BY <1>1, <1>2, EverySeq
<1> QED BY <1>3 DEF x

(***************************************************************************)
(* What grouping makes of them.                                            *)
(***************************************************************************)
\* One report's worth of flushes, or one other job.
Run(ceiling, g) ==
  /\ \A i \in DOMAIN g : g[i].device = g[1].device /\ g[i].kind = g[1].kind
  /\ IF g[1].kind = "flush"
     THEN Len(g) <= ceiling /\ \A i \in DOMAIN g : g[i].index = g[1].index + i - 1
     ELSE Len(g) = 1

Runs(ceiling, groups) == \A n \in DOMAIN groups : Run(ceiling, groups[n])

\* A job that may join a run leaves a run.
LEMMA RunJoins ==
  ASSUME NEW ceiling \in Nat, NEW g \in Group, Run(ceiling, g), NEW j \in Job, Joins(g, j, ceiling)
  PROVE  Append(g, j) \in Group /\ Run(ceiling, Append(g, j))
<1> DEFINE h == Append(g, j)
<1>1. g \in Seq(Job) /\ g # <<>> /\ Len(g) >= 1
  BY DEF Group
<1>2. /\ Len(g) \in Nat /\ DOMAIN g = 1 .. Len(g)
      /\ DOMAIN h = 1 .. Len(g) + 1
      /\ h[Len(g) + 1] = j
      /\ \A i \in 1 .. Len(g) : h[i] = g[i]
  BY <1>1, Appended
<1>3. Len(h) = Len(g) + 1 /\ h \in Group
  BY <1>1 DEF Group
<1>4. h[1] = g[1] /\ g[1].index \in Nat
  <2>1. 1 \in DOMAIN g /\ g[1] \in Job
    BY <1>1, <1>2
  <2> QED BY <1>2, <2>1 DEF Job
<1> HIDE DEF h
<1>5. \A i \in DOMAIN h : h[i].device = h[1].device /\ h[i].kind = h[1].kind
  BY <1>1, <1>2, <1>4 DEF Run, Joins
<1>6. h[1].kind = "flush" /\ Len(h) <= ceiling
  BY <1>2, <1>3, <1>4 DEF Joins
<1>7. \A i \in DOMAIN h : h[i].index = h[1].index + i - 1
  <2>1. g[Len(g)].index = g[1].index + Len(g) - 1
    BY <1>1, <1>2, <1>4, <1>6 DEF Run
  <2>2. j.index = g[1].index + Len(g)
    BY <1>2, <1>4, <2>1 DEF Joins
  <2>3. \A i \in 1 .. Len(g) : g[i].index = g[1].index + i - 1
    BY <1>2, <1>4, <1>6 DEF Run
  <2> SUFFICES ASSUME NEW i \in DOMAIN h
               PROVE  h[i].index = h[1].index + i - 1
    OBVIOUS
  <2>4. CASE i = Len(g) + 1
    BY <1>2, <1>4, <2>2, <2>4
  <2>5. CASE i \in 1 .. Len(g)
    BY <1>2, <1>4, <2>3, <2>5
  <2> QED BY <1>2, <2>4, <2>5
<1> QED BY <1>3, <1>5, <1>6, <1>7 DEF Run, h

\* Placing a job keeps the runs, and adds the job at the end.
LEMMA PlacedKeeps ==
  ASSUME NEW ceiling \in Nat \ {0}, NEW groups \in Seq(Group), NEW j \in Job,
         Runs(ceiling, groups)
  PROVE  /\ Runs(ceiling, Placed(groups, j, ceiling))
         /\ FlattenSeq(Placed(groups, j, ceiling)) = Append(FlattenSeq(groups), j)
<1>0. groups \in Seq(Seq(Job)) /\ <<j>> \in Seq(Job) /\ <<j>> \in Group /\ FlattenSeq(groups) \in Seq(Job)
  <2>1. groups \in Seq(Seq(Job)) /\ <<j>> \in Seq(Job) /\ <<j>> \in Group
    BY DEF Group
  <2> QED BY <2>1, FlattenNext
<1>1. CASE groups # <<>> /\ Joins(Last(groups), j, ceiling)
  <2> DEFINE n == Len(groups)
             front == Front(groups)
             last == groups[n]
             g == Append(last, j)
             after == [groups EXCEPT ![n] = g]
  <2>1. /\ n \in 1 .. n /\ last \in Group /\ Run(ceiling, last) /\ DOMAIN groups = 1 .. n
        /\ Joins(last, j, ceiling) /\ last \in Seq(Job)
    BY <1>1 DEF Runs, Group, Last
  <2>2. g \in Group /\ Run(ceiling, g) /\ g \in Seq(Job)
    <3>1. g \in Group /\ Run(ceiling, g)
      BY <2>1, RunJoins
    <3> QED BY <3>1 DEF Group
  <2>3. g = last \o <<j>>
    BY <2>1, AppendIsConcat
  <2> HIDE DEF g
  <2>4. Placed(groups, j, ceiling) = after
    BY <1>1 DEF Placed, g
  <2>5. front \in Seq(Seq(Job)) /\ groups = Append(front, last) /\ after = Append(front, g)
    <3>1. /\ front \in Seq(Seq(Job)) /\ Len(front) = n - 1 /\ n \in Nat
          /\ \A i \in 1 .. n - 1 : front[i] = groups[i]
      BY <1>0, <1>1, SubSeqProperties DEF Front
    <3>2. after \in Seq(Seq(Job)) /\ Len(after) = n
      BY <1>0, <2>1, <2>2, ExceptSeq
    <3>3. after[n] = g /\ \A i \in 1 .. n - 1 : after[i] = groups[i]
      BY <2>1
    <3> HIDE DEF front, after, last, n
    <3>4. \A e \in Seq(Job) :
            /\ Append(front, e) \in Seq(Seq(Job)) /\ Len(Append(front, e)) = n
            /\ Append(front, e)[n] = e /\ \A i \in 1 .. n - 1 : Append(front, e)[i] = groups[i]
      <4> SUFFICES ASSUME NEW e \in Seq(Job)
                   PROVE  /\ Append(front, e) \in Seq(Seq(Job)) /\ Len(Append(front, e)) = n
                          /\ Append(front, e)[n] = e /\ \A i \in 1 .. n - 1 : Append(front, e)[i] = groups[i]
        OBVIOUS
      <4> QED BY <3>1
    <3>5. \A i \in 1 .. n : i = n \/ i \in 1 .. n - 1
      BY <3>1
    <3>6. groups = Append(front, last)
      <4>1. Len(groups) = n /\ groups[n] = last
        BY DEF n, last
      <4>2. \A i \in 1 .. n : groups[i] = Append(front, last)[i]
        BY <2>1, <3>4, <3>5, <4>1
      <4> QED BY <1>0, <2>1, <3>4, <4>1, <4>2, SeqEqual
    <3>7. after = Append(front, g)
      <4>1. \A i \in 1 .. n : after[i] = Append(front, g)[i]
        BY <2>2, <3>3, <3>4, <3>5
      <4> QED BY <2>2, <3>2, <3>4, <4>1, SeqEqual
    <3> QED BY <3>1, <3>6, <3>7
  <2>6. Runs(ceiling, after)
    BY <2>1, <2>2 DEF Runs
  <2> HIDE DEF front, after, last, n
  <2>7. FlattenSeq(groups) = FlattenSeq(front) \o last
    BY <2>1, <2>5, FlattenNext
  <2>8. FlattenSeq(after) = FlattenSeq(front) \o g /\ FlattenSeq(front) \in Seq(Job)
    BY <2>2, <2>5, FlattenNext
  <2>9. FlattenSeq(after) = FlattenSeq(groups) \o <<j>>
    BY <1>0, <2>1, <2>3, <2>7, <2>8, ConcatAssociative
  <2> QED BY <1>0, <2>4, <2>6, <2>9, AppendIsConcat
<1>2. CASE ~(groups # <<>> /\ Joins(Last(groups), j, ceiling))
  <2> DEFINE g == <<j>>
  <2>1. Placed(groups, j, ceiling) = Append(groups, g)
    BY <1>2 DEF Placed
  <2>2. Run(ceiling, g)
    <3>1. j.index \in Nat
      BY DEF Job
    <3> QED BY <3>1 DEF Run
  <2>3. g \in Group /\ g \in Seq(Job)
    BY <1>0
  <2> HIDE DEF g
  <2>4. Runs(ceiling, Append(groups, g))
    <3>1. /\ Len(groups) \in Nat /\ DOMAIN groups = 1 .. Len(groups)
          /\ DOMAIN Append(groups, g) = 1 .. Len(groups) + 1
          /\ Append(groups, g)[Len(groups) + 1] = g
          /\ \A i \in 1 .. Len(groups) : Append(groups, g)[i] = groups[i]
      BY <2>3, Appended
    <3> QED BY <2>2, <3>1 DEF Runs
  <2>5. FlattenSeq(Append(groups, g)) = FlattenSeq(groups) \o g
    BY <1>0, <2>3, FlattenNext
  <2> QED BY <1>0, <2>1, <2>4, <2>5, AppendIsConcat DEF g
<1> QED BY <1>1, <1>2

\* Grouping makes runs, and keeps the jobs in their order.
LEMMA GroupKeeps ==
  ASSUME NEW ceiling \in Nat \ {0}, NEW s \in Seq(Job)
  PROVE  /\ GroupsUpTo(ceiling, s) \in Seq(Group)
         /\ Runs(ceiling, GroupsUpTo(ceiling, s))
         /\ FlattenSeq(GroupsUpTo(ceiling, s)) = s
<1> DEFINE x(u) == GroupsUpTo(ceiling, u)
           Kept(u) == Runs(ceiling, x(u)) /\ FlattenSeq(x(u)) = u
           T == {u \in Seq(Job) : Kept(u)}
<1>0. \A u \in Seq(Job), j \in Job :
        x(<<>>) = <<>> /\ x(u) \in Seq(Group) /\ x(Append(u, j)) = Placed(x(u), j, ceiling)
  BY GroupsNext
<1>d. Redraw(Connected) \in Job
  BY ConnectedIsADevice DEF Redraw, Job
<1> HIDE DEF x
<1>1. <<>> \in T
  <2>1. x(<<>>) = <<>>
    BY <1>0, <1>d
  <2>2. FlattenSeq(<<>>) = <<>>
    <3> DEFINE none == <<>>
    <3>1. none \in Seq(Seq(Job)) /\ none \in Seq(Job)
      OBVIOUS
    <3> HIDE DEF none
    <3> QED BY <3>1, FlattenNext
  <2> QED BY <2>1, <2>2 DEF Runs
<1>2. ASSUME NEW u \in Seq(Job), NEW j \in Job, u \in T
      PROVE  Append(u, j) \in T
  <2>1. x(u) \in Seq(Group) /\ x(Append(u, j)) = Placed(x(u), j, ceiling) /\ Append(u, j) \in Seq(Job)
    BY <1>0
  <2>2. Runs(ceiling, x(u)) /\ FlattenSeq(x(u)) = u
    BY <1>2
  <2>3. Kept(Append(u, j))
    BY <2>1, <2>2, PlacedKeeps
  <2> QED BY <2>1, <2>3
<1>3. s \in T
  <2> HIDE DEF T
  <2> QED BY <1>1, <1>2, EverySeq
<1>4. x(s) \in Seq(Group)
  BY <1>0, <1>d
<1> QED BY <1>3, <1>4 DEF x

(***************************************************************************)
(* The link, under whatever batches.                                       *)
(***************************************************************************)
Reply == [cmd : {"uid", "mode", "keys", "number", "info"}, value : Nat]

\* An LED's info stands behind the count or behind the LED's before it.
Follows(before, r) ==
  \/ r.value = 0 /\ before.cmd = "number"
  \/ r.value > 0 /\ before.cmd = "info" /\ before.value = r.value - 1

Chained(q) == \A i \in 2 .. Len(q) : q[i].cmd = "info" => Follows(q[i - 1], q[i])

\* Counts are the board's, or bad.
Counted(q) == \A i \in 1 .. Len(q) : q[i].cmd = "number" => q[i].value \in {0, NumLEDs}

Queue == {q \in Seq(Reply) : Chained(q) /\ Counted(q)}

FirstLEDs(k) == [i \in 1 .. k |-> i - 1]

\* A query has k LEDs, in step with the queue at both of its ends.
QueryAt(k) ==
  /\ query = [count |-> NumLEDs, positions |-> FirstLEDs(k)]
  /\ replies # <<>> =>
       /\ Head(replies).cmd = "info" => Head(replies).value = k
       /\ Follows(replies[Len(replies)], [cmd |-> "info", value |-> k])

LinkInv ==
  /\ replies \in Queue
  /\ sending \in Seq({"keys", "caps"})
  /\ sending # <<>> => stage = "ready"
  /\ LayoutIsRight
  /\ query # NoQuery =>
       /\ sending # <<>> /\ Head(sending) = "caps" /\ caps = NoCaps
       /\ \E k \in 0 .. NumLEDs - 1 : QueryAt(k)

\* A reply may join the queue behind what it follows.
LEMMA QueueAppend ==
  ASSUME NEW q \in Queue, NEW a \in Reply,
         a.cmd = "number" => a.value \in {0, NumLEDs},
         a.cmd = "info" => q = <<>> \/ Follows(q[Len(q)], a)
  PROVE  Append(q, a) \in Queue
<1>1. q \in Seq(Reply) /\ Chained(q) /\ Counted(q)
  BY DEF Queue
<1> DEFINE s == Append(q, a)
<1>2. /\ s \in Seq(Reply) /\ Len(s) = Len(q) + 1 /\ Len(q) \in Nat
      /\ \A i \in 1 .. Len(q) : s[i] = q[i]
      /\ s[Len(q) + 1] = a
  BY <1>1
<1> HIDE DEF s
<1>3. Chained(s)
  <2> SUFFICES ASSUME NEW i \in 2 .. Len(s), s[i].cmd = "info" PROVE Follows(s[i - 1], s[i])
    BY DEF Chained
  <2>1. CASE i <= Len(q)
    <3>1. i \in 2 .. Len(q) /\ s[i] = q[i] /\ s[i - 1] = q[i - 1]
      BY <1>2, <2>1
    <3> QED BY <1>1, <3>1 DEF Chained
  <2>2. CASE i = Len(q) + 1
    <3>1. s[i] = a /\ s[i - 1] = q[Len(q)] /\ q # <<>>
      BY <1>2, <2>2
    <3> QED BY <3>1
  <2> QED BY <1>2, <2>1, <2>2
<1>4. Counted(s)
  <2> SUFFICES ASSUME NEW i \in 1 .. Len(s), s[i].cmd = "number" PROVE s[i].value \in {0, NumLEDs}
    BY DEF Counted
  <2>1. CASE i <= Len(q)
    BY <1>1, <1>2, <2>1 DEF Counted
  <2>2. CASE i = Len(q) + 1
    BY <1>2, <2>2
  <2> QED BY <1>2, <2>1, <2>2
<1> QED BY <1>2, <1>3, <1>4 DEF Queue, s

LEMMA QueueTail ==
  ASSUME NEW q \in Queue, q # <<>>
  PROVE  Tail(q) \in Queue
<1>1. q \in Seq(Reply) /\ Chained(q) /\ Counted(q)
  BY DEF Queue
<1>2. /\ Tail(q) \in Seq(Reply) /\ Len(Tail(q)) = Len(q) - 1 /\ Len(q) \in Nat
      /\ \A i \in 1 .. Len(q) - 1 : Tail(q)[i] = q[i + 1]
  BY <1>1
<1>3. Chained(Tail(q))
  <2> SUFFICES ASSUME NEW i \in 2 .. Len(q) - 1, q[i + 1].cmd = "info"
               PROVE  Follows(q[i], q[i + 1])
    BY <1>2 DEF Chained
  <2>1. i + 1 \in 2 .. Len(q) /\ i + 1 - 1 = i
    BY <1>2
  <2> QED BY <1>1, <2>1 DEF Chained
<1>4. Counted(Tail(q))
  BY <1>1, <1>2 DEF Counted
<1> QED BY <1>2, <1>3, <1>4 DEF Queue

\* What one exchange ends in: the reply read is the oldest one.
LEMMA ExchangeOutcome ==
  ASSUME replies \in Queue, NEW request,
         \A a \in Answers(request) :
           /\ a \in Reply /\ a.cmd = request.cmd
           /\ a.cmd = "number" => a.value \in {0, NumLEDs}
           /\ a.cmd = "info" => replies = <<>> \/ Follows(replies[Len(replies)], a),
         NEW out \in sendReport(request)
  PROVE  /\ out.replies \in Queue
         /\ \/ out.resp = NoReply
            \/ \E a \in Answers(request) :
                 out.resp = Head(Append(replies, a)) /\ out.replies = Tail(Append(replies, a))
<1>1. \A queue \in Sent(request) : queue \in Queue /\ \E a \in Answers(request) : queue = Append(replies, a)
  BY QueueAppend DEF Sent
<1>2. CASE out.resp = NoReply /\ out.replies \in Sent(request) \cup {replies}
  BY <1>1, <1>2
<1>3. ASSUME NEW queue \in Sent(request), out.resp = Head(queue), out.replies = Tail(queue)
      PROVE  /\ out.replies \in Queue
             /\ \E a \in Answers(request) :
                  out.resp = Head(Append(replies, a)) /\ out.replies = Tail(Append(replies, a))
  <2>1. PICK a \in Answers(request) : queue = Append(replies, a)
    BY <1>1
  <2>2. queue \in Queue /\ queue # <<>>
    <3>1. replies \in Seq(Reply) /\ a \in Reply
      BY DEF Queue
    <3> QED BY <1>1, <2>1, <3>1
  <2> QED BY <1>3, <2>1, <2>2, QueueTail
<1> QED BY <1>2, <1>3 DEF sendReport

\* A request that is no question about the layout.
LEMMA PlainExchange ==
  ASSUME replies \in Queue, NEW c \in {"uid", "mode", "keys"},
         NEW out \in sendReport([cmd |-> c, value |-> 0])
  PROVE  out.replies \in Queue
<1>1. \A a \in Answers([cmd |-> c, value |-> 0]) :
        a \in Reply /\ a.cmd = c
  BY DEF Answers, Reply
<1> QED BY <1>1, ExchangeOutcome

LEMMA InvAfterPlain ==
  ASSUME LinkInv, probeUID \/ SetDirectMode \/ SetKeys \/ CapsKnown
  PROVE  LinkInv'
<1>1. query = NoQuery
  BY DEF LinkInv, probeUID, SetDirectMode, SetKeys, CapsKnown
<1>2. replies' \in Queue
  <2>1. <<>> \in Queue
    BY DEF Queue, Chained, Counted
  <2>2. CASE probeUID
    BY <2>1, <2>2, PlainExchange DEF probeUID, LinkInv
  <2>3. CASE SetDirectMode
    BY <2>3, PlainExchange DEF SetDirectMode, LinkInv
  <2>4. CASE SetKeys
    BY <2>4, PlainExchange DEF SetKeys, LinkInv
  <2>5. CASE CapsKnown
    BY <2>5 DEF CapsKnown, LinkInv
  <2> QED BY <2>2, <2>3, <2>4, <2>5
<1>3. /\ query' = query /\ caps' = caps /\ sending' \in Seq({"keys", "caps"})
      /\ sending' # <<>> => stage' = "ready"
  BY DEF LinkInv, probeUID, SetDirectMode, SetKeys, CapsKnown
<1>4. LayoutIsRight'
  BY <1>3 DEF LinkInv, LayoutIsRight
<1> QED BY <1>1, <1>2, <1>3, <1>4 DEF LinkInv

LEMMA InvAfterBegin ==
  ASSUME LinkInv, NEW groups \in Seq({"keys", "caps"}), Begin(groups)
  PROVE  LinkInv'
<1>1. query = NoQuery
  BY DEF LinkInv, Begin, Idle
<1>2. LayoutIsRight'
  BY DEF LinkInv, Begin, LayoutIsRight
<1> QED BY <1>1, <1>2 DEF LinkInv, Begin, Idle

\* The count is the board's, if it is taken at all: the query begins.
LEMMA InvAfterCount ==
  ASSUME LinkInv, GetNumberLEDs
  PROVE  LinkInv'
<1> DEFINE request == [cmd |-> "number", value |-> 0]
<1>1. PICK out \in sendReport(request) :
        /\ replies' = out.replies
        /\ IF checkEcho(request, out.resp) /\ GoodCount(out.resp)
           THEN query' = [count |-> out.resp.value, positions |-> <<>>] /\ UNCHANGED <<sending, caps>>
           ELSE QueryEnds(NoCaps)
  BY DEF GetNumberLEDs
<1>2. /\ sending # <<>> /\ Head(sending) = "caps" /\ caps = NoCaps
      /\ stage = "ready" /\ stage' = stage /\ replies \in Queue /\ sending \in Seq({"keys", "caps"})
  BY DEF GetNumberLEDs, LinkInv
<1>3. Answers(request) = {[cmd |-> "number", value |-> n] : n \in {0, NumLEDs}}
  BY DEF Answers
<1>4. \A a \in Answers(request) :
        /\ a \in Reply /\ a.cmd = request.cmd
        /\ a.cmd = "number" => a.value \in {0, NumLEDs}
        /\ a.cmd # "info"
  BY <1>3, NumLEDsIsPositive DEF Reply
<1>5. /\ out.replies \in Queue
      /\ \/ out.resp = NoReply
         \/ \E a \in Answers(request) :
              out.resp = Head(Append(replies, a)) /\ out.replies = Tail(Append(replies, a))
  BY <1>2, <1>4, ExchangeOutcome
<1>6. CASE QueryEnds(NoCaps)
  BY <1>1, <1>2, <1>5, <1>6 DEF LinkInv, QueryEnds, LayoutIsRight
<1>7. CASE /\ checkEcho(request, out.resp) /\ GoodCount(out.resp)
           /\ query' = [count |-> out.resp.value, positions |-> <<>>] /\ UNCHANGED <<sending, caps>>
  <2>1. PICK a \in Answers(request) :
          out.resp = Head(Append(replies, a)) /\ out.replies = Tail(Append(replies, a))
    BY <1>5, <1>7 DEF checkEcho, NoReply
  <2> DEFINE q == Append(replies, a)
  <2>2. q \in Queue /\ q \in Seq(Reply) /\ q # <<>> /\ Len(q) = Len(replies) + 1 /\ q[Len(q)] = a
        /\ Len(replies) \in Nat
    <3>1. q \in Queue
      BY <1>2, <1>4, QueueAppend
    <3>2. replies \in Seq(Reply) /\ a \in Reply
      BY <1>2, <1>4 DEF Queue
    <3> QED BY <3>1, <3>2
  <2> HIDE DEF q
  <2>3. out.resp = q[1] /\ q[1].cmd = "number" /\ q[1].value = NumLEDs
    <3>1. out.resp = q[1]
      BY <2>1, <2>2 DEF q
    <3>2. 1 \in 1 .. Len(q)
      BY <2>2
    <3>3. q[1].cmd = "number" /\ q[1].value # 0
      BY <1>7, <3>1 DEF checkEcho, GoodCount
    <3> QED BY <2>2, <3>1, <3>2, <3>3 DEF Queue, Counted
  <2>4. replies' = Tail(q)
    BY <1>1, <2>1 DEF q
  <2>5. QueryAt(0)'
    <3>1. query' = [count |-> NumLEDs, positions |-> FirstLEDs(0)]
      BY <1>7, <2>3 DEF FirstLEDs
    <3>2. ASSUME replies' # <<>>
          PROVE  /\ Head(replies').cmd = "info" => Head(replies').value = 0
                 /\ Follows(replies'[Len(replies')], [cmd |-> "info", value |-> 0])
      <4>1. /\ Len(q) > 1 /\ Head(replies') = q[2] /\ 2 \in 2 .. Len(q)
            /\ replies'[Len(replies')] = q[Len(q)]
        BY <2>2, <2>4, <3>2
      <4>2. q[2].cmd = "info" => Follows(q[1], q[2])
        BY <2>2, <4>1 DEF Queue, Chained
      <4> QED BY <1>4, <2>2, <2>3, <4>1, <4>2 DEF Follows
    <3> QED BY <3>1, <3>2 DEF QueryAt
  <2> QED BY <1>1, <1>2, <1>5, <1>7, <2>5, NumLEDsIsPositive DEF LinkInv, LayoutIsRight
<1> QED BY <1>1, <1>6, <1>7

\* An info that is taken for LED k is LED k's, and the next in the queue is
\* LED k + 1's if it is an info.
LEMMA InvAfterInfo ==
  ASSUME LinkInv, GetLEDInfo
  PROVE  LinkInv'
<1>1. PICK k \in 0 .. NumLEDs - 1 : QueryAt(k)
  BY DEF LinkInv, GetLEDInfo
<1>2. /\ sending # <<>> /\ Head(sending) = "caps" /\ caps = NoCaps
      /\ stage = "ready" /\ stage' = stage /\ replies \in Queue /\ sending \in Seq({"keys", "caps"})
  BY DEF GetLEDInfo, LinkInv
<1>3. /\ query.count = NumLEDs /\ query.positions = FirstLEDs(k)
      /\ Len(query.positions) = k /\ k \in Nat /\ NumLEDs \in Nat
  BY <1>1, NumLEDsIsPositive DEF QueryAt, FirstLEDs
<1> DEFINE request == [cmd |-> "info", value |-> k]
           a == [cmd |-> "info", value |-> k]
<1>4. PICK out \in sendReport(request) :
        LET positions == Append(query.positions, out.resp.value)
        IN /\ replies' = out.replies
           /\ \/ ~checkEcho(request, out.resp) /\ QueryEnds(NoCaps)
              \/ /\ checkEcho(request, out.resp)
                 /\ IF Len(positions) = query.count
                    THEN QueryEnds(positions)
                    ELSE query' = [query EXCEPT !.positions = positions] /\ UNCHANGED <<sending, caps>>
  BY <1>3 DEF GetLEDInfo
<1>5. Answers(request) = {a} /\ a \in Reply
  BY <1>3 DEF Answers, Reply
<1>6. replies = <<>> \/ Follows(replies[Len(replies)], a)
  BY <1>1 DEF QueryAt
<1>7. /\ out.replies \in Queue
      /\ \/ out.resp = NoReply
         \/ out.resp = Head(Append(replies, a)) /\ out.replies = Tail(Append(replies, a))
  BY <1>2, <1>5, <1>6, ExchangeOutcome
<1>8. CASE ~checkEcho(request, out.resp)
  <2>1. QueryEnds(NoCaps)
    BY <1>4, <1>8
  <2> QED BY <1>2, <1>4, <1>7, <2>1 DEF LinkInv, QueryEnds, LayoutIsRight
<1>9. CASE checkEcho(request, out.resp)
  <2> DEFINE q == Append(replies, a)
  <2>1. out.resp = Head(q) /\ out.replies = Tail(q)
    BY <1>7, <1>9 DEF checkEcho, NoReply
  <2>2. /\ q \in Queue /\ q \in Seq(Reply) /\ q # <<>>
        /\ Len(q) = Len(replies) + 1 /\ Len(replies) \in Nat /\ q[Len(q)] = a
        /\ replies # <<>> => Head(q) = Head(replies)
    <3>1. q \in Queue
      BY <1>2, <1>5, <1>6, QueueAppend
    <3>2. replies \in Seq(Reply)
      BY <1>2 DEF Queue
    <3> QED BY <1>5, <3>1, <3>2
  <2>3. q[1] = out.resp /\ q[1].cmd = "info" /\ q[1].value = k
    <3>1. q[1] = out.resp /\ q[1].cmd = "info"
      BY <1>9, <2>1, <2>2 DEF checkEcho
    <3>2. CASE replies = <<>>
      BY <2>2, <3>1, <3>2
    <3>3. CASE replies # <<>>
      BY <1>1, <2>1, <2>2, <3>1, <3>3 DEF QueryAt
    <3> QED BY <3>1, <3>2, <3>3
  <2> HIDE DEF q
  <2> DEFINE positions == Append(query.positions, out.resp.value)
  <2>4. positions = FirstLEDs(k + 1) /\ Len(positions) = k + 1
    <3>1. positions = Append(FirstLEDs(k), k)
      BY <1>3, <2>3
    <3>2. Append(FirstLEDs(k), k) = FirstLEDs(k + 1)
      BY <1>3 DEF FirstLEDs
    <3>3. Len(FirstLEDs(k + 1)) = k + 1
      BY <1>3 DEF FirstLEDs
    <3> QED BY <3>1, <3>2, <3>3
  <2>5. CASE k + 1 = NumLEDs
    <3>1. QueryEnds(positions)
      BY <1>3, <1>4, <1>9, <2>4, <2>5
    <3>2. caps' = FirstLEDs(NumLEDs) /\ query' = NoQuery /\ sending' = Tail(sending)
      BY <2>4, <2>5, <3>1 DEF QueryEnds
    <3> QED BY <1>2, <1>4, <1>7, <3>2 DEF LinkInv, LayoutIsRight, FirstLEDs
  <2>6. CASE k + 1 # NumLEDs
    <3>1. query' = [query EXCEPT !.positions = positions] /\ UNCHANGED <<sending, caps>>
      BY <1>3, <1>4, <1>9, <2>4, <2>6
    <3>2. query' = [count |-> NumLEDs, positions |-> FirstLEDs(k + 1)]
      BY <1>1, <2>4, <3>1 DEF QueryAt
    <3>3. ASSUME replies' # <<>>
          PROVE  /\ Head(replies').cmd = "info" => Head(replies').value = k + 1
                 /\ Follows(replies'[Len(replies')], [cmd |-> "info", value |-> k + 1])
      <4>1. /\ Len(q) > 1 /\ Head(replies') = q[2] /\ 2 \in 2 .. Len(q)
            /\ replies'[Len(replies')] = q[Len(q)]
        BY <1>4, <2>1, <2>2, <3>3
      <4>2. q[2].cmd = "info" => Follows(q[1], q[2])
        BY <2>2, <4>1 DEF Queue, Chained
      <4>3. q[2] \in Reply
        BY <2>2, <4>1
      <4> QED BY <1>3, <2>2, <2>3, <4>1, <4>2, <4>3 DEF Follows, Reply
    <3>4. QueryAt(k + 1)'
      BY <3>2, <3>3 DEF QueryAt
    <3>5. k + 1 \in 0 .. NumLEDs - 1
      BY <1>3, <2>6
    <3> QED BY <1>2, <1>4, <1>7, <3>1, <3>4, <3>5 DEF LinkInv, LayoutIsRight
  <2> QED BY <2>5, <2>6
<1> QED BY <1>8, <1>9

\* Whatever batches a board is sent, and however many replies are late, a
\* layout the registry stores is the board's own: no reply to one LED is taken
\* for another's (protocol.go:140-154, dispatcher.go:318-347).
THEOREM LayoutIsAlwaysRight == LinkSpec => []LayoutIsRight
<1>1. InitLink => LinkInv
  BY DEF InitLink, LinkInv, LayoutIsRight, Queue, Chained, Counted
<1>2. LinkInv /\ [Exchange \/ \E groups \in Seq({"keys", "caps"}) : Begin(groups)]_link => LinkInv'
  <2> SUFFICES ASSUME LinkInv, [Exchange \/ \E groups \in Seq({"keys", "caps"}) : Begin(groups)]_link
               PROVE  LinkInv'
    OBVIOUS
  <2>1. CASE UNCHANGED link
    BY <2>1 DEF link, LinkInv, LayoutIsRight, QueryAt
  <2> QED BY <2>1, InvAfterPlain, InvAfterBegin, InvAfterCount, InvAfterInfo DEF Exchange
<1>3. LinkInv => LayoutIsRight
  BY DEF LinkInv
<1> QED BY <1>1, <1>2, <1>3, PTL DEF LinkSpec

(***************************************************************************)
(* What the passes make of any batch.                                      *)
(***************************************************************************)
LEMMA BatchPasses ==
  ASSUME NEW R, Answered(R), BatchTypeOK
  PROVE  /\ Groups \in Seq(Group) /\ Runs(MaxBatch, Groups)
         /\ FlattenSeq(Groups) = Deduped
         /\ Once(Deduped)
         /\ Flushes(Deduped) = Flushes(batch) \cup Lit(batch)
         /\ Chosen(Deduped, R) = Chosen(batch, R)
<1>1. batch \in Seq(Job)
  BY JobsTyped, SeqMonotonic DEF BatchTypeOK
<1>2. Redraw(Connected) \in Job
  BY ConnectedIsADevice DEF Redraw, Job
<1>3. /\ Expanded \in Seq(Job)
      /\ Flushes(Expanded) = Flushes(batch) \cup Lit(batch)
      /\ Chosen(Expanded, R) = Chosen(batch, R)
  BY <1>1, <1>2, ExpandNext, ExpandKeeps DEF Expanded
<1>4. /\ Deduped \in Seq(Job)
      /\ Flushes(Deduped) = Flushes(Expanded) /\ Once(Deduped)
      /\ Chosen(Deduped, R) = Chosen(Expanded, R)
  BY <1>2, <1>3, DedupeNext, DedupeKeeps DEF Deduped
<1>5. Groups \in Seq(Group) /\ Runs(MaxBatch, Groups) /\ FlattenSeq(Groups) = Deduped
  BY <1>4, MaxBatchIsPositive, GroupKeeps DEF Groups, groupForSend
<1> QED BY <1>3, <1>4, <1>5

LEMMA NoneAnswered == Answered({})
BY DEF Answered

\* A batch holds jobs that are asked for, never more than the bound
\* (dispatcher.go:110-121).
THEOREM BatchIsTyped == Spec => []BatchTypeOK
<1>1. Init => BatchTypeOK
  BY MaxLenIsNat DEF Init, BatchTypeOK
<1>2. BatchTypeOK /\ [Next]_<<batch, link>> => BatchTypeOK'
  <2> SUFFICES ASSUME BatchTypeOK, [Next]_<<batch, link>>
               PROVE  BatchTypeOK'
    OBVIOUS
  <2>1. CASE drainAfter
    <3>1. PICK j \in Jobs : batch' = Append(batch, j)
      BY <2>1 DEF drainAfter
    <3>2. batch \in Seq(Jobs) /\ Len(batch) < MaxLen
      BY <2>1 DEF drainAfter, BatchTypeOK
    <3>3. Append(batch, j) \in Seq(Jobs) /\ Len(Append(batch, j)) = Len(batch) + 1 /\ Len(batch) \in Nat
      BY <3>2
    <3> QED BY <3>1, <3>2, <3>3, MaxLenIsNat DEF BatchTypeOK
  <2>2. CASE process
    BY <2>2, MaxLenIsNat DEF process, BatchTypeOK
  <2>3. CASE UNCHANGED batch
    BY <2>3 DEF BatchTypeOK
  <2> QED BY <2>1, <2>2, <2>3 DEF Next
<1> QED BY <1>1, <1>2, PTL DEF Spec

\* Whatever is drained together, and whatever the frame buffer holds, the
\* groups flush every LED that the batch flushes or redraws, none besides, and
\* none twice (dispatcher.go:128-142, batch.go:44-65).
THEOREM NothingIsEverLost == Spec => []NothingIsLost
<1>1. ASSUME BatchTypeOK
      PROVE  NothingIsLost
  <2> DEFINE sent == FlattenSeq(Groups)
  <2>1. sent = Deduped /\ Once(Deduped) /\ Flushes(Deduped) = Flushes(batch) \cup Lit(batch)
    BY <1>1, NoneAnswered, BatchPasses
  <2>2. Lit(batch) = UNION {{Flush(d, i) : i \in Cached[d]} : d \in Redrawn}
    BY DEF Lit, Redrawn
  <2> HIDE DEF sent
  <2>3. \A i, k \in DOMAIN sent : sent[i] = sent[k] /\ sent[i].kind = "flush" => i = k
    BY <2>1 DEF Once
  <2>4. Flushes(sent) = Flushes(batch) \cup UNION {{Flush(d, i) : i \in Cached[d]} : d \in Redrawn}
    BY <2>1, <2>2
  <2> QED BY <2>3, <2>4, Zenon DEF sent, NothingIsLost
<1> QED BY <1>1, BatchIsTyped, PTL

\* SetKeys is never called with keys it would refuse: a group is one device's,
\* contiguous and no longer than a report (batch.go:11-42,
\* protocol.go:173-175).
THEOREM GroupsAlwaysSendable == Spec => []GroupsAreSendable
<1>1. ASSUME BatchTypeOK
      PROVE  GroupsAreSendable
  <2>1. Groups \in Seq(Group) /\ Runs(MaxBatch, Groups)
    BY <1>1, NoneAnswered, BatchPasses
  <2> SUFFICES ASSUME NEW n \in DOMAIN Groups
               PROVE  LET group == Groups[n]
                      IN /\ \A i \in DOMAIN group : group[i].device = group[1].device /\ group[i].kind = group[1].kind
                         /\ IF group[1].kind = "flush"
                            THEN ~Refused([i \in DOMAIN group |-> group[i].index])
                            ELSE Len(group) = 1
    BY DEF GroupsAreSendable
  <2> DEFINE group == Groups[n]
             keys == [i \in DOMAIN group |-> group[i].index]
  <2>2. group \in Group /\ Run(MaxBatch, group)
    BY <2>1 DEF Runs
  <2> HIDE DEF group
  <2>3. group \in Seq(Job) /\ group # <<>>
    BY <2>2 DEF Group
  <2>4. ASSUME group[1].kind = "flush"
        PROVE  ~Refused(keys)
    <3>1. /\ DOMAIN group = 1 .. Len(group) /\ Len(group) \in Nat /\ 1 \in DOMAIN group
          /\ \A i \in DOMAIN group : group[i].index \in Nat
      BY <2>3 DEF Job
    <3>2. Len(keys) = Len(group)
      <4>1. keys \in Seq(Nat)
        BY <3>1
      <4>2. DOMAIN keys = 1 .. Len(group)
        BY <3>1
      <4> HIDE DEF keys
      <4> QED BY <3>1, <4>1, <4>2
    <3>3. Len(group) <= MaxBatch /\ \A i \in DOMAIN group : group[i].index = group[1].index + i - 1
      BY <2>2, <2>4 DEF Run
    <3>4. \A i \in DOMAIN keys : keys[i] = keys[1] + i - 1
      BY <3>1, <3>3
    <3> HIDE DEF keys
    <3> QED BY <3>1, <3>2, <3>3, <3>4, MaxBatchIsPositive DEF Refused
  <2> QED BY <2>2, <2>4 DEF Run, group
<1> QED BY <1>1, BatchIsTyped, PTL

\* A caller that waits for a reply gets one, and one only, after those that
\* asked before it: no request is dropped, repeated or overtaken, and the
\* groups hold the jobs in the order of the batch (batch.go:8-42,
\* dispatcher.go:144-155).
THEOREM ArrivalOrderIsAlwaysKept == Spec => []ArrivalOrderIsKept
<1>1. ASSUME BatchTypeOK
      PROVE  ArrivalOrderIsKept
  <2> DEFINE requests == {j \in Jobs : j.kind \notin {"flush", "redraw"}}
  <2>1. Answered(requests)
    BY DEF Answered
  <2> HIDE DEF requests
  <2>2. FlattenSeq(Groups) = Deduped /\ Chosen(Deduped, requests) = Chosen(batch, requests)
    BY <1>1, <2>1, BatchPasses
  <2> QED BY <2>2 DEF requests, ArrivalOrderIsKept
<1> QED BY <1>1, BatchIsTyped, PTL

\* What the dispatcher sends is a sequence of requests, so that whatever it
\* drains is one of the batches that the link is proved for.
THEOREM DispatchImplementsLink == Spec => LinkSpec
<1>1. Init => InitLink
  BY DEF Init
<1>2. BatchTypeOK /\ [Next]_<<batch, link>>
        => [Exchange \/ \E groups \in Seq({"keys", "caps"}) : Begin(groups)]_link
  <2> SUFFICES ASSUME BatchTypeOK, [Next]_<<batch, link>>
               PROVE  [Exchange \/ \E groups \in Seq({"keys", "caps"}) : Begin(groups)]_link
    OBVIOUS
  <2>1. CASE process
    <3> DEFINE wanted == {g \in ToSet(Groups) : g[1].device = Connected}
               groups == Chosen(Groups, wanted)
               names == [i \in DOMAIN groups |-> IF groups[i][1].kind = "caps" THEN "caps" ELSE "keys"]
    <3>1. Groups \in Seq(Group)
      BY NoneAnswered, BatchPasses
    <3>2. Begin(names)
      BY <2>1 DEF process
    <3> HIDE DEF wanted
    <3>3. groups \in Seq(Group)
      <4>1. <<Redraw(Connected)>> \in Group
        BY ConnectedIsADevice DEF Redraw, Job, Group
      <4> QED BY <3>1, <4>1, ChosenNext
    <3> HIDE DEF groups
    <3>4. names \in Seq({"keys", "caps"})
      BY <3>3
    <3> QED BY <3>2, <3>4
  <2>2. CASE drainAfter
    BY <2>2 DEF drainAfter
  <2>3. CASE Exchange
    BY <2>3
  <2>4. CASE UNCHANGED <<batch, link>>
    BY <2>4
  <2> QED BY <2>1, <2>2, <2>3, <2>4 DEF Next
<1> QED BY <1>1, <1>2, BatchIsTyped, PTL DEF Spec, LinkSpec

\* So under the dispatcher's own batches too a layout that is stored is the
\* board's (dispatcher.go:318-347).
THEOREM DispatchedLayoutIsRight == Spec => []LayoutIsRight
BY DispatchImplementsLink, LayoutIsAlwaysRight, PTL
==============================================================================

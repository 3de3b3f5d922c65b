------------------------- MODULE EffectsEngineProofs -------------------------
(***************************************************************************)
(* Proofs about Timelines and EffectsEngine for every set of keys,         *)
(* requests, definitions and templates.                                    *)
(*                                                                         *)
(* First the compiler and the timelines: what a set of definitions         *)
(* compiles to, and that it plays what the definitions say.  compile, At   *)
(* and Script are recursive functions over names, and a name may refer to  *)
(* any other: each is shown to exist, and is then reasoned about, by a     *)
(* rank that goes down along references (Recursion).  The rank exists      *)
(* because no set of definitions that compiles refers to itself for ever.  *)
(*                                                                         *)
(* Then the engine.  FramesAreDue and RunsAreRecorded are proved whatever  *)
(* a timeline plays and whether or not the configuration compiled;         *)
(* StatusIsTrue of what Load makes of one.  FramesAreDue alone is not      *)
(* inductive: Tick writes only frames that differ from the last one of     *)
(* the run, so the run's last frame must be what the key shows, and it     *)
(* clamps the elapsed time, so no time that waits in the ticker's channel  *)
(* or in a handler may lie in the future.                                  *)
(***************************************************************************)
EXTENDS EffectsEngine, Recursion

(***************************************************************************)
(* The configurations that a file can hold.                                *)
(***************************************************************************)
IsStage(sd) ==
  \/ sd = Malformed
  \/ \E c : \E d \in Nat : sd = Solid(c, d)
  \/ \E c, other, period, duty : \E d \in Nat :
       \/ sd = Wave("alternate", c, other, period, duty, d)
       \/ sd = Wave("breathe", c, other, period, duty, d)
  \/ \E ref : \E d \in Nat : sd = Nested(ref, d)

IsStages(stages) ==
  /\ Len(stages) \in Nat
  /\ stages = [i \in 1 .. Len(stages) |-> stages[i]]
  /\ \A i \in 1 .. Len(stages) : IsStage(stages[i])

IsConfig(ds) ==
  /\ IsFiniteSet(DOMAIN ds)
  /\ \A n \in DOMAIN ds : IsStages(ds[n].stages)

\* Invalid stands for no definition, stage, timeline or library.
InvalidIsNoValue ==
  /\ \A sd : IsStage(sd) => sd # Invalid
  /\ \A stages, final : [stages |-> stages, final |-> final] # Invalid
  /\ \A S, f : [n \in S |-> f[n]] # Invalid

\* A stage that is given a duration is the same but for that.
SameStage(u, sd) ==
  /\ u.kind = sd.kind
  /\ sd.kind = "color" => u.color = sd.color
  /\ sd.kind = "effect" => u.ref = sd.ref
  /\ sd.kind = "breathe" => \A e \in Int : breatheFrame(u, e) = breatheFrame(sd, e)
  /\ sd.kind = "alternate" => \A e \in Int : alternateFrame(u, e) = alternateFrame(sd, e)

Kinds == {"color", "breathe", "alternate", "effect"}

LEMMA StageKinds ==
  ASSUME NEW sd, IsStage(sd)
  PROVE  sd.kind \in Kinds \cup {"malformed"} /\ sd.dur \in Nat
BY DEF IsStage, Malformed, Solid, Wave, Nested, Kinds

LEMMA StageWithDur ==
  ASSUME NEW sd, IsStage(sd), sd.kind # "malformed", NEW d \in Nat
  PROVE  LET u == [sd EXCEPT !.dur = d]
         IN IsStage(u) /\ u.dur = d /\ SameStage(u, sd)
<1> DEFINE u == [sd EXCEPT !.dur = d]
<1>1. ASSUME NEW c, NEW e \in Nat, sd = Solid(c, e)
      PROVE  IsStage(u) /\ u.dur = d /\ SameStage(u, sd)
  <2>1. u = Solid(c, d)
    BY <1>1 DEF Solid
  <2>2. IsStage(u)
    BY <2>1 DEF IsStage
  <2>3. u.kind = "color" /\ sd.kind = "color" /\ u.dur = d /\ u.color = sd.color
    BY <1>1, <2>1 DEF Solid
  <2> QED BY <2>2, <2>3 DEF SameStage
<1>2. ASSUME NEW name, name = "alternate" \/ name = "breathe",
             NEW c, NEW other, NEW period, NEW duty, NEW e \in Nat,
             sd = Wave(name, c, other, period, duty, e)
      PROVE  IsStage(u) /\ u.dur = d /\ SameStage(u, sd)
  <2>1. u = Wave(name, c, other, period, duty, d)
    BY <1>2 DEF Wave
  <2>2. IsStage(u)
    BY <1>2, <2>1 DEF IsStage
  <2>3. /\ u.kind = name /\ sd.kind = name /\ u.dur = d /\ u.color = sd.color
        /\ u.other = sd.other /\ u.period = sd.period /\ u.duty = sd.duty
    BY <1>2, <2>1 DEF Wave
  <2>4. \A x : breatheFrame(u, x) = breatheFrame(sd, x) /\ alternateFrame(u, x) = alternateFrame(sd, x)
    BY <2>3 DEF breatheFrame, alternateFrame, phase
  <2> QED BY <1>2, <2>2, <2>3, <2>4 DEF SameStage
<1>3. ASSUME NEW ref, NEW e \in Nat, sd = Nested(ref, e)
      PROVE  IsStage(u) /\ u.dur = d /\ SameStage(u, sd)
  <2>1. u = Nested(ref, d)
    BY <1>3 DEF Nested
  <2>2. IsStage(u)
    BY <2>1 DEF IsStage
  <2>3. u.kind = "effect" /\ sd.kind = "effect" /\ u.dur = d /\ u.ref = sd.ref
    BY <1>3, <2>1 DEF Nested
  <2> QED BY <2>2, <2>3 DEF SameStage
<1>4. sd # Malformed
  BY DEF Malformed
<1> HIDE DEF u
<1> QED BY <1>1, <1>2, <1>3, <1>4 DEF IsStage, u

\* StageEnds adds up the durations.
LEMMA EndsAddUp ==
  ASSUME NEW stages, IsStages(stages)
  PROVE  LET ends == StageEnds(stages)
         IN /\ ends \in [0 .. Len(stages) -> Nat]
            /\ ends[0] = 0
            /\ \A i \in 1 .. Len(stages) : ends[i] = ends[i - 1] + stages[i].dur
<1> DEFINE n == Len(stages)
           step == [p \in Nat \X (1 .. n) |-> p[1] + stages[p[2]].dur]
           Is(f) == f = [i \in 0 .. n |-> IF i = 0 THEN 0 ELSE f[i - 1] + stages[i].dur]
           ends == CHOOSE f : Is(f)
<1>0. n \in Nat /\ \A i \in 1 .. n : stages[i].dur \in Nat
  BY StageKinds DEF IsStages
<1>1. step \in [Nat \X (1 .. n) -> Nat]
  BY <1>0
<1>2. PICK f \in [0 .. n -> Nat] : Loop(f, n, 0, step)
  <2> HIDE DEF step, n
  <2> QED BY <1>0, <1>1, LoopExists
<1>3. Is(f)
  <2>1. f = [i \in 0 .. n |-> IF i = 0 THEN 0 ELSE step[<<f[i - 1], i>>]]
    BY <1>2 DEF Loop
  <2>2. \A i \in 0 .. n : i # 0 => step[<<f[i - 1], i>>] = f[i - 1] + stages[i].dur
    <3> SUFFICES ASSUME NEW i \in 0 .. n, i # 0
                 PROVE  step[<<f[i - 1], i>>] = f[i - 1] + stages[i].dur
      OBVIOUS
    <3>1. f[i - 1] \in Nat /\ i \in 1 .. n
      BY <1>0
    <3>2. <<f[i - 1], i>> \in Nat \X (1 .. n)
      BY <3>1
    <3> QED BY <3>2
  <2> HIDE DEF step, n
  <2> QED BY <2>1, <2>2
<1>4. Is(ends)
  <2> HIDE DEF Is
  <2> QED BY <1>3
<1>5. ends = StageEnds(stages)
  BY Zenon DEF StageEnds
<1> HIDE DEF ends
<1>6. ends[0] = 0 /\ Over(ends, n) /\ \A i \in 1 .. n : ends[i] = ends[i - 1] + stages[i].dur
  <2>1. \A i \in 0 .. n : ends[i] = IF i = 0 THEN 0 ELSE ends[i - 1] + stages[i].dur
    BY <1>4
  <2>2. Over(ends, n)
    BY <1>4 DEF Over
  <2> HIDE DEF n, Is
  <2> QED BY <1>0, <2>1, <2>2
<1>7. f[0] = 0 /\ Over(f, n) /\ \A i \in 1 .. n : f[i] = f[i - 1] + stages[i].dur
  BY <1>0, <1>3 DEF Over
<1>8. ends = f
  <2>1. \A i \in 1 .. n : ends[i - 1] = f[i - 1] => ends[i] = f[i]
    BY <1>6, <1>7
  <2> HIDE DEF n, Is
  <2> QED BY <1>0, <1>6, <1>7, <2>1, OneLoop
<1> QED BY <1>5, <1>6, <1>8

LEMMA TotalMeans ==
  ASSUME NEW tl, IsStages(tl.stages), Len(tl.stages) # 0
  PROVE  /\ Total(tl) \in Nat
         /\ Total(tl) = 0 <=> \E i \in 1 .. Len(tl.stages) : tl.stages[i].dur = 0
         /\ Total(tl) # 0 => Total(tl) = StageEnds(tl.stages)[Len(tl.stages)]
<1> DEFINE n == Len(tl.stages)
           ends == StageEnds(tl.stages)
<1>1. n \in 1 .. n /\ DOMAIN tl.stages = 1 .. n /\ tl.stages[n].dur \in Nat
  <2>1. n \in Nat /\ DOMAIN tl.stages = 1 .. n
    BY DEF IsStages
  <2>2. n \in 1 .. n
    BY <2>1
  <2> QED BY <2>1, <2>2, StageKinds DEF IsStages
<1>2. ends[n] \in Nat /\ ends[n - 1] \in Nat /\ ends[n] = ends[n - 1] + tl.stages[n].dur
  <2>1. /\ ends \in [0 .. n -> Nat]
        /\ \A i \in 1 .. n : ends[i] = ends[i - 1] + tl.stages[i].dur
    BY EndsAddUp
  <2>2. n \in 0 .. n /\ n - 1 \in 0 .. n
    BY <1>1
  <2> HIDE DEF n, ends
  <2> QED BY <1>1, <2>1, <2>2
<1> HIDE DEF n, ends
<1>3. Total(tl) = IF \E i \in 1 .. n : tl.stages[i].dur = 0 THEN 0 ELSE ends[n]
  BY <1>1, Zenon DEF Total, n, ends
<1> QED BY <1>1, <1>2, <1>3 DEF n, ends

------------------------------------------------------------------------------
(***************************************************************************)
(* The compiler, one definition at a time.                                 *)
(***************************************************************************)
\* What definition n compiles to when stage i refers to what compiles to
\* nested[i].
TimelineFrom(ds, n, nested) ==
  LET stages == ds[n].stages
  IN finish(ds[n], [i \in DOMAIN stages |-> compileStage(stages[i], i = Len(stages), nested[i])])

Given(ds, n, nested) ==
  \A i \in 1 .. Len(ds[n].stages) :
    IF ds[n].stages[i].kind = "effect"
    THEN nested[i] = Invalid \/ (IsStages(nested[i].stages) /\ Len(nested[i].stages) # 0)
    ELSE nested[i] = ds[n].stages[i]

DurOf(sd, nested) == IF sd.kind = "effect" /\ sd.dur = 0 THEN Total(nested) ELSE sd.dur

\* The definition is one to accept, and tl is what it compiles to.
Accepts(ds, n, nested) ==
  LET stages == ds[n].stages
  IN /\ Len(stages) # 0
     /\ \A i \in 1 .. Len(stages) :
          /\ stages[i].kind # "malformed" /\ nested[i] # Invalid
          /\ DurOf(stages[i], nested[i]) # 0 \/ i = Len(stages)
     /\ DurOf(stages[Len(stages)], nested[Len(stages)]) = 0 \/ ds[n].final # Invalid

Plays(tl, ds, n, nested) ==
  LET stages == ds[n].stages
  IN /\ tl = [stages |-> tl.stages, final |-> ds[n].final]
     /\ IsStages(tl.stages) /\ Len(tl.stages) = Len(stages) /\ Len(stages) # 0
     /\ \A i \in 1 .. Len(stages) :
          /\ tl.stages[i] = [stages[i] EXCEPT !.dur = DurOf(stages[i], nested[i])]
          /\ SameStage(tl.stages[i], stages[i])
          /\ tl.stages[i].dur = DurOf(stages[i], nested[i])
          /\ DurOf(stages[i], nested[i]) \in Nat
     /\ Total(tl) = 0 <=> DurOf(stages[Len(stages)], nested[Len(stages)]) = 0

LEMMA StageCompiles ==
  ASSUME InvalidIsNoValue, NEW sd, IsStage(sd), NEW last \in BOOLEAN, NEW nested,
         IF sd.kind = "effect"
         THEN nested = Invalid \/ (IsStages(nested.stages) /\ Len(nested.stages) # 0)
         ELSE nested = sd
  PROVE  LET u == compileStage(sd, last, nested)
             d == DurOf(sd, nested)
         IN /\ u # Invalid <=> sd.kind # "malformed" /\ nested # Invalid /\ (d # 0 \/ last)
            /\ u # Invalid => /\ d \in Nat /\ u = [sd EXCEPT !.dur = d]
                              /\ IsStage(u) /\ u.dur = d /\ SameStage(u, sd)
<1> DEFINE d == DurOf(sd, nested)
           e == IF sd.kind = "effect" /\ sd.dur = 0 /\ nested # Invalid THEN Total(nested) ELSE sd.dur
           u == compileStage(sd, last, nested)
<1>1. u = IF sd.kind = "malformed" \/ nested = Invalid \/ (e = 0 /\ ~last) THEN Invalid
          ELSE [sd EXCEPT !.dur = e]
  BY DEF compileStage
<1>2. nested # Invalid => e = d
  BY DEF DurOf
<1>3. sd.dur \in Nat
  BY StageKinds
<1>4. nested # Invalid => d \in Nat
  BY <1>3, TotalMeans DEF DurOf
<1> HIDE DEF d, e, u
<1>5. CASE sd.kind # "malformed" /\ nested # Invalid /\ (d # 0 \/ last)
  <2>1. u = [sd EXCEPT !.dur = d] /\ d \in Nat
    BY <1>1, <1>2, <1>4, <1>5
  <2>2. IsStage(u) /\ u.dur = d /\ SameStage(u, sd)
    BY <1>5, <2>1, StageWithDur
  <2>3. u # Invalid
    BY <2>2 DEF InvalidIsNoValue
  <2> QED BY <1>5, <2>1, <2>2, <2>3 DEF u, d
<1>6. CASE ~(sd.kind # "malformed" /\ nested # Invalid /\ (d # 0 \/ last))
  <2>1. u = Invalid
    BY <1>1, <1>2, <1>6
  <2> QED BY <1>6, <2>1 DEF u, d
<1> QED BY <1>5, <1>6

LEMMA TimelineMeans ==
  ASSUME InvalidIsNoValue, NEW ds, IsConfig(ds), NEW n \in DOMAIN ds, NEW nested, Given(ds, n, nested)
  PROVE  LET tl == TimelineFrom(ds, n, nested)
         IN /\ tl # Invalid <=> Accepts(ds, n, nested)
            /\ tl # Invalid => Plays(tl, ds, n, nested)
<1> DEFINE stages == ds[n].stages
           L == Len(stages)
           made == [i \in DOMAIN stages |-> compileStage(stages[i], i = L, nested[i])]
           out == [stages |-> made, final |-> ds[n].final]
           tl == TimelineFrom(ds, n, nested)
           d(i) == DurOf(stages[i], nested[i])
<1>1. /\ L \in Nat /\ DOMAIN stages = 1 .. L
      /\ \A i \in 1 .. L : IsStage(stages[i])
  BY DEF IsConfig, IsStages
<1>2. ASSUME NEW i \in 1 .. L
      PROVE  /\ made[i] # Invalid <=> stages[i].kind # "malformed" /\ nested[i] # Invalid /\ (d(i) # 0 \/ i = L)
             /\ made[i] # Invalid =>
                  /\ d(i) \in Nat /\ made[i] = [stages[i] EXCEPT !.dur = d(i)]
                  /\ IsStage(made[i]) /\ made[i].dur = d(i) /\ SameStage(made[i], stages[i])
  <2> DEFINE last == i = L
             sd == stages[i]
             ne == nested[i]
  <2>1. IsStage(sd) /\ last \in BOOLEAN
    BY <1>1
  <2>2. IF sd.kind = "effect"
        THEN ne = Invalid \/ (IsStages(ne.stages) /\ Len(ne.stages) # 0)
        ELSE ne = sd
    BY DEF Given
  <2>3. made[i] = compileStage(sd, last, ne)
    BY <1>1
  <2> HIDE DEF last, sd, ne, made
  <2>4. /\ made[i] # Invalid <=> sd.kind # "malformed" /\ ne # Invalid /\ (DurOf(sd, ne) # 0 \/ last)
        /\ made[i] # Invalid => /\ DurOf(sd, ne) \in Nat /\ made[i] = [sd EXCEPT !.dur = DurOf(sd, ne)]
                                /\ IsStage(made[i]) /\ made[i].dur = DurOf(sd, ne) /\ SameStage(made[i], sd)
    BY <2>1, <2>2, <2>3, StageCompiles
  <2> QED BY <2>4 DEF sd, ne, last
<1>3. /\ made = [i \in 1 .. L |-> made[i]] /\ DOMAIN made = 1 .. L
      /\ Len(made) = L
  BY <1>1
<1>4. tl = IF made = <<>> \/ (\E i \in DOMAIN made : made[i] = Invalid) THEN Invalid
           ELSE IF Total(out) # 0 /\ ds[n].final = Invalid THEN Invalid
           ELSE out
  BY Zenon DEF TimelineFrom, finish
<1>5. made = <<>> <=> L = 0
  BY <1>1, <1>3
<1>6. out.stages = made /\ out # Invalid
  BY DEF InvalidIsNoValue
<1> HIDE DEF made, out, tl, d
<1>7. ASSUME L # 0, \A i \in 1 .. L : made[i] # Invalid
      PROVE  /\ IsStages(made)
             /\ Total(out) = 0 <=> d(L) = 0
  <2>1. \A i \in 1 .. L : IsStage(made[i])
    BY <1>2, <1>7
  <2>2. IsStages(made)
    <3> HIDE DEF stages
    <3> QED BY <1>1, <1>3, <2>1 DEF IsStages
  <2>3. Total(out) = 0 <=> \E i \in 1 .. L : made[i].dur = 0
    <3>1. IsStages(out.stages) /\ Len(out.stages) = L
      BY <1>3, <1>6, <2>2
    <3>2. Total(out) = 0 <=> \E i \in 1 .. Len(out.stages) : out.stages[i].dur = 0
      BY <3>1, <1>7, TotalMeans
    <3> QED BY <3>1, <3>2, <1>6
  <2>4. L \in 1 .. L
    BY <1>1, <1>7
  <2>5. \A i \in 1 .. L : made[i].dur = d(i) /\ (d(i) # 0 \/ i = L)
    BY <1>2, <1>7
  <2> QED BY <2>2, <2>3, <2>4, <2>5
<1>8. CASE L = 0
  BY <1>4, <1>5, <1>8 DEF Accepts, tl
<1>9. CASE L # 0 /\ \E i \in 1 .. L : made[i] = Invalid
  <2>1. tl = Invalid
    BY <1>3, <1>4, <1>9
  <2>2. PICK i \in 1 .. L : ~(stages[i].kind # "malformed" /\ nested[i] # Invalid /\ (d(i) # 0 \/ i = L))
    BY <1>2, <1>9
  <2>3. ~Accepts(ds, n, nested)
    BY <2>2 DEF Accepts, d
  <2> QED BY <2>1, <2>3 DEF tl
<1>10. CASE L # 0 /\ \A i \in 1 .. L : made[i] # Invalid
  <2>1. IsStages(made) /\ (Total(out) = 0 <=> d(L) = 0)
    BY <1>7, <1>10
  <2>2. tl = IF Total(out) # 0 /\ ds[n].final = Invalid THEN Invalid ELSE out
    BY <1>3, <1>4, <1>5, <1>10
  <2>3. Accepts(ds, n, nested) <=> d(L) = 0 \/ ds[n].final # Invalid
    BY <1>2, <1>10 DEF Accepts, d
  <2>4. tl # Invalid => tl = out
    BY <2>2
  <2>5. Plays(out, ds, n, nested)
    <3>1. out = [stages |-> out.stages, final |-> ds[n].final]
      BY <1>6 DEF out
    <3>2. \A i \in 1 .. L : /\ made[i] = [stages[i] EXCEPT !.dur = d(i)]
                            /\ SameStage(made[i], stages[i]) /\ made[i].dur = d(i) /\ d(i) \in Nat
      BY <1>2, <1>10
    <3> QED BY <1>3, <1>6, <1>10, <2>1, <3>1, <3>2 DEF Plays, d
  <2> QED BY <1>6, <2>1, <2>2, <2>3, <2>4, <2>5 DEF tl
<1> QED BY <1>8, <1>9, <1>10

\* All that definitions can compile to.
StageSet(ds) ==
  {[ds[p[1]].stages[p[2]] EXCEPT !.dur = p[3]] : p \in (DOMAIN ds) \X Nat \X Nat}

TimelineSet(ds) ==
  {tl \in [stages : Seq(StageSet(ds)), final : {ds[n].final : n \in DOMAIN ds}] :
     IsStages(tl.stages) /\ Len(tl.stages) # 0}

Results(ds) == TimelineSet(ds) \cup {Invalid}

LEMMA PlaysIsTimeline ==
  ASSUME NEW ds, IsConfig(ds), NEW n \in DOMAIN ds, NEW nested, NEW tl, Plays(tl, ds, n, nested)
  PROVE  tl \in TimelineSet(ds)
<1> DEFINE L == Len(tl.stages)
<1>1. L \in Nat /\ L # 0 /\ IsStages(tl.stages) /\ tl = [stages |-> tl.stages, final |-> ds[n].final]
  BY DEF Plays, IsStages
<1>2. \A i \in 1 .. L : tl.stages[i] \in StageSet(ds)
  <2> SUFFICES ASSUME NEW i \in 1 .. L
               PROVE  tl.stages[i] \in StageSet(ds)
    OBVIOUS
  <2>1. PICK d \in Nat : tl.stages[i] = [ds[n].stages[i] EXCEPT !.dur = d]
    BY DEF Plays
  <2> DEFINE p == <<n, i, d>>
  <2>2. p \in (DOMAIN ds) \X Nat \X Nat
    BY <1>1
  <2>3. tl.stages[i] = [ds[p[1]].stages[p[2]] EXCEPT !.dur = p[3]]
    BY <2>1
  <2> HIDE DEF p
  <2> QED BY <2>2, <2>3 DEF StageSet
<1>3. tl.stages \in Seq(StageSet(ds))
  <2>1. tl.stages = [i \in 1 .. L |-> tl.stages[i]]
    BY <1>1 DEF IsStages
  <2>2. tl.stages \in [1 .. L -> StageSet(ds)]
    <3> HIDE DEF L
    <3> QED BY <1>2, <2>1
  <2> HIDE DEF L
  <2> QED BY <1>1, <2>2
<1>4. tl \in [stages : Seq(StageSet(ds)), final : {ds[x].final : x \in DOMAIN ds}]
  BY <1>1, <1>3
<1> QED BY <1>1, <1>4 DEF TimelineSet

\* What the stages of n refer to, given what the compiler makes of chains.
Nestings(ds, comp, n, P) ==
  [i \in 1 .. Len(ds[n].stages) |->
     LET sd == ds[n].stages[i]
     IN IF sd.kind # "effect" THEN sd
        ELSE IF sd.ref \notin DOMAIN ds THEN Invalid
        ELSE comp[<<sd.ref, P \cup {n}>>]]

Chains(ds) == (DOMAIN ds) \X SUBSET DOMAIN ds

\* comp compiles every effect from every chain.
Compiler(ds, comp) ==
  /\ comp \in [Chains(ds) -> Results(ds)]
  /\ \A n \in DOMAIN ds : \A P \in SUBSET DOMAIN ds :
       comp[<<n, P>>] = IF n \in P THEN Invalid ELSE TimelineFrom(ds, n, Nestings(ds, comp, n, P))

LEMMA NestingsGiven ==
  ASSUME NEW ds, IsConfig(ds), NEW comp \in [Chains(ds) -> Results(ds)],
         NEW n \in DOMAIN ds, NEW P \in SUBSET DOMAIN ds
  PROVE  Given(ds, n, Nestings(ds, comp, n, P))
<1> SUFFICES ASSUME NEW i \in 1 .. Len(ds[n].stages)
             PROVE  LET nested == Nestings(ds, comp, n, P)
                    IN IF ds[n].stages[i].kind = "effect"
                       THEN nested[i] = Invalid \/ (IsStages(nested[i].stages) /\ Len(nested[i].stages) # 0)
                       ELSE nested[i] = ds[n].stages[i]
  BY DEF Given
<1> DEFINE sd == ds[n].stages[i]
           ne == Nestings(ds, comp, n, P)[i]
<1>1. ne = IF sd.kind # "effect" THEN sd
           ELSE IF sd.ref \notin DOMAIN ds THEN Invalid
           ELSE comp[<<sd.ref, P \cup {n}>>]
  BY DEF Nestings
<1>2. ASSUME sd.ref \in DOMAIN ds
      PROVE  comp[<<sd.ref, P \cup {n}>>] \in Results(ds)
  <2>1. <<sd.ref, P \cup {n}>> \in Chains(ds)
    BY <1>2 DEF Chains
  <2> QED BY <2>1
<1> HIDE DEF sd, ne
<1>3. sd.kind = "effect" => ne \in Results(ds)
  BY <1>1, <1>2 DEF Results
<1>4. sd.kind # "effect" => ne = sd
  BY <1>1
<1>5. \A tl \in TimelineSet(ds) : IsStages(tl.stages) /\ Len(tl.stages) # 0
  BY DEF TimelineSet
<1>6. sd.kind = "effect" => ne = Invalid \/ (IsStages(ne.stages) /\ Len(ne.stages) # 0)
  BY <1>3, <1>5 DEF Results
<1> QED BY <1>4, <1>6 DEF sd, ne

\* The rank of a chain: how many more effects it can take.
LEMMA ChainRank ==
  ASSUME NEW ds, IsFiniteSet(DOMAIN ds)
  PROVE  LET N == Cardinality(DOMAIN ds)
             m == [x \in Chains(ds) |-> N - Cardinality(x[2])]
         IN /\ N \in Nat
            /\ m \in [Chains(ds) -> 0 .. N]
            /\ \A n, ref \in DOMAIN ds : \A P \in SUBSET DOMAIN ds :
                 n \notin P => m[<<ref, P \cup {n}>>] < m[<<n, P>>]
<1> DEFINE N == Cardinality(DOMAIN ds)
           m == [x \in Chains(ds) |-> N - Cardinality(x[2])]
<1>1. N \in Nat
  BY FS_CardinalityType
<1>2. ASSUME NEW P \in SUBSET DOMAIN ds
      PROVE  IsFiniteSet(P) /\ Cardinality(P) \in Nat /\ Cardinality(P) <= N
  BY FS_Subset, FS_CardinalityType
<1>3. \A x \in Chains(ds) : x[1] \in DOMAIN ds /\ x[2] \in SUBSET DOMAIN ds /\ x = <<x[1], x[2]>>
  BY DEF Chains
<1>4. \A n \in DOMAIN ds : \A P \in SUBSET DOMAIN ds : <<n, P>> \in Chains(ds) /\ m[<<n, P>>] = N - Cardinality(P)
  BY DEF Chains
<1>5. m \in [Chains(ds) -> 0 .. N]
  <2> HIDE DEF N
  <2>1. \A x \in Chains(ds) : N - Cardinality(x[2]) \in 0 .. N
    BY <1>1, <1>2, <1>3
  <2> QED BY <2>1
<1> HIDE DEF m
<1>6. ASSUME NEW n \in DOMAIN ds, NEW ref \in DOMAIN ds, NEW P \in SUBSET DOMAIN ds, n \notin P
      PROVE  m[<<ref, P \cup {n}>>] < m[<<n, P>>]
  <2>1. P \cup {n} \in SUBSET DOMAIN ds
    OBVIOUS
  <2>2. Cardinality(P \cup {n}) = Cardinality(P) + 1
    BY <1>2, <1>6, FS_AddElement
  <2>3. m[<<ref, P \cup {n}>>] = N - Cardinality(P \cup {n}) /\ m[<<n, P>>] = N - Cardinality(P)
    BY <1>4, <2>1
  <2> HIDE DEF N
  <2> QED BY <1>1, <1>2, <2>2, <2>3
<1> QED BY <1>1, <1>5, <1>6 DEF m

LEMMA NestingsAlike ==
  ASSUME NEW ds, NEW f, NEW g, NEW n, NEW P, NEW R,
         \A ref \in DOMAIN ds : f[<<ref, P \cup {n}>>] = g[<<ref, R \cup {n}>>]
  PROVE  Nestings(ds, f, n, P) = Nestings(ds, g, n, R)
BY DEF Nestings

CompileStep(ds, f, x) ==
  IF x[1] \in x[2] THEN Invalid ELSE TimelineFrom(ds, x[1], Nestings(ds, f, x[1], x[2]))

LEMMA CompileStepTyped ==
  ASSUME InvalidIsNoValue, NEW ds, IsConfig(ds), NEW f \in [Chains(ds) -> Results(ds)], NEW x \in Chains(ds)
  PROVE  CompileStep(ds, f, x) \in Results(ds)
<1> DEFINE n == x[1]
           ne == Nestings(ds, f, n, x[2])
<1>1. n \in DOMAIN ds /\ x[2] \in SUBSET DOMAIN ds
  BY DEF Chains
<1>2. Given(ds, n, ne)
  BY <1>1, NestingsGiven
<1> HIDE DEF n, ne
<1>3. TimelineFrom(ds, n, ne) # Invalid => Plays(TimelineFrom(ds, n, ne), ds, n, ne)
  BY <1>1, <1>2, TimelineMeans
<1>4. TimelineFrom(ds, n, ne) \in Results(ds)
  BY <1>1, <1>3, PlaysIsTimeline DEF Results
<1> QED BY <1>4 DEF CompileStep, n, ne, Results

LEMMA CompileStepRanked ==
  ASSUME NEW ds, IsConfig(ds), NEW f, NEW g, NEW x \in Chains(ds), NEW m,
         \A n, ref \in DOMAIN ds : \A P \in SUBSET DOMAIN ds :
           n \notin P => m[<<ref, P \cup {n}>>] < m[<<n, P>>],
         \A y \in Chains(ds) : m[y] < m[x] => f[y] = g[y]
  PROVE  CompileStep(ds, f, x) = CompileStep(ds, g, x)
<1>1. x[1] \in DOMAIN ds /\ x[2] \in SUBSET DOMAIN ds /\ x = <<x[1], x[2]>>
  BY DEF Chains
<1>2. CASE x[1] \in x[2]
  BY <1>2 DEF CompileStep
<1>3. CASE x[1] \notin x[2]
  <2>1. \A ref \in DOMAIN ds : f[<<ref, x[2] \cup {x[1]}>>] = g[<<ref, x[2] \cup {x[1]}>>]
    <3> SUFFICES ASSUME NEW ref \in DOMAIN ds
                 PROVE  f[<<ref, x[2] \cup {x[1]}>>] = g[<<ref, x[2] \cup {x[1]}>>]
      OBVIOUS
    <3>1. <<ref, x[2] \cup {x[1]}>> \in Chains(ds)
      BY <1>1 DEF Chains
    <3>2. m[<<ref, x[2] \cup {x[1]}>>] < m[<<x[1], x[2]>>]
      BY <1>1, <1>3
    <3> QED BY <1>1, <3>1, <3>2
  <2>2. Nestings(ds, f, x[1], x[2]) = Nestings(ds, g, x[1], x[2])
    BY <2>1, NestingsAlike
  <2> QED BY <2>2 DEF CompileStep
<1> QED BY <1>2, <1>3

\* The function that compile is defined by.
IsCompile(defs_, comp) ==
  comp = [x \in (DOMAIN defs_) \X SUBSET DOMAIN defs_ |->
            IF x[1] \in x[2] THEN Invalid
            ELSE LET def == defs_[x[1]]
                     nested(sd) ==
                       IF sd.kind # "effect" THEN sd
                       ELSE IF sd.ref \notin DOMAIN defs_ THEN Invalid
                       ELSE comp[<<sd.ref, x[2] \cup {x[1]}>>]
                 IN finish(def, [i \in DOMAIN def.stages |->
                                   compileStage(def.stages[i], i = Len(def.stages),
                                                nested(def.stages[i]))])]

LEMMA CompileSteps ==
  ASSUME NEW ds, IsConfig(ds), NEW f
  PROVE  IsCompile(ds, f) <=> f = [x \in Chains(ds) |-> CompileStep(ds, f, x)]
<1> DEFINE body(x) ==
            IF x[1] \in x[2] THEN Invalid
            ELSE LET def == ds[x[1]]
                     nested(sd) ==
                       IF sd.kind # "effect" THEN sd
                       ELSE IF sd.ref \notin DOMAIN ds THEN Invalid
                       ELSE f[<<sd.ref, x[2] \cup {x[1]}>>]
                 IN finish(def, [i \in DOMAIN def.stages |->
                                   compileStage(def.stages[i], i = Len(def.stages),
                                                nested(def.stages[i]))])
<1>1. ASSUME NEW x \in Chains(ds)
      PROVE  body(x) = CompileStep(ds, f, x)
  <2> DEFINE n == x[1]
             stages == ds[n].stages
             ne == Nestings(ds, f, n, x[2])
             nested(sd) ==
               IF sd.kind # "effect" THEN sd
               ELSE IF sd.ref \notin DOMAIN ds THEN Invalid
               ELSE f[<<sd.ref, x[2] \cup {n}>>]
  <2>1. DOMAIN stages = 1 .. Len(stages)
    BY DEF Chains, IsConfig, IsStages
  <2>2. \A i \in 1 .. Len(stages) : nested(stages[i]) = ne[i]
    BY DEF Nestings
  <2> HIDE DEF nested, ne
  <2>3. [i \in DOMAIN stages |-> compileStage(stages[i], i = Len(stages), nested(stages[i]))]
          = [i \in DOMAIN stages |-> compileStage(stages[i], i = Len(stages), ne[i])]
    BY <2>1, <2>2
  <2>4. finish(ds[n], [i \in DOMAIN stages |-> compileStage(stages[i], i = Len(stages), nested(stages[i]))])
          = TimelineFrom(ds, n, ne)
    BY <2>3 DEF TimelineFrom
  <2> QED BY <2>4 DEF CompileStep, nested, ne
<1>2. IsCompile(ds, f) <=> f = [x \in Chains(ds) |-> body(x)]
  BY Zenon DEF IsCompile, Chains
<1> HIDE DEF body
<1>3. [x \in Chains(ds) |-> body(x)] = [x \in Chains(ds) |-> CompileStep(ds, f, x)]
  BY <1>1
<1> QED BY <1>2, <1>3

LEMMA CompilerExists ==
  ASSUME InvalidIsNoValue, NEW ds, IsConfig(ds)
  PROVE  \E comp : Compiler(ds, comp) /\ \A n \in DOMAIN ds : compile(ds, n) = comp[<<n, {}>>]
<1> DEFINE D == Chains(ds)
           V == Results(ds)
           N == Cardinality(DOMAIN ds)
           m == [x \in D |-> N - Cardinality(x[2])]
           step == [p \in [D -> V] \X D |-> CompileStep(ds, p[1], p[2])]
<1>1. /\ N \in Nat /\ m \in [D -> 0 .. N]
      /\ \A n, ref \in DOMAIN ds : \A P \in SUBSET DOMAIN ds :
           n \notin P => m[<<ref, P \cup {n}>>] < m[<<n, P>>]
  BY ChainRank DEF IsConfig
<1> HIDE DEF m, N
<1>2. \A f \in [D -> V] : \A x \in D : step[<<f, x>>] = CompileStep(ds, f, x)
  OBVIOUS
<1>3. step \in [[D -> V] \X D -> V]
  BY CompileStepTyped
<1> HIDE DEF step
<1>4. Ranked(D, V, m, N, step)
  <2>1. ASSUME NEW f \in [D -> V], NEW g \in [D -> V], NEW x \in D,
               \A y \in D : m[y] < m[x] => f[y] = g[y]
        PROVE  step[<<f, x>>] = step[<<g, x>>]
    <3>1. CompileStep(ds, f, x) = CompileStep(ds, g, x)
      BY <1>1, <2>1, CompileStepRanked
    <3>2. step[<<f, x>>] = CompileStep(ds, f, x) /\ step[<<g, x>>] = CompileStep(ds, g, x)
      BY <1>2
    <3> QED BY <3>1, <3>2
  <2> QED BY <1>1, <1>3, <2>1 DEF Ranked
<1>5. PICK f \in [D -> V] : \A x \in D : f[x] = step[<<f, x>>]
  <2>1. Invalid \in V
    BY DEF Results
  <2>2. N \in Nat
    BY <1>1
  <2> HIDE DEF D, V
  <2>3. \E f : Solves(f, D, V, step)
    BY <1>4, <2>1, <2>2, RankedExists
  <2> QED BY <2>3 DEF Solves
<1>6. \A x \in D : f[x] = CompileStep(ds, f, x)
  BY <1>2, <1>5
<1>7. IsCompile(ds, f)
  <2>1. f = [x \in D |-> CompileStep(ds, f, x)]
    BY <1>6
  <2> QED BY <2>1, CompileSteps
<1> DEFINE c == CHOOSE comp : IsCompile(ds, comp)
<1>8. IsCompile(ds, c)
  BY <1>7
<1>9. \A n \in DOMAIN ds : compile(ds, n) = c[<<n, {}>>]
  BY Zenon DEF compile, IsCompile
<1> HIDE DEF c
<1>10. \A x \in D : c[x] = CompileStep(ds, c, x)
  BY <1>8, CompileSteps
<1>11. \A x \in D : c[x] = f[x]
  <2> DEFINE T == {x \in D : c[x] = f[x]}
  <2>1. ASSUME NEW x \in D, \A y \in D : m[y] < m[x] => y \in T
        PROVE  x \in T
    <3>1. \A y \in D : m[y] < m[x] => c[y] = f[y]
      BY <2>1
    <3>2. CompileStep(ds, c, x) = CompileStep(ds, f, x)
      BY <1>1, <3>1, CompileStepRanked
    <3> QED BY <1>6, <1>10, <3>2
  <2>2. m \in [D -> Nat]
    BY <1>1
  <2> HIDE DEF T, D
  <2>3. D \subseteq T
    BY <2>1, <2>2, ByRank
  <2> QED BY <2>3 DEF T
<1>12. Compiler(ds, f)
  <2>1. ASSUME NEW n \in DOMAIN ds, NEW P \in SUBSET DOMAIN ds
        PROVE  f[<<n, P>>] = IF n \in P THEN Invalid ELSE TimelineFrom(ds, n, Nestings(ds, f, n, P))
    <3>1. <<n, P>> \in D
      BY DEF Chains
    <3> QED BY <1>6, <3>1 DEF CompileStep
  <2> QED BY <2>1 DEF Compiler
<1>13. \A n \in DOMAIN ds : <<n, {}>> \in D
  BY DEF Chains
<1> QED BY <1>9, <1>11, <1>12, <1>13

------------------------------------------------------------------------------
(***************************************************************************)
(* Definitions that refer to no others for ever have weights: each weighs  *)
(* more than those it refers to, with all their stages.                    *)
(***************************************************************************)
Weighs(ds, A, w, bound) ==
  /\ A \subseteq DOMAIN ds
  /\ w \in [A -> Nat] /\ bound \in Nat
  /\ \A n \in A : /\ w[n] + Len(ds[n].stages) <= bound
                  /\ Refs(ds[n]) \subseteq A
                  /\ \A ref \in Refs(ds[n]) : w[ref] + Len(ds[ref].stages) < w[n]

LEMMA WeighOneMore ==
  ASSUME NEW ds, IsConfig(ds), NEW A, NEW w, NEW bound, Weighs(ds, A, w, bound),
         NEW n \in DOMAIN ds, n \notin A, Refs(ds[n]) \subseteq A
  PROVE  \E v, b : Weighs(ds, A \cup {n}, v, b)
<1> DEFINE v == [x \in A \cup {n} |-> IF x = n THEN bound + 1 ELSE w[x]]
           L == Len(ds[n].stages)
           b == bound + 1 + L
<1>0. L \in Nat /\ \A x \in DOMAIN ds : Len(ds[x].stages) \in Nat
  BY DEF IsConfig, IsStages
<1>1. /\ A \subseteq DOMAIN ds /\ w \in [A -> Nat] /\ bound \in Nat
      /\ \A x \in A : /\ w[x] + Len(ds[x].stages) <= bound
                      /\ Refs(ds[x]) \subseteq A
                      /\ \A ref \in Refs(ds[x]) : w[ref] + Len(ds[ref].stages) < w[x]
  BY DEF Weighs
<1>2. /\ v[n] = bound + 1 /\ \A x \in A : v[x] = w[x]
      /\ v \in [A \cup {n} -> Nat] /\ b \in Nat
  <2>1. bound \in Nat /\ w \in [A -> Nat] /\ L \in Nat
    BY <1>0, <1>1
  <2> HIDE DEF L
  <2> QED BY <2>1
<1> HIDE DEF v
<1>3. ASSUME NEW x \in A \cup {n}
      PROVE  /\ v[x] + Len(ds[x].stages) <= b
             /\ Refs(ds[x]) \subseteq A \cup {n}
             /\ \A ref \in Refs(ds[x]) : v[ref] + Len(ds[ref].stages) < v[x]
  <2>1. CASE x = n
    <3>1. v[x] + Len(ds[x].stages) <= b
      <4>1. v[x] = bound + 1 /\ Len(ds[x].stages) = L /\ L \in Nat /\ bound \in Nat
        BY <1>0, <1>1, <1>2, <2>1
      <4> HIDE DEF L
      <4> QED BY <4>1
    <3>2. ASSUME NEW ref \in Refs(ds[x])
          PROVE  v[ref] + Len(ds[ref].stages) < v[x]
      <4>1. ref \in A
        BY <2>1
      <4>2. v[ref] = w[ref] /\ w[ref] + Len(ds[ref].stages) <= bound
        BY <1>1, <1>2, <4>1
      <4>3. w[ref] \in Nat /\ Len(ds[ref].stages) \in Nat
        BY <1>0, <1>1, <4>1
      <4> QED BY <1>1, <1>2, <2>1, <4>2, <4>3
    <3> QED BY <2>1, <3>1, <3>2
  <2>2. CASE x \in A
    <3>1. w[x] \in Nat /\ Len(ds[x].stages) \in Nat /\ Len(ds[n].stages) \in Nat
      BY <1>0, <1>1, <2>2
    <3>2. w[x] + Len(ds[x].stages) <= bound
      BY <1>1, <2>2
    <3>3. v[x] + Len(ds[x].stages) <= b
      <4>1. v[x] = w[x] /\ L \in Nat /\ bound \in Nat
        BY <1>0, <1>1, <1>2, <2>2
      <4>2. w[x] \in Nat /\ Len(ds[x].stages) \in Nat
        BY <3>1
      <4> DEFINE l == Len(ds[x].stages)
      <4> HIDE DEF L, l
      <4>3. w[x] + l <= bound /\ l \in Nat
        BY <3>2, <4>2 DEF l
      <4>4. v[x] + l <= b
        BY <4>1, <4>2, <4>3
      <4> QED BY <4>4 DEF l
    <3>4. \A ref \in Refs(ds[x]) : ref \in A /\ v[ref] = w[ref]
      BY <1>1, <1>2, <2>2
    <3> QED BY <1>1, <1>2, <2>2, <3>3, <3>4
  <2> QED BY <2>1, <2>2
<1>4. A \cup {n} \subseteq DOMAIN ds
  BY <1>1
<1> HIDE DEF b
<1>5. Weighs(ds, A \cup {n}, v, b)
  BY <1>2, <1>3, <1>4 DEF Weighs
<1> QED BY <1>5

LEMMA WeightsExist ==
  ASSUME NEW ds, IsConfig(ds), WellFounded(ds)
  PROVE  \E w, bound : Weighs(ds, DOMAIN ds, w, bound)
<1> DEFINE D == DOMAIN ds
           N == Cardinality(D)
           T == {k \in 0 .. N : \E A, w, b : Weighs(ds, A, w, b) /\ IsFiniteSet(A) /\ Cardinality(A) = k}
<1>0. N \in Nat /\ IsFiniteSet(D)
  BY FS_CardinalityType DEF IsConfig
<1>1. 0 \in T
  <2>1. Weighs(ds, {}, [x \in {} |-> 0], 0)
    BY DEF Weighs
  <2>2. IsFiniteSet({}) /\ Cardinality({}) = 0
    BY FS_EmptySet
  <2> QED BY <1>0, <2>1, <2>2
<1>2. ASSUME NEW k \in 1 .. N, k - 1 \in T
      PROVE  k \in T
  <2>1. PICK A, w, b : Weighs(ds, A, w, b) /\ IsFiniteSet(A) /\ Cardinality(A) = k - 1
    BY <1>2
  <2>2. A \subseteq D /\ A # D
    BY <1>0, <2>1 DEF Weighs
  <2>3. PICK n \in D \ A : Refs(ds[n]) \cap (D \ A) = {}
    BY <2>2 DEF WellFounded
  <2>4. Refs(ds[n]) \subseteq A
    BY <2>3 DEF WellFounded
  <2>5. \E v, c : Weighs(ds, A \cup {n}, v, c)
    BY <2>1, <2>3, <2>4, WeighOneMore
  <2>6. IsFiniteSet(A \cup {n}) /\ Cardinality(A \cup {n}) = k
    <3>1. IsFiniteSet(A \cup {n}) /\ Cardinality(A \cup {n}) = Cardinality(A) + 1
      BY <2>1, <2>3, FS_AddElement
    <3> QED BY <1>0, <2>1, <3>1
  <2> QED BY <2>5, <2>6
<1>3. N \in T
  <2> HIDE DEF T, N
  <2>1. \A i \in 0 .. N : i \in T
    BY <1>0, <1>1, <1>2, EveryRound
  <2> QED BY <1>0, <2>1
<1>4. PICK A, w, b : Weighs(ds, A, w, b) /\ IsFiniteSet(A) /\ Cardinality(A) = N
  BY <1>3
<1>5. A = D
  <2>1. A \subseteq D
    BY <1>4 DEF Weighs
  <2> QED BY <1>0, <1>4, <2>1, FS_Subset
<1> QED BY <1>4, <1>5

------------------------------------------------------------------------------
(***************************************************************************)
(* What compiles is well-founded, and then the chain does not matter.      *)
(***************************************************************************)
LEMMA RefsAre ==
  ASSUME NEW ds, IsConfig(ds), NEW n \in DOMAIN ds
  PROVE  /\ \A i \in 1 .. Len(ds[n].stages) :
              ds[n].stages[i].kind = "effect" => ds[n].stages[i].ref \in Refs(ds[n])
         /\ \A ref \in Refs(ds[n]) : \E i \in 1 .. Len(ds[n].stages) :
              ds[n].stages[i].kind = "effect" /\ ds[n].stages[i].ref = ref
<1>1. DOMAIN ds[n].stages = 1 .. Len(ds[n].stages)
  BY DEF IsConfig, IsStages
<1> QED BY <1>1 DEF Refs

LEMMA CompiledStep ==
  ASSUME InvalidIsNoValue, NEW ds, IsConfig(ds), NEW comp, Compiler(ds, comp),
         NEW n \in DOMAIN ds, NEW P \in SUBSET DOMAIN ds
  PROVE  LET nested == Nestings(ds, comp, n, P)
         IN /\ comp[<<n, P>>] # Invalid <=> n \notin P /\ Accepts(ds, n, nested)
            /\ comp[<<n, P>>] # Invalid => Plays(comp[<<n, P>>], ds, n, nested)
<1> DEFINE nested == Nestings(ds, comp, n, P)
<1>1. Given(ds, n, nested)
  BY NestingsGiven DEF Compiler
<1>2. comp[<<n, P>>] = IF n \in P THEN Invalid ELSE TimelineFrom(ds, n, nested)
  BY DEF Compiler
<1> HIDE DEF nested
<1>3. /\ TimelineFrom(ds, n, nested) # Invalid <=> Accepts(ds, n, nested)
      /\ TimelineFrom(ds, n, nested) # Invalid => Plays(TimelineFrom(ds, n, nested), ds, n, nested)
  BY <1>1, TimelineMeans
<1> QED BY <1>2, <1>3 DEF nested

LEMMA CompiledRefs ==
  ASSUME InvalidIsNoValue, NEW ds, IsConfig(ds), NEW comp, Compiler(ds, comp),
         NEW n \in DOMAIN ds, NEW P \in SUBSET DOMAIN ds, comp[<<n, P>>] # Invalid
  PROVE  n \notin P /\ \A ref \in Refs(ds[n]) : ref \in DOMAIN ds /\ comp[<<ref, P \cup {n}>>] # Invalid
<1> DEFINE nested == Nestings(ds, comp, n, P)
<1>1. n \notin P /\ Accepts(ds, n, nested)
  BY CompiledStep
<1>2. ASSUME NEW ref \in Refs(ds[n])
      PROVE  ref \in DOMAIN ds /\ comp[<<ref, P \cup {n}>>] # Invalid
  <2>1. PICK i \in 1 .. Len(ds[n].stages) : ds[n].stages[i].kind = "effect" /\ ds[n].stages[i].ref = ref
    BY RefsAre
  <2>2. nested[i] # Invalid
    BY <1>1 DEF Accepts
  <2>3. nested[i] = IF ref \notin DOMAIN ds THEN Invalid ELSE comp[<<ref, P \cup {n}>>]
    BY <2>1 DEF Nestings
  <2> QED BY <2>2, <2>3
<1> QED BY <1>1, <1>2

\* A set of definitions that compiles has no endless references: they would
\* make a chain that is longer than there are effects.
LEMMA CompiledIsWellFounded ==
  ASSUME InvalidIsNoValue, NEW ds, IsConfig(ds), NEW comp, Compiler(ds, comp),
         \A n \in DOMAIN ds : comp[<<n, {}>>] # Invalid
  PROVE  WellFounded(ds)
<1> DEFINE N == Cardinality(DOMAIN ds)
<1>0. N \in Nat /\ IsFiniteSet(DOMAIN ds)
  BY FS_CardinalityType DEF IsConfig
<1>1. ASSUME NEW n \in DOMAIN ds
      PROVE  Refs(ds[n]) \subseteq DOMAIN ds
  <2>1. comp[<<n, {}>>] # Invalid /\ {} \in SUBSET DOMAIN ds
    OBVIOUS
  <2>2. \A ref \in Refs(ds[n]) : ref \in DOMAIN ds
    BY <2>1, CompiledRefs
  <2> QED BY <2>2
<1>2. ASSUME NEW S \in SUBSET DOMAIN ds, S # {}, \A n \in S : Refs(ds[n]) \cap S # {}
      PROVE  FALSE
  <2> DEFINE T == {k \in 0 .. N : \A n \in S : \A P \in SUBSET DOMAIN ds :
                                    Cardinality(P) = N - k => comp[<<n, P>>] = Invalid}
  <2>1. 0 \in T
    <3> SUFFICES ASSUME NEW n \in S, NEW P \in SUBSET DOMAIN ds, Cardinality(P) = N - 0
                 PROVE  comp[<<n, P>>] = Invalid
      BY <1>0
    <3>1. P = DOMAIN ds
      BY <1>0, FS_Subset
    <3> QED BY <3>1, CompiledRefs
  <2>2. ASSUME NEW k \in 1 .. N, k - 1 \in T
        PROVE  k \in T
    <3> SUFFICES ASSUME NEW n \in S, NEW P \in SUBSET DOMAIN ds, Cardinality(P) = N - k,
                        comp[<<n, P>>] # Invalid
                 PROVE  FALSE
      BY <1>0
    <3>1. n \notin P /\ \A ref \in Refs(ds[n]) : ref \in DOMAIN ds /\ comp[<<ref, P \cup {n}>>] # Invalid
      BY CompiledRefs
    <3>2. PICK ref \in Refs(ds[n]) : ref \in S
      BY <1>2
    <3>3. Cardinality(P \cup {n}) = N - (k - 1)
      <4>1. IsFiniteSet(P)
        BY <1>0, FS_Subset
      <4>2. Cardinality(P \cup {n}) = Cardinality(P) + 1
        BY <3>1, <4>1, FS_AddElement
      <4> HIDE DEF N
      <4> QED BY <1>0, <4>2
    <3>4. P \cup {n} \in SUBSET DOMAIN ds
      OBVIOUS
    <3>5. comp[<<ref, P \cup {n}>>] = Invalid
      BY <2>2, <3>2, <3>3, <3>4
    <3> QED BY <3>1, <3>2, <3>5
  <2>3. N \in T
    <3> HIDE DEF T, N
    <3>1. \A i \in 0 .. N : i \in T
      BY <1>0, <2>1, <2>2, EveryRound
    <3> QED BY <1>0, <3>1
  <2>4. Cardinality({}) = N - N
    BY <1>0, FS_EmptySet
  <2>5. PICK n \in S : TRUE
    BY <1>2
  <2>6. comp[<<n, {}>>] = Invalid
    <3> HIDE DEF N
    <3> QED BY <2>3, <2>4, <2>5
  <2> QED BY <2>5, <2>6
<1> QED BY <1>1, <1>2 DEF WellFounded

LEMMA ChainsDoNotMatter ==
  ASSUME NEW ds, IsConfig(ds), NEW comp, Compiler(ds, comp), WellFounded(ds),
         NEW w, NEW bound, Weighs(ds, DOMAIN ds, w, bound)
  PROVE  \A n \in DOMAIN ds : \A P \in SUBSET DOMAIN ds :
           (\A p \in P : w[n] < w[p]) => comp[<<n, P>>] = comp[<<n, {}>>]
<1> DEFINE D == DOMAIN ds
           Above(n, P) == \A p \in P : w[n] < w[p]
           T == {n \in D : \A P \in SUBSET D : Above(n, P) => comp[<<n, P>>] = comp[<<n, {}>>]}
<1>0. w \in [D -> Nat]
  BY DEF Weighs
<1>1. ASSUME NEW n \in D, \A m \in D : w[m] < w[n] => m \in T
      PROVE  n \in T
  <2> SUFFICES ASSUME NEW P \in SUBSET D, Above(n, P)
               PROVE  comp[<<n, P>>] = comp[<<n, {}>>]
    OBVIOUS
  <2>1. n \notin P
    BY <1>0
  <2>2. ASSUME NEW ref \in Refs(ds[n])
        PROVE  comp[<<ref, P \cup {n}>>] = comp[<<ref, {} \cup {n}>>]
    <3>1. ref \in D /\ Len(ds[ref].stages) \in Nat /\ w[ref] + Len(ds[ref].stages) < w[n]
      BY DEF Weighs, WellFounded, IsConfig, IsStages
    <3>2. w[ref] < w[n] /\ w[ref] \in Nat /\ w[n] \in Nat
      BY <1>0, <3>1
    <3>3. \A p \in P : w[p] \in Nat
      BY <1>0
    <3>4. Above(ref, P \cup {n}) /\ Above(ref, {} \cup {n})
      BY <3>2, <3>3
    <3>5. \A R \in SUBSET D : Above(ref, R) => comp[<<ref, R>>] = comp[<<ref, {}>>]
      BY <1>1, <3>1, <3>2
    <3>6. P \cup {n} \in SUBSET D /\ {} \cup {n} \in SUBSET D
      OBVIOUS
    <3> HIDE DEF Above
    <3> QED BY <3>4, <3>5, <3>6
  <2>3. Nestings(ds, comp, n, P) = Nestings(ds, comp, n, {})
    <3>1. \A i \in 1 .. Len(ds[n].stages) :
            ds[n].stages[i].kind = "effect" => ds[n].stages[i].ref \in Refs(ds[n])
      BY RefsAre
    <3> QED BY <2>2, <3>1 DEF Nestings
  <2>4. /\ comp[<<n, P>>] = IF n \in P THEN Invalid ELSE TimelineFrom(ds, n, Nestings(ds, comp, n, P))
        /\ comp[<<n, {}>>] = TimelineFrom(ds, n, Nestings(ds, comp, n, {}))
    BY DEF Compiler
  <2> QED BY <2>1, <2>3, <2>4
<1>2. D \subseteq T
  <2> HIDE DEF T
  <2> QED BY <1>0, <1>1, ByRank
<1> QED BY <1>2

\* What the stages of n refer to, of timelines.
NestedIn(ds, tls, n) ==
  [i \in 1 .. Len(ds[n].stages) |->
     LET sd == ds[n].stages[i] IN IF sd.kind # "effect" THEN sd ELSE tls[sd.ref]]

LEMMA CompiledPlainly ==
  ASSUME InvalidIsNoValue, NEW ds, IsConfig(ds), WellFounded(ds), NEW n \in DOMAIN ds
  PROVE  LET tls == [x \in DOMAIN ds |-> compile(ds, x)]
         IN /\ tls[n] # Invalid <=> Accepts(ds, n, NestedIn(ds, tls, n))
            /\ tls[n] # Invalid => Plays(tls[n], ds, n, NestedIn(ds, tls, n))
<1> DEFINE tls == [x \in DOMAIN ds |-> compile(ds, x)]
<1>1. PICK comp : Compiler(ds, comp) /\ \A x \in DOMAIN ds : compile(ds, x) = comp[<<x, {}>>]
  BY CompilerExists
<1>2. PICK w, bound : Weighs(ds, DOMAIN ds, w, bound)
  BY WeightsExist
<1>3. \A x \in DOMAIN ds : tls[x] = comp[<<x, {}>>]
  BY <1>1
<1> HIDE DEF tls
<1>4. ASSUME NEW ref \in Refs(ds[n])
      PROVE  ref \in DOMAIN ds /\ comp[<<ref, {} \cup {n}>>] = comp[<<ref, {}>>]
  <2>1. ref \in DOMAIN ds /\ w[ref] \in Nat /\ w[n] \in Nat
        /\ Len(ds[ref].stages) \in Nat /\ w[ref] + Len(ds[ref].stages) < w[n]
    BY <1>2 DEF Weighs, WellFounded, IsConfig, IsStages
  <2>2. \A p \in {} \cup {n} : w[ref] < w[p]
    BY <2>1
  <2>3. {} \cup {n} \in SUBSET DOMAIN ds
    OBVIOUS
  <2>4. comp[<<ref, {} \cup {n}>>] = comp[<<ref, {}>>]
    BY <1>1, <1>2, <2>1, <2>2, <2>3, ChainsDoNotMatter
  <2> QED BY <2>1, <2>4
<1>5. Nestings(ds, comp, n, {}) = NestedIn(ds, tls, n)
  <2>1. \A i \in 1 .. Len(ds[n].stages) :
          ds[n].stages[i].kind = "effect" => ds[n].stages[i].ref \in Refs(ds[n])
    BY RefsAre
  <2> QED BY <1>3, <1>4, <2>1 DEF Nestings, NestedIn
<1>6. {} \in SUBSET DOMAIN ds
  OBVIOUS
<1>7. /\ comp[<<n, {}>>] # Invalid <=> n \notin {} /\ Accepts(ds, n, Nestings(ds, comp, n, {}))
      /\ comp[<<n, {}>>] # Invalid => Plays(comp[<<n, {}>>], ds, n, Nestings(ds, comp, n, {}))
  BY <1>1, <1>6, CompiledStep
<1> QED BY <1>3, <1>5, <1>7 DEF tls

------------------------------------------------------------------------------
(***************************************************************************)
(* Which effects end, and which definitions make sense.                    *)
(***************************************************************************)
\* An effect ends exactly when its last stage has a duration, or plays one
\* that ends.
LEMMA EndsWhen ==
  ASSUME NEW ds, IsConfig(ds), WellFounded(ds), NEW n \in DOMAIN ds, Len(ds[n].stages) # 0
  PROVE  LET sd == ds[n].stages[Len(ds[n].stages)]
         IN Ends(ds, n) <=> sd.dur # 0 \/ (sd.kind = "effect" /\ Ends(ds, sd.ref))
<1> DEFINE sd == ds[n].stages[Len(ds[n].stages)]
<1>1. Last(ds[n].stages) = sd
  BY DEF Last
<1>2. sd.kind = "effect" => sd.ref \in DOMAIN ds
  <2>1. Len(ds[n].stages) \in 1 .. Len(ds[n].stages)
    BY DEF IsConfig, IsStages
  <2>2. sd.kind = "effect" => sd.ref \in Refs(ds[n])
    BY <2>1, RefsAre
  <2> QED BY <2>2 DEF WellFounded
<1> HIDE DEF sd
<1>3. ASSUME NEW S \in SUBSET DOMAIN ds, Endless(ds, S), n \in S
      PROVE  sd.dur = 0 /\ (sd.kind = "effect" => ~Ends(ds, sd.ref))
  BY <1>1, <1>3 DEF Endless, Ends
<1>4. ASSUME sd.dur = 0, sd.kind = "effect" => ~Ends(ds, sd.ref)
      PROVE  ~Ends(ds, n)
  <2>1. CASE sd.kind # "effect"
    <3>1. Endless(ds, {n})
      BY <1>1, <1>4, <2>1 DEF Endless
    <3> QED BY <3>1 DEF Ends
  <2>2. CASE sd.kind = "effect"
    <3>1. PICK S \in SUBSET DOMAIN ds : Endless(ds, S) /\ sd.ref \in S
      BY <1>4, <2>2 DEF Ends
    <3>2. Endless(ds, S \cup {n})
      BY <1>1, <1>4, <3>1 DEF Endless
    <3>3. S \cup {n} \in SUBSET DOMAIN ds
      OBVIOUS
    <3> QED BY <3>2, <3>3 DEF Ends
  <2> QED BY <2>1, <2>2
<1>5. ~Ends(ds, n) => \E S \in SUBSET DOMAIN ds : Endless(ds, S) /\ n \in S
  BY DEF Ends
<1> QED BY <1>3, <1>4, <1>5 DEF sd

\* The total duration of what an effect compiled to tells whether it ends.
LEMMA TotalTells ==
  ASSUME NEW ds, IsConfig(ds), WellFounded(ds), NEW tls, NEW n \in DOMAIN ds,
         Plays(tls[n], ds, n, NestedIn(ds, tls, n)),
         \A ref \in Refs(ds[n]) : Total(tls[ref]) # 0 <=> Ends(ds, ref)
  PROVE  Total(tls[n]) # 0 <=> Ends(ds, n)
<1> DEFINE L == Len(ds[n].stages)
           sd == ds[n].stages[L]
           d == DurOf(sd, NestedIn(ds, tls, n)[L])
<1>1. L \in 1 .. L
  BY DEF Plays, IsConfig, IsStages
<1>2. Total(tls[n]) = 0 <=> d = 0
  BY DEF Plays
<1>3. d = IF sd.kind = "effect" /\ sd.dur = 0 THEN Total(tls[sd.ref]) ELSE sd.dur
  BY <1>1 DEF DurOf, NestedIn
<1>4. sd.kind = "effect" => sd.ref \in Refs(ds[n])
  BY <1>1, RefsAre
<1>5. Ends(ds, n) <=> sd.dur # 0 \/ (sd.kind = "effect" /\ Ends(ds, sd.ref))
  BY <1>1, EndsWhen
<1> HIDE DEF d, sd
<1> QED BY <1>2, <1>3, <1>4, <1>5

\* The stages of an effect are such that the compiler accepts it.
LEMMA AcceptsWellFormed ==
  ASSUME InvalidIsNoValue, NEW ds, IsConfig(ds), WellFounded(ds), NEW tls, NEW n \in DOMAIN ds,
         \A ref \in Refs(ds[n]) : tls[ref] # Invalid /\ (Total(tls[ref]) # 0 <=> Ends(ds, ref))
  PROVE  Accepts(ds, n, NestedIn(ds, tls, n)) <=> ds[n].stages # <<>> /\ WellFormed(ds, n)
<1> DEFINE stages == ds[n].stages
           L == Len(stages)
           nested == NestedIn(ds, tls, n)
<1>1. L \in Nat /\ DOMAIN stages = 1 .. L /\ \A i \in 1 .. L : IsStage(stages[i]) /\ stages[i] # Invalid
  BY DEF IsConfig, IsStages, InvalidIsNoValue
<1>2. stages # <<>> <=> L # 0
  BY <1>1
<1>3. ASSUME NEW i \in 1 .. L
      PROVE  /\ nested[i] # Invalid
             /\ DurOf(stages[i], nested[i]) # 0
                  <=> stages[i].dur # 0 \/ (stages[i].kind = "effect" /\ Ends(ds, stages[i].ref))
  <2>1. nested[i] = IF stages[i].kind # "effect" THEN stages[i] ELSE tls[stages[i].ref]
    BY DEF NestedIn
  <2>2. stages[i].kind = "effect" => stages[i].ref \in Refs(ds[n])
    BY RefsAre
  <2> HIDE DEF nested, stages
  <2>3. CASE stages[i].kind = "effect"
    BY <2>1, <2>2, <2>3 DEF DurOf, stages
  <2>4. CASE stages[i].kind # "effect"
    BY <1>1, <2>1, <2>4 DEF DurOf
  <2> QED BY <2>3, <2>4
<1>4. L # 0 => L \in 1 .. L /\ (DurOf(stages[L], nested[L]) # 0 <=> Ends(ds, n))
  BY <1>1, <1>3, EndsWhen
<1>5. \A i \in 1 .. L : i \in 1 .. L - 1 <=> i # L
  BY <1>1
<1>6. 1 .. L - 1 \subseteq 1 .. L
  BY <1>1
<1>7. WellFormed(ds, n) <=>
        /\ \A i \in 1 .. L : stages[i].kind # "malformed"
        /\ \A i \in 1 .. L - 1 :
             stages[i].dur # 0 \/ (stages[i].kind = "effect" /\ Ends(ds, stages[i].ref))
        /\ Ends(ds, n) => ds[n].final # Invalid
  BY <1>1 DEF WellFormed
<1>8. Accepts(ds, n, nested) <=>
        /\ L # 0
        /\ \A i \in 1 .. L : /\ stages[i].kind # "malformed" /\ nested[i] # Invalid
                             /\ DurOf(stages[i], nested[i]) # 0 \/ i = L
        /\ DurOf(stages[L], nested[L]) = 0 \/ ds[n].final # Invalid
  BY DEF Accepts
<1> HIDE DEF nested, stages, L
<1> QED BY <1>2, <1>3, <1>4, <1>5, <1>6, <1>7, <1>8 DEF nested, stages

Compiled(ds) == [n \in DOMAIN ds |-> compile(ds, n)]

LEMMA RefsWeighLess ==
  ASSUME NEW ds, IsConfig(ds), WellFounded(ds), NEW w, NEW bound, Weighs(ds, DOMAIN ds, w, bound),
         NEW n \in DOMAIN ds, NEW ref \in Refs(ds[n])
  PROVE  ref \in DOMAIN ds /\ w[ref] < w[n]
<1>1. /\ ref \in DOMAIN ds /\ w[ref] \in Nat /\ w[n] \in Nat
      /\ Len(ds[ref].stages) \in Nat /\ w[ref] + Len(ds[ref].stages) < w[n]
  BY DEF Weighs, WellFounded, IsConfig, IsStages
<1> QED BY <1>1

LEMMA CompiledTotals ==
  ASSUME InvalidIsNoValue, NEW ds, IsConfig(ds), WellFounded(ds),
         \A n \in DOMAIN ds : Compiled(ds)[n] # Invalid
  PROVE  \A n \in DOMAIN ds : Total(Compiled(ds)[n]) # 0 <=> Ends(ds, n)
<1> DEFINE D == DOMAIN ds
           tls == Compiled(ds)
           T == {n \in D : Total(tls[n]) # 0 <=> Ends(ds, n)}
<1>1. PICK w, bound : Weighs(ds, D, w, bound)
  BY WeightsExist
<1>2. ASSUME NEW n \in D, \A m \in D : w[m] < w[n] => m \in T
      PROVE  n \in T
  <2>1. Plays(tls[n], ds, n, NestedIn(ds, tls, n))
    BY CompiledPlainly DEF Compiled
  <2>2. \A ref \in Refs(ds[n]) : ref \in T
    BY <1>1, <1>2, RefsWeighLess
  <2>3. \A ref \in Refs(ds[n]) : Total(tls[ref]) # 0 <=> Ends(ds, ref)
    BY <2>2
  <2> HIDE DEF tls
  <2>4. Total(tls[n]) # 0 <=> Ends(ds, n)
    BY <2>1, <2>3, TotalTells
  <2> QED BY <2>4
<1>3. D \subseteq T
  <2>1. w \in [D -> Nat]
    BY <1>1 DEF Weighs
  <2> HIDE DEF T
  <2> QED BY <1>2, <2>1, ByRank
<1> QED BY <1>3

LEMMA CompiledSet ==
  ASSUME InvalidIsNoValue, NEW ds
  PROVE  /\ compileEffects(ds) # Invalid <=> \A n \in DOMAIN ds : Compiled(ds)[n] # Invalid
         /\ compileEffects(ds) # Invalid => compileEffects(ds) = Compiled(ds)
<1>1. Compiled(ds) # Invalid
  BY DEF InvalidIsNoValue, Compiled
<1> QED BY <1>1 DEF compileEffects, Compiled

LEMMA CompiledIsSound ==
  ASSUME InvalidIsNoValue, NEW ds, IsConfig(ds), \A n \in DOMAIN ds : Compiled(ds)[n] # Invalid
  PROVE  Sound(ds)
<1> DEFINE tls == Compiled(ds)
<1>1. WellFounded(ds)
  <2>1. PICK comp : Compiler(ds, comp) /\ \A x \in DOMAIN ds : compile(ds, x) = comp[<<x, {}>>]
    BY CompilerExists
  <2>2. \A n \in DOMAIN ds : comp[<<n, {}>>] # Invalid
    BY <2>1 DEF Compiled
  <2> QED BY <2>1, <2>2, CompiledIsWellFounded
<1>2. ASSUME NEW n \in DOMAIN ds
      PROVE  ds[n].stages # <<>> /\ WellFormed(ds, n)
  <2>1. Accepts(ds, n, NestedIn(ds, tls, n))
    BY <1>1, CompiledPlainly DEF Compiled
  <2>2. \A ref \in Refs(ds[n]) : ref \in DOMAIN ds
    BY <1>1 DEF WellFounded
  <2>3. \A ref \in Refs(ds[n]) : tls[ref] # Invalid /\ (Total(tls[ref]) # 0 <=> Ends(ds, ref))
    BY <1>1, <2>2, CompiledTotals
  <2> HIDE DEF tls
  <2> QED BY <1>1, <2>1, <2>3, AcceptsWellFormed
<1> QED BY <1>1, <1>2 DEF Sound

LEMMA SoundCompiles ==
  ASSUME InvalidIsNoValue, NEW ds, IsConfig(ds), Sound(ds)
  PROVE  \A n \in DOMAIN ds : Compiled(ds)[n] # Invalid
<1> DEFINE D == DOMAIN ds
           tls == Compiled(ds)
           T == {n \in D : tls[n] # Invalid /\ (Total(tls[n]) # 0 <=> Ends(ds, n))}
<1>0. WellFounded(ds) /\ \A n \in D : ds[n].stages # <<>> /\ WellFormed(ds, n)
  BY DEF Sound
<1>1. PICK w, bound : Weighs(ds, D, w, bound)
  BY <1>0, WeightsExist
<1>2. ASSUME NEW n \in D, \A m \in D : w[m] < w[n] => m \in T
      PROVE  n \in T
  <2>1. /\ tls[n] # Invalid <=> Accepts(ds, n, NestedIn(ds, tls, n))
        /\ tls[n] # Invalid => Plays(tls[n], ds, n, NestedIn(ds, tls, n))
    BY <1>0, CompiledPlainly DEF Compiled
  <2>2. \A ref \in Refs(ds[n]) : ref \in T
    BY <1>0, <1>1, <1>2, RefsWeighLess
  <2>3. \A ref \in Refs(ds[n]) : tls[ref] # Invalid /\ (Total(tls[ref]) # 0 <=> Ends(ds, ref))
    BY <2>2
  <2> HIDE DEF tls
  <2>4. tls[n] # Invalid
    BY <1>0, <2>1, <2>3, AcceptsWellFormed
  <2>5. Total(tls[n]) # 0 <=> Ends(ds, n)
    BY <1>0, <2>1, <2>3, <2>4, TotalTells
  <2> QED BY <2>4, <2>5
<1>3. D \subseteq T
  <2>1. w \in [D -> Nat]
    BY <1>1 DEF Weighs
  <2> HIDE DEF T
  <2> QED BY <1>2, <2>1, ByRank
<1> QED BY <1>3

LEMMA ConfigStays ==
  ASSUME [Next]_vars
  PROVE  UNCHANGED <<defs, lib>>
BY DEF Next, Pass, Fire, Begin, Run, Tick, config, vars

\* The compiler accepts exactly the sets of definitions that make sense,
\* however many effects there are and however deep they are nested: references
\* are known and never come back to where they began, only a last stage goes on
\* for ever, and an effect that ends has a final color (compile.go:76-197).
THEOREM CompilesExactlySoundSets ==
  ASSUME InvalidIsNoValue
  PROVE  IsConfig(defs) /\ EngineSpec => []CompilesSoundSets
<1>1. IsConfig(defs) /\ InitEngine => IsConfig(defs)
  OBVIOUS
<1>2. IsConfig(defs) /\ [Next]_vars => IsConfig(defs)'
  <2>1. UNCHANGED defs /\ IsConfig(defs) => IsConfig(defs)'
    BY DEF IsConfig
  <2> QED BY <2>1, ConfigStays
<1>3. IsConfig(defs) => CompilesSoundSets
  BY CompiledSet, CompiledIsSound, SoundCompiles DEF CompilesSoundSets
<1> QED BY <1>1, <1>2, <1>3, PTL DEF EngineSpec

------------------------------------------------------------------------------
(***************************************************************************)
(* What a library plays.                                                   *)
(***************************************************************************)
\* Timelines that play: of stages that are known, and end to end.
Playable(tls) ==
  \A n \in DOMAIN tls :
    /\ IsStages(tls[n].stages) /\ Len(tls[n].stages) # 0
    /\ \A i \in 1 .. Len(tls[n].stages) :
         LET s == tls[n].stages[i]
         IN s.kind \in Kinds /\ (s.kind = "effect" => s.ref \in DOMAIN tls)

\* A moment of an effect: from stage i on, t ticks after that began.
Moments(tls) == (DOMAIN tls) \X (Nat \ {0}) \X Int

StageColor(f, s, t) ==
  CASE s.kind = "color" -> s.color
    [] s.kind = "breathe" -> breatheFrame(s, t)
    [] s.kind = "alternate" -> alternateFrame(s, t)
    [] s.kind = "effect" -> f[<<s.ref, 1, t>>].color

AtStep(tls, f, x) ==
  LET tl == tls[x[1]]
      s == tl.stages[x[2]]
  IN IF x[2] > Len(tl.stages) THEN [color |-> tl.final, done |-> TRUE]
     ELSE IF s.dur = 0 \/ x[3] < s.dur THEN [color |-> StageColor(f, s, x[3]), done |-> FALSE]
     ELSE f[<<x[1], x[2] + 1, x[3] - s.dur>>]

Palette(tls) ==
  {tls[n].final : n \in DOMAIN tls}
    \cup {tls[p[1]].stages[p[2]].color : p \in (DOMAIN tls) \X Nat}
    \cup {breatheFrame(tls[p[1]].stages[p[2]], p[3]) : p \in (DOMAIN tls) \X Nat \X Int}
    \cup {alternateFrame(tls[p[1]].stages[p[2]], p[3]) : p \in (DOMAIN tls) \X Nat \X Int}

Frames(tls) == [color : Palette(tls), done : BOOLEAN]

LEMMA MomentsAre ==
  ASSUME NEW tls, Playable(tls), NEW n \in DOMAIN tls, NEW i \in 1 .. Len(tls[n].stages), NEW t \in Int
  PROVE  LET s == tls[n].stages[i]
         IN /\ <<n, i, t>> \in Moments(tls) /\ <<n, 1, t>> \in Moments(tls)
            /\ <<n, i + 1, t - s.dur>> \in Moments(tls)
            /\ s.kind = "effect" => <<s.ref, 1, t>> \in Moments(tls)
<1> DEFINE s == tls[n].stages[i]
<1>1. Len(tls[n].stages) \in Nat /\ IsStage(s) /\ (s.kind = "effect" => s.ref \in DOMAIN tls)
  BY DEF Playable, IsStages
<1>2. s.dur \in Nat
  BY <1>1, StageKinds
<1>3. i \in Nat /\ i # 0 /\ i + 1 \in Nat /\ i + 1 # 0
  BY <1>1
<1> HIDE DEF s
<1>4. t - s.dur \in Int
  BY <1>2
<1> QED BY <1>1, <1>3, <1>4 DEF Moments, s

LEMMA ColorsInPalette ==
  ASSUME NEW tls, Playable(tls), NEW f \in [Moments(tls) -> Frames(tls)],
         NEW n \in DOMAIN tls, NEW i \in 1 .. Len(tls[n].stages), NEW t \in Int
  PROVE  StageColor(f, tls[n].stages[i], t) \in Palette(tls)
<1> DEFINE s == tls[n].stages[i]
<1>1. s.kind \in Kinds /\ i \in Nat
  <2>1. Len(tls[n].stages) \in Nat
    BY DEF Playable, IsStages
  <2>2. i \in Nat
    BY <2>1
  <2> QED BY <2>2 DEF Playable
<1>2. CASE s.kind = "color"
  <2> DEFINE p == <<n, i>>
  <2>1. p \in (DOMAIN tls) \X Nat /\ s.color = tls[p[1]].stages[p[2]].color
    BY <1>1
  <2>2. StageColor(f, s, t) = s.color
    BY <1>2 DEF StageColor
  <2> HIDE DEF p, s
  <2> QED BY <2>1, <2>2 DEF Palette, s
<1> DEFINE q == <<n, i, t>>
<1>3. q \in (DOMAIN tls) \X Nat \X Int
  BY <1>1
<1>4. CASE s.kind = "breathe"
  <2>1. StageColor(f, s, t) = breatheFrame(s, t)
    BY <1>4 DEF StageColor
  <2>2. breatheFrame(s, t) = breatheFrame(tls[q[1]].stages[q[2]], q[3])
    OBVIOUS
  <2> HIDE DEF q, s
  <2> QED BY <1>3, <2>1, <2>2 DEF Palette, s
<1>5. CASE s.kind = "alternate"
  <2>1. StageColor(f, s, t) = alternateFrame(s, t)
    BY <1>5 DEF StageColor
  <2>2. alternateFrame(s, t) = alternateFrame(tls[q[1]].stages[q[2]], q[3])
    OBVIOUS
  <2> HIDE DEF q, s
  <2> QED BY <1>3, <2>1, <2>2 DEF Palette, s
<1>6. CASE s.kind = "effect"
  <2>1. StageColor(f, s, t) = f[<<s.ref, 1, t>>].color
    BY <1>6 DEF StageColor
  <2>2. <<s.ref, 1, t>> \in Moments(tls)
    BY <1>6, MomentsAre
  <2>3. f[<<s.ref, 1, t>>] \in Frames(tls)
    BY <2>2
  <2> HIDE DEF s
  <2> QED BY <2>1, <2>3 DEF Frames, s
<1> HIDE DEF s
<1> QED BY <1>1, <1>2, <1>4, <1>5, <1>6 DEF Kinds, s

LEMMA AtStepTyped ==
  ASSUME NEW tls, Playable(tls), NEW f \in [Moments(tls) -> Frames(tls)], NEW x \in Moments(tls)
  PROVE  AtStep(tls, f, x) \in Frames(tls)
<1> DEFINE n == x[1]
           i == x[2]
           t == x[3]
           L == Len(tls[n].stages)
           s == tls[n].stages[i]
<1>1. n \in DOMAIN tls /\ i \in Nat \ {0} /\ t \in Int /\ L \in Nat
  BY DEF Moments, Playable, IsStages
<1>2. AtStep(tls, f, x) = IF i > L THEN [color |-> tls[n].final, done |-> TRUE]
                          ELSE IF s.dur = 0 \/ t < s.dur THEN [color |-> StageColor(f, s, t), done |-> FALSE]
                          ELSE f[<<n, i + 1, t - s.dur>>]
  BY DEF AtStep
<1>3. CASE i > L
  <2>1. tls[n].final \in Palette(tls)
    BY <1>1 DEF Palette
  <2> HIDE DEF n, i, L
  <2> QED BY <1>2, <1>3, <2>1 DEF Frames
<1>4. CASE i \in 1 .. L
  <2>1. StageColor(f, s, t) \in Palette(tls)
    BY <1>1, <1>4, ColorsInPalette
  <2>2. <<n, i + 1, t - s.dur>> \in Moments(tls)
    BY <1>1, <1>4, MomentsAre
  <2>3. f[<<n, i + 1, t - s.dur>>] \in Frames(tls)
    BY <2>2
  <2>4. ~(i > L)
    BY <1>1, <1>4
  <2> HIDE DEF n, i, t, s, L
  <2> QED BY <1>2, <2>1, <2>3, <2>4 DEF Frames
<1> HIDE DEF n, i, t, s, L
<1> QED BY <1>1, <1>3, <1>4

\* What is left of a moment's effect, with all that it refers to.
MomentRank(tls, w, x) ==
  LET L == Len(tls[x[1]].stages)
  IN w[x[1]] + (IF x[2] <= L THEN L + 1 - x[2] ELSE 0)

LEMMA MomentRanked ==
  ASSUME NEW tls, Playable(tls), NEW w, NEW bound, Weighs(tls, DOMAIN tls, w, bound), NEW x \in Moments(tls)
  PROVE  MomentRank(tls, w, x) \in 0 .. bound
<1> DEFINE L == Len(tls[x[1]].stages)
           i == x[2]
           v == w[x[1]]
<1>1. L \in Nat /\ i \in Nat /\ i # 0 /\ v \in Nat /\ bound \in Nat /\ v + L <= bound
  BY DEF Moments, Playable, IsStages, Weighs
<1>2. MomentRank(tls, w, x) = v + (IF i <= L THEN L + 1 - i ELSE 0)
  BY DEF MomentRank
<1> HIDE DEF L, i, v
<1> QED BY <1>1, <1>2

LEMMA LaterMoments ==
  ASSUME NEW tls, Playable(tls), NEW w, NEW bound, Weighs(tls, DOMAIN tls, w, bound),
         NEW n \in DOMAIN tls, NEW i \in 1 .. Len(tls[n].stages), NEW t \in Int
  PROVE  LET s == tls[n].stages[i]
         IN /\ MomentRank(tls, w, <<n, i + 1, t - s.dur>>) < MomentRank(tls, w, <<n, i, t>>)
            /\ s.kind = "effect" =>
                 MomentRank(tls, w, <<s.ref, 1, t>>) < MomentRank(tls, w, <<n, i, t>>)
<1> DEFINE L == Len(tls[n].stages)
           s == tls[n].stages[i]
           v == w[n]
<1>1. L \in Nat /\ v \in Nat /\ DOMAIN tls[n].stages = 1 .. L
  BY DEF Playable, IsStages, Weighs
<1>2. MomentRank(tls, w, <<n, i, t>>) = v + (L + 1 - i)
  BY DEF MomentRank
<1>3. MomentRank(tls, w, <<n, i + 1, t - s.dur>>) < v + (L + 1 - i)
  <2>1. MomentRank(tls, w, <<n, i + 1, t - s.dur>>) = v + (IF i + 1 <= L THEN L + 1 - (i + 1) ELSE 0)
    BY DEF MomentRank
  <2>2. i \in 1 .. L
    OBVIOUS
  <2> HIDE DEF L, s, v
  <2> QED BY <1>1, <2>1, <2>2
<1>4. ASSUME s.kind = "effect"
      PROVE  MomentRank(tls, w, <<s.ref, 1, t>>) < v + (L + 1 - i)
  <2> DEFINE M == Len(tls[s.ref].stages)
             u == w[s.ref]
  <2>1. s.ref \in Refs(tls[n])
    BY <1>1, <1>4 DEF Refs
  <2>2. s.ref \in DOMAIN tls
    BY <2>1 DEF Weighs
  <2>3. M \in Nat /\ u \in Nat /\ u + M < v
    BY <2>1, <2>2 DEF Playable, IsStages, Weighs
  <2>4. MomentRank(tls, w, <<s.ref, 1, t>>) = u + (IF 1 <= M THEN M + 1 - 1 ELSE 0)
    BY DEF MomentRank
  <2>5. i \in 1 .. L
    OBVIOUS
  <2> HIDE DEF L, s, v, M, u
  <2> QED BY <1>1, <2>3, <2>4, <2>5
<1> QED BY <1>2, <1>3, <1>4

LEMMA AtStepRanked ==
  ASSUME NEW tls, Playable(tls), NEW w, NEW bound, Weighs(tls, DOMAIN tls, w, bound),
         NEW f, NEW g, NEW x \in Moments(tls),
         \A y \in Moments(tls) : MomentRank(tls, w, y) < MomentRank(tls, w, x) => f[y] = g[y]
  PROVE  AtStep(tls, f, x) = AtStep(tls, g, x)
<1> DEFINE n == x[1]
           i == x[2]
           t == x[3]
           L == Len(tls[n].stages)
           s == tls[n].stages[i]
<1>1. n \in DOMAIN tls /\ i \in Nat \ {0} /\ t \in Int /\ L \in Nat /\ x = <<n, i, t>>
  BY DEF Moments, Playable, IsStages
<1>2. /\ AtStep(tls, f, x) = IF i > L THEN [color |-> tls[n].final, done |-> TRUE]
                             ELSE IF s.dur = 0 \/ t < s.dur THEN [color |-> StageColor(f, s, t), done |-> FALSE]
                             ELSE f[<<n, i + 1, t - s.dur>>]
      /\ AtStep(tls, g, x) = IF i > L THEN [color |-> tls[n].final, done |-> TRUE]
                             ELSE IF s.dur = 0 \/ t < s.dur THEN [color |-> StageColor(g, s, t), done |-> FALSE]
                             ELSE g[<<n, i + 1, t - s.dur>>]
  BY DEF AtStep
<1>3. CASE i > L
  BY <1>2, <1>3
<1>4. CASE i \in 1 .. L
  <2>1. /\ <<n, i + 1, t - s.dur>> \in Moments(tls)
        /\ s.kind = "effect" => <<s.ref, 1, t>> \in Moments(tls)
    BY <1>1, <1>4, MomentsAre
  <2>2. /\ MomentRank(tls, w, <<n, i + 1, t - s.dur>>) < MomentRank(tls, w, <<n, i, t>>)
        /\ s.kind = "effect" =>
             MomentRank(tls, w, <<s.ref, 1, t>>) < MomentRank(tls, w, <<n, i, t>>)
    BY <1>1, <1>4, LaterMoments
  <2>3. s.kind \in Kinds
    BY <1>1, <1>4 DEF Playable
  <2> HIDE DEF n, i, t, s, L
  <2>4. f[<<n, i + 1, t - s.dur>>] = g[<<n, i + 1, t - s.dur>>]
    BY <1>1, <2>1, <2>2
  <2>5. s.kind = "effect" => f[<<s.ref, 1, t>>] = g[<<s.ref, 1, t>>]
    BY <1>1, <2>1, <2>2
  <2>6. StageColor(f, s, t) = StageColor(g, s, t)
    BY <2>3, <2>5 DEF StageColor, Kinds
  <2> QED BY <1>2, <2>4, <2>6
<1> HIDE DEF n, i, t, s, L
<1> QED BY <1>1, <1>3, <1>4

IsAt(tls, at) == at = [x \in Moments(tls) |-> AtStep(tls, at, x)]

\* The frames of a library: at[x] for every moment x.
Plan(tls, at) ==
  /\ \A x \in Moments(tls) : at[x] = AtStep(tls, at, x)
  /\ \A n \in DOMAIN tls : \A e \in Int : At(tls, n, e) = at[<<n, 1, e>>]

LEMMA PlanExists ==
  ASSUME NEW tls, Playable(tls), NEW w, NEW bound, Weighs(tls, DOMAIN tls, w, bound)
  PROVE  \E at : Plan(tls, at)
<1> DEFINE D == Moments(tls)
           V == Frames(tls)
           m == [x \in D |-> MomentRank(tls, w, x)]
           step == [p \in [D -> V] \X D |-> AtStep(tls, p[1], p[2])]
<1>0. CASE DOMAIN tls = {}
  <2>1. D = {}
    BY <1>0 DEF Moments
  <2>2. Plan(tls, <<>>)
    BY <1>0, <2>1 DEF Plan
  <2> QED BY <2>2
<1>1. CASE DOMAIN tls # {}
  <2>1. m \in [D -> 0 .. bound] /\ bound \in Nat
    <3>1. \A x \in D : MomentRank(tls, w, x) \in 0 .. bound
      BY MomentRanked
    <3>2. bound \in Nat
      BY DEF Weighs
    <3> QED BY <3>1, <3>2
  <2>2. \A f \in [D -> V] : \A x \in D : step[<<f, x>>] = AtStep(tls, f, x)
    OBVIOUS
  <2>3. step \in [[D -> V] \X D -> V]
    BY AtStepTyped
  <2>4. \A x \in D : m[x] = MomentRank(tls, w, x)
    OBVIOUS
  <2> HIDE DEF step, m
  <2>5. Ranked(D, V, m, bound, step)
    <3>1. ASSUME NEW f \in [D -> V], NEW g \in [D -> V], NEW x \in D,
                 \A y \in D : m[y] < m[x] => f[y] = g[y]
          PROVE  step[<<f, x>>] = step[<<g, x>>]
      <4>1. \A y \in Moments(tls) : MomentRank(tls, w, y) < MomentRank(tls, w, x) => f[y] = g[y]
        BY <2>4, <3>1
      <4>2. AtStep(tls, f, x) = AtStep(tls, g, x)
        BY <4>1, AtStepRanked
      <4> QED BY <2>2, <4>2
    <3> QED BY <2>1, <2>3, <3>1 DEF Ranked
  <2>6. PICK f : Solves(f, D, V, step)
    <3>1. PICK n \in DOMAIN tls : TRUE
      BY <1>1
    <3> DEFINE v == [color |-> tls[n].final, done |-> TRUE]
    <3>2. v \in V
      BY DEF Frames, Palette
    <3>3. bound \in Nat
      BY <2>1
    <3> HIDE DEF D, V, v
    <3> QED BY <2>5, <3>2, <3>3, RankedExists
  <2>7. IsAt(tls, f)
    <3>1. \A x \in D : f[x] = AtStep(tls, f, x)
      BY <2>2, <2>6 DEF Solves
    <3>2. f = [x \in D |-> f[x]]
      BY <2>6 DEF Solves
    <3> QED BY <3>1, <3>2 DEF IsAt
  <2> DEFINE at == CHOOSE h : IsAt(tls, h)
  <2>8. IsAt(tls, at)
    BY <2>7
  <2>9. \A n \in DOMAIN tls : \A e \in Int : At(tls, n, e) = at[<<n, 1, e>>]
    BY Zenon DEF At, IsAt, AtStep, Moments, StageColor
  <2> HIDE DEF at
  <2>10. \A x \in Moments(tls) : at[x] = AtStep(tls, at, x)
    BY <2>8 DEF IsAt
  <2>11. Plan(tls, at)
    BY <2>9, <2>10 DEF Plan
  <2> QED BY <2>11
<1> QED BY <1>0, <1>1

LEMMA PlanSteps ==
  ASSUME NEW tls, Playable(tls), NEW at, Plan(tls, at), NEW n \in DOMAIN tls, NEW t \in Int
  PROVE  LET tl == tls[n]
             L == Len(tl.stages)
         IN /\ L \in Nat
            /\ at[<<n, L + 1, t>>] = [color |-> tl.final, done |-> TRUE]
            /\ \A i \in 1 .. L :
                 LET s == tl.stages[i]
                 IN /\ s.dur \in Nat
                    /\ s.dur = 0 \/ t < s.dur =>
                         at[<<n, i, t>>] = [color |-> StageColor(at, s, t), done |-> FALSE]
                    /\ ~(s.dur = 0 \/ t < s.dur) => at[<<n, i, t>>] = at[<<n, i + 1, t - s.dur>>]
<1> DEFINE tl == tls[n]
           L == Len(tl.stages)
<1>1. L \in Nat /\ \A i \in 1 .. L : IsStage(tl.stages[i])
  BY DEF Playable, IsStages
<1>2. at[<<n, L + 1, t>>] = [color |-> tl.final, done |-> TRUE]
  <2> DEFINE x == <<n, L + 1, t>>
  <2>1. x \in Moments(tls)
    <3>1. L + 1 \in Nat \ {0}
      BY <1>1
    <3> HIDE DEF L
    <3> QED BY <3>1 DEF Moments
  <2>2. x[1] = n /\ x[2] = L + 1 /\ L + 1 > L
    BY <1>1
  <2>3. at[x] = AtStep(tls, at, x)
    BY <2>1 DEF Plan
  <2> HIDE DEF x
  <2>4. AtStep(tls, at, x) = [color |-> tl.final, done |-> TRUE]
    BY <2>2 DEF AtStep
  <2> QED BY <2>3, <2>4 DEF x
<1>3. ASSUME NEW i \in 1 .. L
      PROVE  LET s == tl.stages[i]
             IN /\ s.dur \in Nat
                /\ s.dur = 0 \/ t < s.dur =>
                     at[<<n, i, t>>] = [color |-> StageColor(at, s, t), done |-> FALSE]
                /\ ~(s.dur = 0 \/ t < s.dur) => at[<<n, i, t>>] = at[<<n, i + 1, t - s.dur>>]
  <2> DEFINE x == <<n, i, t>>
             s == tl.stages[i]
  <2>1. x \in Moments(tls)
    BY MomentsAre
  <2>2. x[1] = n /\ x[2] = i /\ x[3] = t /\ ~(i > L)
    BY <1>1
  <2>3. at[x] = AtStep(tls, at, x)
    BY <2>1 DEF Plan
  <2>4. s.dur \in Nat
    BY <1>1, StageKinds
  <2> HIDE DEF x
  <2>5. AtStep(tls, at, x) = IF s.dur = 0 \/ t < s.dur
                             THEN [color |-> StageColor(at, s, t), done |-> FALSE]
                             ELSE at[<<n, i + 1, t - s.dur>>]
    BY <2>2 DEF AtStep
  <2> QED BY <2>3, <2>4, <2>5 DEF x
<1> QED BY <1>1, <1>2, <1>3

\* The ends of stages are in their order.
LEMMA EndsInOrder ==
  ASSUME NEW stages, IsStages(stages)
  PROVE  \A i \in 0 .. Len(stages) : StageEnds(stages)[i] <= StageEnds(stages)[Len(stages)]
<1> DEFINE L == Len(stages)
           ends == StageEnds(stages)
           T == {k \in 0 .. L : ends[L - k] <= ends[L]}
<1>1. L \in Nat /\ \A i \in 1 .. L : stages[i].dur \in Nat
  BY StageKinds DEF IsStages
<1>2. /\ ends \in [0 .. L -> Nat]
      /\ \A i \in 1 .. L : ends[i] = ends[i - 1] + stages[i].dur
  BY EndsAddUp
<1> HIDE DEF ends, L
<1>3. 0 \in T
  BY <1>1, <1>2
<1>4. ASSUME NEW k \in 1 .. L, k - 1 \in T
      PROVE  k \in T
  <2> DEFINE i == L - (k - 1)
  <2>1. i \in 1 .. L /\ i - 1 = L - k /\ i - 1 \in 0 .. L /\ i \in 0 .. L /\ L \in 0 .. L
    BY <1>1
  <2>2. ends[i] = ends[i - 1] + stages[i].dur /\ stages[i].dur \in Nat
    BY <1>1, <1>2, <2>1
  <2>3. ends[i] \in Nat /\ ends[i - 1] \in Nat /\ ends[L] \in Nat
    BY <1>2, <2>1
  <2>4. ends[i] <= ends[L]
    BY <1>4
  <2> HIDE DEF i
  <2>5. ends[i - 1] <= ends[L]
    BY <2>2, <2>3, <2>4
  <2> QED BY <1>1, <2>1, <2>5
<1>5. \A k \in 0 .. L : k \in T
  <2> HIDE DEF T
  <2> QED BY <1>1, <1>3, <1>4, EveryRound
<1>6. ASSUME NEW i \in 0 .. L
      PROVE  ends[i] <= ends[L]
  <2>1. L - i \in 0 .. L /\ L - (L - i) = i
    BY <1>1
  <2>2. L - i \in T
    BY <1>5, <2>1
  <2> QED BY <2>1, <2>2
<1> QED BY <1>6 DEF L, ends

\* From stage i on, an effect is done when all stages that are left have ended.
LEMMA DoneFrom ==
  ASSUME NEW tls, Playable(tls), NEW at, Plan(tls, at), NEW n \in DOMAIN tls
  PROVE  LET tl == tls[n]
             L == Len(tl.stages)
             ends == StageEnds(tl.stages)
         IN \A i \in 1 .. L + 1 : \A t \in Nat :
              /\ at[<<n, i, t>>].done <=> (\A j \in i .. L : tl.stages[j].dur # 0) /\ t >= ends[L] - ends[i - 1]
              /\ at[<<n, i, t>>].done => at[<<n, i, t>>].color = tl.final
<1> DEFINE tl == tls[n]
           L == Len(tl.stages)
           ends == StageEnds(tl.stages)
           dur(i) == tl.stages[i].dur
           Claim(i) == \A t \in Nat :
              /\ at[<<n, i, t>>].done <=> (\A j \in i .. L : dur(j) # 0) /\ t >= ends[L] - ends[i - 1]
              /\ at[<<n, i, t>>].done => at[<<n, i, t>>].color = tl.final
           T == {k \in 0 .. L : Claim(L + 1 - k)}
<1>1. IsStages(tl.stages) /\ L \in Nat /\ \A i \in 1 .. L : dur(i) \in Nat
  BY StageKinds DEF Playable, IsStages
<1>2. /\ ends \in [0 .. L -> Nat]
      /\ \A i \in 1 .. L : ends[i] = ends[i - 1] + dur(i)
  BY <1>1, EndsAddUp
<1>3. \A i \in 0 .. L : ends[i] <= ends[L]
  BY <1>1, EndsInOrder
<1>4. ASSUME NEW t \in Nat
      PROVE  /\ at[<<n, L + 1, t>>] = [color |-> tl.final, done |-> TRUE]
             /\ \A i \in 1 .. L :
                  /\ dur(i) = 0 \/ t < dur(i) =>
                       at[<<n, i, t>>] = [color |-> StageColor(at, tl.stages[i], t), done |-> FALSE]
                  /\ ~(dur(i) = 0 \/ t < dur(i)) => at[<<n, i, t>>] = at[<<n, i + 1, t - dur(i)>>]
  <2>1. t \in Int
    OBVIOUS
  <2> QED BY <2>1, PlanSteps
<1> HIDE DEF tl, L, ends, dur
<1>5. 0 \in T
  <2>1. Claim(L + 1)
    <3> DEFINE i == L + 1
    <3>0. i - 1 = L /\ ends[L] \in Nat /\ i .. L = {}
      BY <1>1, <1>2
    <3>1. ASSUME NEW t \in Nat
          PROVE  at[<<n, i, t>>].done /\ at[<<n, i, t>>].color = tl.final
      BY <1>4
    <3> HIDE DEF i
    <3>2. Claim(i)
      BY <3>0, <3>1
    <3> QED BY <3>2 DEF i
  <2>2. L + 1 - 0 = L + 1 /\ 0 \in 0 .. L
    BY <1>1
  <2> HIDE DEF Claim
  <2> QED BY <2>1, <2>2
<1>6. ASSUME NEW k \in 1 .. L, k - 1 \in T
      PROVE  k \in T
  <2> DEFINE i == L + 1 - k
  <2>1. i \in 1 .. L /\ i - 1 \in 0 .. L /\ i \in 0 .. L /\ L \in 0 .. L /\ L + 1 - (k - 1) = i + 1 /\ i + 1 - 1 = i
    BY <1>1
  <2>2. Claim(i + 1)
    <3> HIDE DEF Claim, i
    <3> QED BY <1>6, <2>1
  <2>3. /\ ends[i] = ends[i - 1] + dur(i) /\ dur(i) \in Nat /\ ends[i] <= ends[L]
        /\ ends[i] \in Nat /\ ends[i - 1] \in Nat /\ ends[L] \in Nat
    BY <1>1, <1>2, <1>3, <2>1
  <2>4. Claim(i)
    <3> SUFFICES ASSUME NEW t \in Nat
                 PROVE  /\ at[<<n, i, t>>].done <=>
                             (\A j \in i .. L : dur(j) # 0) /\ t >= ends[L] - ends[i - 1]
                        /\ at[<<n, i, t>>].done => at[<<n, i, t>>].color = tl.final
      OBVIOUS
    <3>1. i \in i .. L /\ \A j \in i .. L : j = i \/ j \in i + 1 .. L
      BY <1>1, <2>1
    <3>2. i + 1 .. L \subseteq i .. L
      BY <1>1, <2>1
    <3> HIDE DEF i
    <3>3. CASE dur(i) = 0 \/ t < dur(i)
      <4>1. ~at[<<n, i, t>>].done
        <5>1. at[<<n, i, t>>] = [color |-> StageColor(at, tl.stages[i], t), done |-> FALSE]
          BY <1>4, <2>1, <3>3
        <5>2. at[<<n, i, t>>].done = FALSE
          BY <5>1
        <5> QED BY <5>2
      <4>2. t < dur(i) => ~(t >= ends[L] - ends[i - 1])
        BY <2>3
      <4> QED BY <3>1, <3>3, <4>1, <4>2
    <3>4. CASE ~(dur(i) = 0 \/ t < dur(i))
      <4> DEFINE r == t - dur(i)
      <4>1. at[<<n, i, t>>] = at[<<n, i + 1, r>>]
        BY <1>4, <2>1, <3>4
      <4>2. r \in Nat /\ (r >= ends[L] - ends[i] <=> t >= ends[L] - ends[i - 1])
        BY <2>3, <3>4
      <4> HIDE DEF r
      <4>3. /\ at[<<n, i + 1, r>>].done <=>
                 (\A j \in i + 1 .. L : dur(j) # 0) /\ r >= ends[L] - ends[i]
            /\ at[<<n, i + 1, r>>].done => at[<<n, i + 1, r>>].color = tl.final
        BY <2>1, <2>2, <4>2
      <4>4. (\A j \in i + 1 .. L : dur(j) # 0) <=> (\A j \in i .. L : dur(j) # 0)
        BY <3>1, <3>2, <3>4
      <4> QED BY <4>1, <4>2, <4>3, <4>4
    <3> QED BY <3>3, <3>4
  <2> HIDE DEF Claim, i
  <2>5. Claim(L + 1 - k)
    BY <2>4 DEF i
  <2>6. k \in 0 .. L
    OBVIOUS
  <2> QED BY <2>5, <2>6
<1>7. \A k \in 0 .. L : k \in T
  <2> HIDE DEF T
  <2> QED BY <1>1, <1>5, <1>6, EveryRound
<1>8. ASSUME NEW i \in 1 .. L + 1
      PROVE  Claim(i)
  <2>1. L + 1 - i \in 0 .. L /\ L + 1 - (L + 1 - i) = i
    BY <1>1
  <2> HIDE DEF Claim
  <2>2. L + 1 - i \in T
    BY <1>7, <2>1
  <2> QED BY <2>1, <2>2
<1> QED BY <1>8 DEF tl, L, ends, dur

\* An effect is done when its total duration is over, and only then; what it
\* leaves is its final color.
LEMMA Ending ==
  ASSUME NEW tls, Playable(tls), NEW w, NEW bound, Weighs(tls, DOMAIN tls, w, bound),
         NEW n \in DOMAIN tls, NEW e \in Nat
  PROVE  LET frame == At(tls, n, e)
             total == Total(tls[n])
         IN /\ total \in Nat
            /\ frame.done <=> total # 0 /\ e >= total
            /\ frame.done => frame.color = tls[n].final
<1> DEFINE tl == tls[n]
           L == Len(tl.stages)
           ends == StageEnds(tl.stages)
<1>1. PICK at : Plan(tls, at)
  BY PlanExists
<1>2. At(tls, n, e) = at[<<n, 1, e>>]
  BY <1>1 DEF Plan
<1>3. IsStages(tl.stages) /\ L \in Nat /\ L # 0
  BY DEF Playable, IsStages
<1>4. /\ at[<<n, 1, e>>].done <=> (\A j \in 1 .. L : tl.stages[j].dur # 0) /\ e >= ends[L] - ends[1 - 1]
      /\ at[<<n, 1, e>>].done => at[<<n, 1, e>>].color = tl.final
  <2>1. 1 \in 1 .. L + 1
    BY <1>3
  <2> QED BY <1>1, <2>1, DoneFrom
<1>5. ends[0] = 0 /\ ends[L] \in Nat /\ ends[L] - ends[1 - 1] = ends[L]
  <2>1. ends[0] = 0 /\ ends \in [0 .. L -> Nat]
    BY <1>3, EndsAddUp
  <2>2. L \in 0 .. L /\ 1 - 1 = 0
    BY <1>3
  <2> HIDE DEF ends, L
  <2> QED BY <2>1, <2>2
<1>6. /\ Total(tl) \in Nat
      /\ Total(tl) = 0 <=> \E i \in 1 .. L : tl.stages[i].dur = 0
      /\ Total(tl) # 0 => Total(tl) = ends[L]
  BY <1>3, TotalMeans
<1> HIDE DEF tl, L, ends
<1> QED BY <1>2, <1>4, <1>5, <1>6 DEF tl

\* While stages end, an effect goes on with the next.
LEMMA AtAlong ==
  ASSUME NEW tls, Playable(tls), NEW at, Plan(tls, at), NEW n \in DOMAIN tls, NEW e \in Nat
  PROVE  LET stages == tls[n].stages
             ends == StageEnds(stages)
         IN \A i \in 0 .. Len(stages) :
              (\A j \in 1 .. i : stages[j].dur # 0) /\ e >= ends[i] =>
                at[<<n, 1, e>>] = at[<<n, i + 1, e - ends[i]>>]
<1> DEFINE stages == tls[n].stages
           L == Len(stages)
           ends == StageEnds(stages)
           dur(i) == stages[i].dur
           T == {i \in 0 .. L : (\A j \in 1 .. i : dur(j) # 0) /\ e >= ends[i] =>
                                  at[<<n, 1, e>>] = at[<<n, i + 1, e - ends[i]>>]}
<1>1. IsStages(stages) /\ L \in Nat /\ \A i \in 1 .. L : dur(i) \in Nat
  BY StageKinds DEF Playable, IsStages
<1>2. /\ ends \in [0 .. L -> Nat] /\ ends[0] = 0
      /\ \A i \in 1 .. L : ends[i] = ends[i - 1] + dur(i)
  BY <1>1, EndsAddUp
<1>3. ASSUME NEW t \in Int, NEW i \in 1 .. L, ~(dur(i) = 0 \/ t < dur(i))
      PROVE  at[<<n, i, t>>] = at[<<n, i + 1, t - dur(i)>>]
  <2>1. /\ at[<<n, L + 1, t>>] = [color |-> tls[n].final, done |-> TRUE]
        /\ \A k \in 1 .. L :
             /\ dur(k) = 0 \/ t < dur(k) =>
                  at[<<n, k, t>>] = [color |-> StageColor(at, stages[k], t), done |-> FALSE]
             /\ ~(dur(k) = 0 \/ t < dur(k)) => at[<<n, k, t>>] = at[<<n, k + 1, t - dur(k)>>]
    BY PlanSteps
  <2> HIDE DEF L, dur
  <2> QED BY <1>3, <2>1
<1> HIDE DEF stages, L, ends, dur
<1>4. 0 \in T
  BY <1>1, <1>2
<1>5. ASSUME NEW i \in 1 .. L, i - 1 \in T
      PROVE  i \in T
  <2> SUFFICES ASSUME \A j \in 1 .. i : dur(j) # 0, e >= ends[i]
               PROVE  at[<<n, 1, e>>] = at[<<n, i + 1, e - ends[i]>>]
    OBVIOUS
  <2>1. /\ ends[i] = ends[i - 1] + dur(i) /\ dur(i) \in Nat /\ dur(i) # 0
        /\ ends[i] \in Nat /\ ends[i - 1] \in Nat
    <3>1. i \in 0 .. L /\ i - 1 \in 0 .. L /\ i \in 1 .. i
      BY <1>1
    <3> QED BY <1>1, <1>2, <3>1
  <2> DEFINE t == e - ends[i - 1]
  <2>2. t \in Int /\ ~(dur(i) = 0 \/ t < dur(i)) /\ t - dur(i) = e - ends[i] /\ e >= ends[i - 1]
    BY <2>1
  <2>3. at[<<n, 1, e>>] = at[<<n, i - 1 + 1, t>>]
    <3>1. \A j \in 1 .. i - 1 : dur(j) # 0
      OBVIOUS
    <3> QED BY <1>5, <2>2, <3>1
  <2>4. i - 1 + 1 = i
    OBVIOUS
  <2> HIDE DEF t
  <2>5. at[<<n, i, t>>] = at[<<n, i + 1, t - dur(i)>>]
    BY <1>3, <2>2
  <2> QED BY <2>2, <2>3, <2>4, <2>5
<1>6. \A i \in 0 .. L : i \in T
  <2> HIDE DEF T
  <2> QED BY <1>1, <1>4, <1>5, EveryRound
<1> QED BY <1>6 DEF stages, L, ends, dur

\* FlattenSeq puts the sequences one after the other: g[i] is the first i.
Joins(g, seqs, C, L) ==
  /\ g \in [0 .. L -> Seq(C)]
  /\ g[0] = <<>>
  /\ \A i \in 1 .. L : g[i] = g[i - 1] \o seqs[i]

AllIn(seqs, C, L) == Len(seqs) = L /\ L # 0 /\ \A i \in 1 .. L : seqs[i] \in Seq(C)

LEMMA FlattenMeans ==
  ASSUME NEW C, NEW seqs, NEW L \in Nat, AllIn(seqs, C, L)
  PROVE  \E g : Joins(g, seqs, C, L) /\ FlattenSeq(seqs) = g[L]
<1> DEFINE S == Seq(C)
           none == <<>>
           step == [p \in S \X (1 .. L) |-> p[1] \o seqs[p[2]]]
           Is(f) == f = [i \in 1 .. L |-> IF i = 1 THEN seqs[i] ELSE f[i - 1] \o seqs[i]]
           flatten == CHOOSE f : Is(f)
<1>0. Len(seqs) = L /\ L # 0 /\ \A i \in 1 .. L : seqs[i] \in Seq(C)
  BY DEF AllIn
<1>1. step \in [S \X (1 .. L) -> S] /\ none \in S
  BY <1>0
<1>2. PICK g \in [0 .. L -> S] : Loop(g, L, none, step)
  <2> HIDE DEF step, S, none
  <2> QED BY <1>1, LoopExists
<1>3. g[0] = none /\ \A i \in 1 .. L : g[i] = g[i - 1] \o seqs[i]
  <2>1. \A i \in 0 .. L : g[i] = IF i = 0 THEN none ELSE step[<<g[i - 1], i>>]
    BY <1>2 DEF Loop
  <2>2. ASSUME NEW i \in 1 .. L
        PROVE  g[i] = g[i - 1] \o seqs[i]
    <3>1. i \in 0 .. L /\ i # 0 /\ i - 1 \in 0 .. L
      OBVIOUS
    <3>2. g[i - 1] \in S
      BY <3>1
    <3>3. <<g[i - 1], i>> \in S \X (1 .. L)
      BY <3>2
    <3>4. step[<<g[i - 1], i>>] = g[i - 1] \o seqs[i]
      <4> HIDE DEF S
      <4> QED BY <3>3
    <3> HIDE DEF step
    <3> QED BY <2>1, <3>1, <3>4
  <2>3. 0 \in 0 .. L
    OBVIOUS
  <2> HIDE DEF none, step
  <2> QED BY <2>1, <2>2, <2>3
<1>4. g[1] = seqs[1]
  <2>1. 1 \in 1 .. L /\ 1 - 1 = 0
    BY <1>0
  <2>2. g[1] = none \o seqs[1] /\ seqs[1] \in Seq(C)
    BY <1>0, <1>3, <2>1
  <2>3. none \o seqs[1] = seqs[1]
    BY <2>2, ConcatEmptySeq
  <2> QED BY <2>2, <2>3
<1>5. Is([i \in 1 .. L |-> g[i]])
  <2> DEFINE f == [i \in 1 .. L |-> g[i]]
  <2>1. \A i \in 1 .. L : i # 1 => i - 1 \in 1 .. L
    OBVIOUS
  <2>2. \A i \in 1 .. L : f[i] = IF i = 1 THEN seqs[i] ELSE f[i - 1] \o seqs[i]
    BY <1>3, <1>4, <2>1
  <2>3. f = [i \in 1 .. L |-> f[i]]
    OBVIOUS
  <2> HIDE DEF f
  <2>4. f = [i \in 1 .. L |-> IF i = 1 THEN seqs[i] ELSE f[i - 1] \o seqs[i]]
    BY <2>2, <2>3
  <2> QED BY <2>4 DEF f
<1>6. Is(flatten)
  <2> HIDE DEF Is
  <2> QED BY <1>5
<1>7. FlattenSeq(seqs) = flatten[L]
  BY <1>0, Zenon DEF FlattenSeq
<1> HIDE DEF flatten, step, none, S
<1>8. \A i \in 1 .. L : flatten[i] = IF i = 1 THEN seqs[i] ELSE flatten[i - 1] \o seqs[i]
  BY <1>6
<1> HIDE DEF Is
<1> DEFINE T == {i \in 0 .. L : i # 0 => flatten[i] = g[i]}
<1>9. 0 \in T
  OBVIOUS
<1>10. ASSUME NEW i \in 1 .. L, i - 1 \in T
       PROVE  i \in T
  <2>1. i - 1 # 0 => flatten[i - 1] = g[i - 1]
    BY <1>10
  <2>2. i - 1 = 0 <=> i = 1
    OBVIOUS
  <2>3. flatten[i] = g[i]
    BY <1>3, <1>4, <1>8, <2>1, <2>2
  <2> QED BY <2>3
<1>11. \A i \in 0 .. L : i \in T
  <2> HIDE DEF T
  <2> QED BY <1>9, <1>10, EveryRound
<1>12. flatten[L] = g[L]
  BY <1>0, <1>11
<1>13. Joins(g, seqs, C, L)
  BY <1>3 DEF Joins, S, none
<1> QED BY <1>7, <1>12, <1>13

------------------------------------------------------------------------------
(***************************************************************************)
(* What the script of an effect says.                                      *)
(***************************************************************************)
ScriptStep(ds, H, f, n) ==
  FlattenSeq([i \in DOMAIN ds[n].stages |-> StageScript(ds, H, f, ds[n].stages[i])])

Inks(ds) == Palette(ds) \cup {Black}

Scripts(ds) == [DOMAIN ds -> Seq(Inks(ds))]

LEMMA StageColorsTyped ==
  ASSUME NEW ds, Playable(ds), NEW H \in Nat, NEW f \in Scripts(ds),
         NEW n \in DOMAIN ds, NEW i \in 1 .. Len(ds[n].stages)
  PROVE  LET s == ds[n].stages[i]
         IN /\ StageColors(H, f, s) \in Seq(Inks(ds))
            /\ s.kind # "effect" => Len(StageColors(H, f, s)) = H
<1> DEFINE s == ds[n].stages[i]
           C == Inks(ds)
<1>1. s.kind \in Kinds /\ i \in Nat /\ (s.kind = "effect" => s.ref \in DOMAIN ds)
  <2>1. Len(ds[n].stages) \in Nat
    BY DEF Playable, IsStages
  <2>2. i \in Nat
    BY <2>1
  <2> QED BY <2>2 DEF Playable
<1>2. ASSUME NEW g, g \in [1 .. H -> C]
      PROVE  g \in Seq(C) /\ Len(g) = H
  <2> HIDE DEF C
  <2> QED BY <1>2
<1>3. CASE s.kind = "color"
  <2> DEFINE p == <<n, i>>
  <2>1. p \in (DOMAIN ds) \X Nat /\ s.color = ds[p[1]].stages[p[2]].color
    BY <1>1
  <2> HIDE DEF p
  <2>2. s.color \in C
    BY <2>1 DEF Inks, Palette
  <2>3. StageColors(H, f, s) = [k \in 1 .. H |-> s.color]
    BY <1>3 DEF StageColors
  <2> HIDE DEF C, s
  <2> QED BY <1>2, <1>3, <2>2, <2>3 DEF s, C
<1>4. ASSUME NEW k \in 1 .. H
      PROVE  breatheFrame(s, k - 1) \in C /\ alternateFrame(s, k - 1) \in C
  <2> DEFINE p == <<n, i, k - 1>>
  <2>1. p \in (DOMAIN ds) \X Nat \X Int
    BY <1>1
  <2>2. /\ breatheFrame(s, k - 1) = breatheFrame(ds[p[1]].stages[p[2]], p[3])
        /\ alternateFrame(s, k - 1) = alternateFrame(ds[p[1]].stages[p[2]], p[3])
    OBVIOUS
  <2> HIDE DEF p
  <2>3. breatheFrame(s, k - 1) \in Palette(ds)
    BY <2>1, <2>2 DEF Palette
  <2>4. alternateFrame(s, k - 1) \in Palette(ds)
    BY <2>1, <2>2 DEF Palette
  <2> QED BY <2>3, <2>4 DEF Inks
<1>5. CASE s.kind = "breathe"
  <2>1. StageColors(H, f, s) = [k \in 1 .. H |-> breatheFrame(s, k - 1)]
    BY <1>5 DEF StageColors
  <2> HIDE DEF C, s
  <2>2. [k \in 1 .. H |-> breatheFrame(s, k - 1)] \in [1 .. H -> C]
    BY <1>4
  <2> QED BY <1>2, <1>5, <2>1, <2>2 DEF s, C
<1>6. CASE s.kind = "alternate"
  <2>1. StageColors(H, f, s) = [k \in 1 .. H |-> alternateFrame(s, k - 1)]
    BY <1>6 DEF StageColors
  <2> HIDE DEF C, s
  <2>2. [k \in 1 .. H |-> alternateFrame(s, k - 1)] \in [1 .. H -> C]
    BY <1>4
  <2> QED BY <1>2, <1>6, <2>1, <2>2 DEF s, C
<1>7. CASE s.kind = "effect"
  <2>1. StageColors(H, f, s) = f[s.ref]
    BY <1>7 DEF StageColors
  <2>2. f[s.ref] \in Seq(C)
    BY <1>1, <1>7 DEF Scripts
  <2> HIDE DEF C, s
  <2> QED BY <1>7, <2>1, <2>2 DEF s, C
<1> HIDE DEF C, s
<1> QED BY <1>1, <1>3, <1>5, <1>6, <1>7 DEF Kinds, s, C

IsPadded(out, colors, c, n, C) ==
  /\ out \in Seq(C) /\ Len(out) = n
  /\ \A i \in 1 .. n : out[i] = IF i <= Len(colors) THEN colors[i] ELSE c

LEMMA Padded ==
  ASSUME NEW C, NEW colors \in Seq(C), NEW c \in C, NEW n \in Nat
  PROVE  IsPadded(padded(colors, c, n), colors, c, n, C)
<1>1. padded(colors, c, n) \in [1 .. n -> C]
  BY DEF padded
<1>2. padded(colors, c, n) = [i \in 1 .. n |-> IF i <= Len(colors) THEN colors[i] ELSE c]
  BY DEF padded
<1> QED BY <1>1, <1>2 DEF IsPadded

LEMMA StageScriptMeans ==
  ASSUME NEW ds, Playable(ds), NEW H \in Nat, NEW f \in Scripts(ds),
         NEW n \in DOMAIN ds, NEW i \in 1 .. Len(ds[n].stages)
  PROVE  LET s == ds[n].stages[i]
             colors == StageColors(H, f, s)
             out == StageScript(ds, H, f, s)
         IN /\ out \in Seq(Inks(ds))
            /\ Len(out) = IF s.dur # 0 THEN s.dur ELSE Len(colors)
            /\ \A k \in 1 .. Len(out) :
                 out[k] = IF k <= Len(colors) THEN colors[k]
                          ELSE IF s.kind = "effect" THEN ds[s.ref].final ELSE Black
<1> DEFINE s == ds[n].stages[i]
           colors == StageColors(H, f, s)
           c == IF s.kind = "effect" THEN ds[s.ref].final ELSE Black
           m == IF s.dur # 0 THEN s.dur ELSE Len(colors)
           out == StageScript(ds, H, f, s)
           C == Inks(ds)
<1>1. colors \in Seq(C) /\ Len(colors) \in Nat
  BY StageColorsTyped
<1>2. s.dur \in Nat
  BY StageKinds DEF Playable, IsStages
<1>3. c \in C
  BY DEF Playable, Inks, Palette
<1>4. m \in Nat
  BY <1>1, <1>2
<1>5. out = padded(colors, c, m)
  BY DEF StageScript
<1> HIDE DEF colors, c, m, out, C
<1>6. IsPadded(out, colors, c, m, C)
  <2>1. colors \in Seq(C)
    BY <1>1
  <2> QED BY <1>3, <1>4, <1>5, <2>1, Padded
<1> QED BY <1>6 DEF colors, c, m, out, C, IsPadded

\* The script of an effect is that of its stages, one after the other.
LEMMA ScriptStepMeans ==
  ASSUME NEW ds, Playable(ds), NEW H \in Nat, NEW f \in Scripts(ds), NEW n \in DOMAIN ds
  PROVE  LET stages == ds[n].stages
             L == Len(stages)
         IN \E g : /\ g \in [0 .. L -> Seq(Inks(ds))]
                   /\ g[0] = <<>>
                   /\ \A i \in 1 .. L : g[i] = g[i - 1] \o StageScript(ds, H, f, stages[i])
                   /\ ScriptStep(ds, H, f, n) = g[L]
<1> DEFINE stages == ds[n].stages
           L == Len(stages)
           C == Inks(ds)
           seqs == [i \in DOMAIN stages |-> StageScript(ds, H, f, stages[i])]
<1>1. L \in Nat /\ L # 0 /\ DOMAIN stages = 1 .. L
  BY DEF Playable, IsStages
<1>2. Len(seqs) = L /\ \A i \in 1 .. L : seqs[i] = StageScript(ds, H, f, stages[i])
  BY <1>1
<1>3. \A i \in 1 .. L : seqs[i] \in Seq(C)
  BY <1>2, StageScriptMeans
<1>4. ScriptStep(ds, H, f, n) = FlattenSeq(seqs)
  BY DEF ScriptStep
<1> HIDE DEF L, seqs, C
<1>5. AllIn(seqs, C, L)
  BY <1>1, <1>2, <1>3 DEF AllIn
<1>6. L \in Nat
  BY <1>1
<1>7. PICK g : Joins(g, seqs, C, L) /\ FlattenSeq(seqs) = g[L]
  BY <1>5, <1>6, FlattenMeans
<1> QED BY <1>2, <1>4, <1>7 DEF L, C, Joins

LEMMA ScriptStepRanked ==
  ASSUME NEW ds, Playable(ds), NEW H, NEW f, NEW g, NEW n \in DOMAIN ds,
         \A ref \in Refs(ds[n]) : f[ref] = g[ref]
  PROVE  ScriptStep(ds, H, f, n) = ScriptStep(ds, H, g, n)
<1> DEFINE stages == ds[n].stages
<1>1. ASSUME NEW i \in DOMAIN stages
      PROVE  StageScript(ds, H, f, stages[i]) = StageScript(ds, H, g, stages[i])
  <2>1. stages[i].kind \in Kinds
    BY DEF Playable, IsStages
  <2>2. stages[i].kind = "effect" => f[stages[i].ref] = g[stages[i].ref]
    BY DEF Refs
  <2> HIDE DEF stages
  <2>3. StageColors(H, f, stages[i]) = StageColors(H, g, stages[i])
    BY <2>1, <2>2 DEF StageColors, Kinds
  <2> QED BY <2>3 DEF StageScript
<1>2. [i \in DOMAIN stages |-> StageScript(ds, H, f, stages[i])]
        = [i \in DOMAIN stages |-> StageScript(ds, H, g, stages[i])]
  BY <1>1
<1> QED BY <1>2 DEF ScriptStep

IsScript(ds, H, script) == script = [n \in DOMAIN ds |-> ScriptStep(ds, H, script, n)]

\* The scripts of all effects together.
ScriptOf(ds, H, script) ==
  /\ script \in Scripts(ds)
  /\ \A n \in DOMAIN ds : script[n] = ScriptStep(ds, H, script, n)
  /\ \A n \in DOMAIN ds : Script(ds, n, H) = padded(script[n], ds[n].final, H)

LEMMA ScriptStepTyped ==
  ASSUME NEW ds, Playable(ds), NEW H \in Nat, NEW f \in Scripts(ds), NEW n \in DOMAIN ds
  PROVE  ScriptStep(ds, H, f, n) \in Seq(Inks(ds))
<1> DEFINE L == Len(ds[n].stages)
<1>1. PICK g : /\ g \in [0 .. L -> Seq(Inks(ds))]
               /\ g[0] = <<>>
               /\ \A i \in 1 .. L : g[i] = g[i - 1] \o StageScript(ds, H, f, ds[n].stages[i])
               /\ ScriptStep(ds, H, f, n) = g[L]
  BY ScriptStepMeans
<1>2. L \in 0 .. L
  <2>1. L \in Nat
    BY DEF Playable, IsStages
  <2> QED BY <2>1
<1> QED BY <1>1, <1>2

LEMMA ScriptsExist ==
  ASSUME NEW ds, Playable(ds), NEW H \in Nat, NEW w, NEW bound, Weighs(ds, DOMAIN ds, w, bound)
  PROVE  \E script : ScriptOf(ds, H, script)
<1> DEFINE D == DOMAIN ds
           V == Seq(Inks(ds))
           step == [p \in [D -> V] \X D |-> ScriptStep(ds, H, p[1], p[2])]
<1>1. w \in [D -> 0 .. bound] /\ w \in [D -> Nat] /\ bound \in Nat
  <2>1. w \in [D -> Nat] /\ bound \in Nat
    BY DEF Weighs
  <2>2. \A n \in D : w[n] + Len(ds[n].stages) <= bound /\ Len(ds[n].stages) \in Nat /\ w[n] \in Nat
    BY DEF Weighs, Playable, IsStages
  <2>3. \A n \in D : w[n] \in 0 .. bound
    BY <2>1, <2>2
  <2> QED BY <2>1, <2>3
<1>2. \A f \in [D -> V] : \A n \in D : step[<<f, n>>] = ScriptStep(ds, H, f, n)
  OBVIOUS
<1>3. step \in [[D -> V] \X D -> V]
  BY ScriptStepTyped DEF Scripts
<1>4. ASSUME NEW n \in D, NEW ref \in Refs(ds[n])
      PROVE  ref \in D /\ w[ref] < w[n]
  <2>1. /\ ref \in D /\ w[ref] \in Nat /\ w[n] \in Nat
        /\ Len(ds[ref].stages) \in Nat /\ w[ref] + Len(ds[ref].stages) < w[n]
    BY DEF Weighs, Playable, IsStages
  <2> QED BY <2>1
<1> HIDE DEF step
<1>5. Ranked(D, V, w, bound, step)
  <2>1. ASSUME NEW f \in [D -> V], NEW g \in [D -> V], NEW n \in D,
               \A y \in D : w[y] < w[n] => f[y] = g[y]
        PROVE  step[<<f, n>>] = step[<<g, n>>]
    <3>1. \A ref \in Refs(ds[n]) : f[ref] = g[ref]
      BY <1>4, <2>1
    <3>2. ScriptStep(ds, H, f, n) = ScriptStep(ds, H, g, n)
      BY <3>1, ScriptStepRanked
    <3> QED BY <1>2, <3>2
  <2> QED BY <1>1, <1>3, <2>1 DEF Ranked
<1>6. PICK f : Solves(f, D, V, step)
  <2> DEFINE none == <<>>
  <2>1. none \in V
    OBVIOUS
  <2>2. bound \in Nat
    BY <1>1
  <2> HIDE DEF D, V, none
  <2> QED BY <1>5, <2>1, <2>2, RankedExists
<1>7. f \in Scripts(ds) /\ \A n \in D : f[n] = ScriptStep(ds, H, f, n)
  BY <1>2, <1>6 DEF Solves, Scripts
<1>8. IsScript(ds, H, f)
  <2>1. f = [n \in D |-> f[n]]
    BY <1>7 DEF Scripts
  <2> QED BY <1>7, <2>1 DEF IsScript
<1> DEFINE script == CHOOSE h : IsScript(ds, H, h)
<1>9. IsScript(ds, H, script)
  BY <1>8
<1>10. \A n \in D : Script(ds, n, H) = padded(script[n], ds[n].final, H)
  BY Zenon DEF Script, IsScript, ScriptStep
<1> HIDE DEF script
<1>11. script = [n \in D |-> ScriptStep(ds, H, script, n)]
  BY <1>9 DEF IsScript
<1>12. script = f
  <2> DEFINE T == {n \in D : script[n] = f[n]}
  <2>1. ASSUME NEW n \in D, \A m \in D : w[m] < w[n] => m \in T
        PROVE  n \in T
    <3>1. \A ref \in Refs(ds[n]) : script[ref] = f[ref]
      BY <1>4, <2>1
    <3>2. ScriptStep(ds, H, script, n) = ScriptStep(ds, H, f, n)
      BY <3>1, ScriptStepRanked
    <3> QED BY <1>7, <1>11, <3>2
  <2>2. w \in [D -> Nat]
    BY <1>1
  <2>3. D \subseteq T
    <3> HIDE DEF T, D
    <3> QED BY <2>1, <2>2, ByRank
  <2>4. DOMAIN script = D /\ DOMAIN f = D
    BY <1>7, <1>11 DEF Scripts
  <2>5. [n \in D |-> script[n]] = [n \in D |-> f[n]]
    BY <2>3
  <2>6. f = [n \in D |-> f[n]] /\ script = [n \in D |-> script[n]]
    BY <1>7, <1>11 DEF Scripts
  <2> QED BY <2>5, <2>6
<1>13. ScriptOf(ds, H, f)
  BY <1>7, <1>10, <1>12 DEF ScriptOf
<1> QED BY <1>13

------------------------------------------------------------------------------
(***************************************************************************)
(* Compiled effects play their scripts.                                    *)
(***************************************************************************)
\* tls are the timelines of ds: of the same stages, each with the duration
\* the compiler gives it.
Matches(ds, tls) ==
  /\ DOMAIN tls = DOMAIN ds
  /\ \A n \in DOMAIN ds :
       LET L == Len(ds[n].stages)
       IN /\ Len(tls[n].stages) = L /\ tls[n].final = ds[n].final
          /\ \A i \in 1 .. L :
               LET u == tls[n].stages[i]
                   s == ds[n].stages[i]
               IN /\ SameStage(u, s)
                  /\ u.dur = IF s.kind = "effect" /\ s.dur = 0 THEN Total(tls[s.ref]) ELSE s.dur
                  /\ u.dur # 0 \/ i = L

LEMMA CompiledMatches ==
  ASSUME InvalidIsNoValue, NEW ds, IsConfig(ds), \A n \in DOMAIN ds : Compiled(ds)[n] # Invalid
  PROVE  /\ Matches(ds, Compiled(ds))
         /\ Playable(ds) /\ Playable(Compiled(ds))
         /\ WellFounded(ds)
<1> DEFINE tls == Compiled(ds)
           D == DOMAIN ds
<1>1. WellFounded(ds)
  BY CompiledIsSound DEF Sound
<1>2. DOMAIN tls = D
  BY DEF Compiled
<1>3. \A n \in D : /\ Accepts(ds, n, NestedIn(ds, tls, n))
                   /\ Plays(tls[n], ds, n, NestedIn(ds, tls, n))
  BY <1>1, CompiledPlainly DEF Compiled
<1> HIDE DEF tls
<1>4. ASSUME NEW n \in D, NEW i \in 1 .. Len(ds[n].stages)
      PROVE  LET u == tls[n].stages[i]
                 s == ds[n].stages[i]
             IN /\ SameStage(u, s) /\ s.kind \in Kinds /\ IsStage(s)
                /\ s.kind = "effect" => s.ref \in D
                /\ u.dur = IF s.kind = "effect" /\ s.dur = 0 THEN Total(tls[s.ref]) ELSE s.dur
                /\ u.dur # 0 \/ i = Len(ds[n].stages)
  <2> DEFINE u == tls[n].stages[i]
             s == ds[n].stages[i]
             ne == NestedIn(ds, tls, n)[i]
  <2>1. SameStage(u, s) /\ u.dur = DurOf(s, ne)
    BY <1>3 DEF Plays
  <2>2. s.kind # "malformed" /\ (DurOf(s, ne) # 0 \/ i = Len(ds[n].stages))
    BY <1>3 DEF Accepts
  <2>3. IsStage(s)
    BY DEF IsConfig, IsStages
  <2>4. s.kind = "effect" => s.ref \in Refs(ds[n])
    BY RefsAre
  <2>5. s.kind = "effect" => s.ref \in D
    BY <1>1, <2>4 DEF WellFounded
  <2>6. s.kind \in Kinds
    BY <2>2, <2>3, StageKinds
  <2>7. ne = IF s.kind # "effect" THEN s ELSE tls[s.ref]
    BY DEF NestedIn
  <2> HIDE DEF u, s, ne
  <2>8. DurOf(s, ne) = IF s.kind = "effect" /\ s.dur = 0 THEN Total(tls[s.ref]) ELSE s.dur
    BY <2>7 DEF DurOf
  <2> QED BY <2>1, <2>2, <2>3, <2>5, <2>6, <2>8 DEF u, s
<1>5. \A n \in D : /\ Len(tls[n].stages) = Len(ds[n].stages) /\ Len(ds[n].stages) # 0
                   /\ tls[n].final = ds[n].final
                   /\ IsStages(tls[n].stages) /\ IsStages(ds[n].stages)
  <2> SUFFICES ASSUME NEW n \in D
               PROVE  /\ Len(tls[n].stages) = Len(ds[n].stages) /\ Len(ds[n].stages) # 0
                      /\ tls[n].final = ds[n].final
                      /\ IsStages(tls[n].stages) /\ IsStages(ds[n].stages)
    OBVIOUS
  <2>1. /\ tls[n] = [stages |-> tls[n].stages, final |-> ds[n].final]
        /\ IsStages(tls[n].stages) /\ Len(tls[n].stages) = Len(ds[n].stages) /\ Len(ds[n].stages) # 0
    BY <1>3 DEF Plays
  <2>2. tls[n].final = ds[n].final
    BY <2>1
  <2> QED BY <2>1, <2>2 DEF IsConfig
<1>6. Matches(ds, tls)
  BY <1>2, <1>4, <1>5 DEF Matches
<1>7. Playable(ds)
  BY <1>4, <1>5 DEF Playable
<1>8. Playable(tls)
  <2>1. ASSUME NEW n \in D, NEW i \in 1 .. Len(tls[n].stages)
        PROVE  LET u == tls[n].stages[i]
               IN u.kind \in Kinds /\ (u.kind = "effect" => u.ref \in D)
    BY <1>4, <1>5 DEF SameStage
  <2> QED BY <1>2, <1>5, <2>1 DEF Playable
<1> QED BY <1>1, <1>6, <1>7, <1>8 DEF tls

\* Timelines weigh as their definitions do.
LEMMA MatchesWeigh ==
  ASSUME NEW ds, NEW tls, Matches(ds, tls), Playable(ds), Playable(tls),
         NEW w, NEW bound, Weighs(ds, DOMAIN ds, w, bound)
  PROVE  Weighs(tls, DOMAIN tls, w, bound)
<1>1. ASSUME NEW n \in DOMAIN ds
      PROVE  Refs(tls[n]) = Refs(ds[n]) /\ Len(tls[n].stages) = Len(ds[n].stages)
  <2> DEFINE L == Len(ds[n].stages)
  <2>1. DOMAIN ds[n].stages = 1 .. L /\ DOMAIN tls[n].stages = 1 .. L /\ Len(tls[n].stages) = L
    BY DEF Playable, IsStages, Matches
  <2>2. \A i \in 1 .. L : SameStage(tls[n].stages[i], ds[n].stages[i])
    BY DEF Matches
  <2>3. \A i \in 1 .. L : /\ tls[n].stages[i].kind = ds[n].stages[i].kind
                          /\ ds[n].stages[i].kind = "effect" =>
                               tls[n].stages[i].ref = ds[n].stages[i].ref
    BY <2>2 DEF SameStage
  <2> HIDE DEF L
  <2> QED BY <2>1, <2>3 DEF Refs, L
<1>2. DOMAIN tls = DOMAIN ds
  BY DEF Matches
<1> QED BY <1>1, <1>2 DEF Weighs

\* The script of an effect has its length and its colors.
ScriptRight(ds, tls, H, script, n) ==
  /\ Len(script[n]) \in Nat
  /\ Total(tls[n]) # 0 => Len(script[n]) = Total(tls[n])
  /\ Total(tls[n]) = 0 => Len(script[n]) >= H
  /\ \A e \in 0 .. H - 1 :
       At(tls, n, e).color = IF e + 1 <= Len(script[n]) THEN script[n][e + 1] ELSE ds[n].final

\* Definitions, their timelines and the frames and scripts of both.
Rehearsed(ds, tls, H, at, script) ==
  /\ Matches(ds, tls) /\ Playable(ds) /\ Playable(tls)
  /\ Plan(tls, at)
  /\ ScriptOf(ds, H, script)

\* A stage plays its script.
StagePlays(ds, tls, H, at, script, n, i) ==
  LET u == tls[n].stages[i]
      out == StageScript(ds, H, script, ds[n].stages[i])
  IN /\ out \in Seq(Inks(ds)) /\ Len(out) \in Nat
     /\ u.dur # 0 => Len(out) = u.dur
     /\ u.dur = 0 => Len(out) >= H
     /\ \A p \in 0 .. H - 1 : p + 1 <= Len(out) => out[p + 1] = StageColor(at, u, p)

LEMMA StagesPlay ==
  ASSUME NEW ds, NEW tls, NEW H \in Nat, NEW at, NEW script, Rehearsed(ds, tls, H, at, script),
         NEW n \in DOMAIN ds, NEW i \in 1 .. Len(ds[n].stages),
         \A ref \in Refs(ds[n]) : ScriptRight(ds, tls, H, script, ref)
  PROVE  StagePlays(ds, tls, H, at, script, n, i)
<1> DEFINE s == ds[n].stages[i]
           u == tls[n].stages[i]
           colors == StageColors(H, script, s)
           out == StageScript(ds, H, script, s)
           C == Inks(ds)
<1>1. Playable(ds) /\ Playable(tls) /\ script \in Scripts(ds) /\ DOMAIN tls = DOMAIN ds
  BY DEF Rehearsed, ScriptOf, Matches
<1>2. /\ SameStage(u, s)
      /\ u.dur = IF s.kind = "effect" /\ s.dur = 0 THEN Total(tls[s.ref]) ELSE s.dur
  BY DEF Rehearsed, Matches
<1>3. s.kind \in Kinds /\ s.dur \in Nat /\ (s.kind = "effect" => s.ref \in Refs(ds[n]) /\ s.ref \in DOMAIN ds)
  <2>1. s.dur \in Nat
    BY <1>1, StageKinds DEF Playable, IsStages
  <2>2. s.kind = "effect" => s.ref \in Refs(ds[n])
    <3>1. DOMAIN ds[n].stages = 1 .. Len(ds[n].stages)
      BY <1>1 DEF Playable, IsStages
    <3> QED BY <3>1 DEF Refs
  <2> QED BY <1>1, <2>1, <2>2 DEF Playable
<1>4. /\ colors \in Seq(C)
      /\ s.kind # "effect" => Len(colors) = H
  BY <1>1, StageColorsTyped
<1>5. Len(colors) \in Nat
  <2> HIDE DEF colors, C
  <2> QED BY <1>4
<1>6. /\ out \in Seq(C)
      /\ Len(out) = IF s.dur # 0 THEN s.dur ELSE Len(colors)
      /\ \A k \in 1 .. Len(out) :
           out[k] = IF k <= Len(colors) THEN colors[k]
                    ELSE IF s.kind = "effect" THEN ds[s.ref].final ELSE Black
  BY <1>1, StageScriptMeans
<1>7. Len(out) \in Nat
  <2> HIDE DEF colors, out
  <2> QED BY <1>3, <1>5, <1>6
<1>8. ASSUME s.kind = "effect"
      PROVE  /\ u.ref = s.ref /\ colors = script[s.ref]
             /\ Len(colors) \in Nat
             /\ Total(tls[s.ref]) # 0 => Len(colors) = Total(tls[s.ref])
             /\ Total(tls[s.ref]) = 0 => Len(colors) >= H
             /\ \A e \in 0 .. H - 1 :
                  at[<<s.ref, 1, e>>].color = IF e + 1 <= Len(colors) THEN colors[e + 1] ELSE ds[s.ref].final
  <2>1. u.ref = s.ref
    BY <1>2, <1>8 DEF SameStage
  <2>2. colors = script[s.ref]
    BY <1>8 DEF StageColors
  <2>3. ScriptRight(ds, tls, H, script, s.ref)
    BY <1>3, <1>8
  <2>4. \A e \in 0 .. H - 1 : At(tls, s.ref, e) = at[<<s.ref, 1, e>>]
    BY <1>1, <1>3, <1>8 DEF Rehearsed, Plan
  <2> HIDE DEF colors, s, u
  <2> QED BY <2>1, <2>2, <2>3, <2>4 DEF ScriptRight
<1>9. u.dur # 0 => Len(out) = u.dur
  <2> HIDE DEF colors, s, u, out
  <2> QED BY <1>2, <1>3, <1>4, <1>6, <1>8
<1>10. u.dur = 0 => Len(out) >= H
  <2> HIDE DEF colors, s, u, out
  <2> QED BY <1>2, <1>3, <1>4, <1>6, <1>8
<1>11. ASSUME NEW p \in 0 .. H - 1, p + 1 <= Len(out)
       PROVE  out[p + 1] = StageColor(at, u, p)
  <2>0. p + 1 \in 1 .. Len(out) /\ p + 1 \in 1 .. H /\ p \in Int /\ p + 1 - 1 = p
    BY <1>7, <1>11
  <2>1. out[p + 1] = IF p + 1 <= Len(colors) THEN colors[p + 1]
                     ELSE IF s.kind = "effect" THEN ds[s.ref].final ELSE Black
    <3> HIDE DEF colors, s, out
    <3> QED BY <1>6, <2>0
  <2>2. u.kind = s.kind
    BY <1>2 DEF SameStage
  <2>3. s.kind # "effect" => out[p + 1] = colors[p + 1]
    <3> HIDE DEF colors, s, out
    <3> QED BY <1>4, <2>0, <2>1
  <2>4. CASE s.kind = "color"
    <3>1. u.color = s.color
      BY <1>2, <2>4 DEF SameStage
    <3>2. colors[p + 1] = s.color
      BY <2>0, <2>4 DEF StageColors
    <3> HIDE DEF colors, s, out, u
    <3>3. StageColor(at, u, p) = u.color
      BY <2>2, <2>4 DEF StageColor
    <3> QED BY <2>3, <2>4, <3>1, <3>2, <3>3
  <2>5. CASE s.kind = "breathe"
    <3>1. breatheFrame(u, p) = breatheFrame(s, p)
      BY <1>2, <2>0, <2>5 DEF SameStage
    <3>2. colors = [k \in 1 .. H |-> breatheFrame(s, k - 1)]
      BY <2>5 DEF StageColors
    <3> HIDE DEF colors, s, out, u
    <3>3. StageColor(at, u, p) = breatheFrame(u, p)
      BY <2>2, <2>5 DEF StageColor
    <3>4. colors[p + 1] = breatheFrame(s, p + 1 - 1)
      BY <2>0, <3>2
    <3> QED BY <2>0, <2>3, <2>5, <3>1, <3>3, <3>4
  <2>6. CASE s.kind = "alternate"
    <3>1. alternateFrame(u, p) = alternateFrame(s, p)
      BY <1>2, <2>0, <2>6 DEF SameStage
    <3>2. colors = [k \in 1 .. H |-> alternateFrame(s, k - 1)]
      BY <2>6 DEF StageColors
    <3> HIDE DEF colors, s, out, u
    <3>3. StageColor(at, u, p) = alternateFrame(u, p)
      BY <2>2, <2>6 DEF StageColor
    <3>4. colors[p + 1] = alternateFrame(s, p + 1 - 1)
      BY <2>0, <3>2
    <3> QED BY <2>0, <2>3, <2>6, <3>1, <3>3, <3>4
  <2>7. CASE s.kind = "effect"
    <3> HIDE DEF colors, s, out, u
    <3>1. StageColor(at, u, p) = at[<<u.ref, 1, p>>].color
      BY <2>2, <2>7 DEF StageColor
    <3>2. at[<<s.ref, 1, p>>].color = IF p + 1 <= Len(colors) THEN colors[p + 1] ELSE ds[s.ref].final
      BY <1>8, <2>7
    <3> QED BY <1>8, <2>1, <2>7, <3>1, <3>2
  <2> HIDE DEF colors, s, out, u
  <2> QED BY <1>3, <2>4, <2>5, <2>6, <2>7 DEF Kinds
<1> QED BY <1>6, <1>7, <1>9, <1>10, <1>11 DEF StagePlays

\* The stages' scripts, one after the other, are the effect's.
LEMMA EffectPlays ==
  ASSUME NEW ds, NEW tls, NEW H \in Nat, NEW at, NEW script, Rehearsed(ds, tls, H, at, script),
         NEW w, NEW bound, Weighs(tls, DOMAIN tls, w, bound), NEW n \in DOMAIN ds,
         \A i \in 1 .. Len(ds[n].stages) : StagePlays(ds, tls, H, at, script, n, i)
  PROVE  ScriptRight(ds, tls, H, script, n)
<1> DEFINE L == Len(ds[n].stages)
           C == Inks(ds)
           ends == StageEnds(tls[n].stages)
           dur(i) == tls[n].stages[i].dur
           out(i) == StageScript(ds, H, script, ds[n].stages[i])
<1>1. /\ Playable(ds) /\ Playable(tls) /\ Plan(tls, at) /\ script \in Scripts(ds)
      /\ DOMAIN tls = DOMAIN ds /\ n \in DOMAIN tls
      /\ Len(tls[n].stages) = L /\ tls[n].final = ds[n].final
      /\ script[n] = ScriptStep(ds, H, script, n)
  BY DEF Rehearsed, ScriptOf, Matches
<1>2. IsStages(tls[n].stages) /\ L \in Nat /\ \A i \in 1 .. L : dur(i) \in Nat
  BY <1>1, StageKinds DEF Playable, IsStages
<1>3. /\ ends \in [0 .. L -> Nat] /\ ends[0] = 0
      /\ \A i \in 1 .. L : ends[i] = ends[i - 1] + dur(i)
  BY <1>1, <1>2, EndsAddUp
<1>4. PICK g : /\ g \in [0 .. L -> Seq(C)]
               /\ g[0] = <<>>
               /\ \A i \in 1 .. L : g[i] = g[i - 1] \o out(i)
               /\ ScriptStep(ds, H, script, n) = g[L]
  BY <1>1, ScriptStepMeans
<1>5. ASSUME NEW i \in 1 .. L
      PROVE  /\ out(i) \in Seq(C) /\ Len(out(i)) \in Nat
             /\ dur(i) # 0 => Len(out(i)) = dur(i)
             /\ dur(i) = 0 => Len(out(i)) >= H
             /\ \A p \in 0 .. H - 1 : p + 1 <= Len(out(i)) =>
                  out(i)[p + 1] = StageColor(at, tls[n].stages[i], p)
  BY DEF StagePlays
<1>6. ASSUME NEW e \in Nat, NEW i \in 0 .. L, \A j \in 1 .. i : dur(j) # 0, e >= ends[i]
      PROVE  at[<<n, 1, e>>] = at[<<n, i + 1, e - ends[i]>>]
  BY <1>1, <1>6, AtAlong
<1>7. ASSUME NEW p \in Int, NEW i \in 1 .. L, dur(i) = 0 \/ p < dur(i)
      PROVE  at[<<n, i, p>>].color = StageColor(at, tls[n].stages[i], p)
  <2>1. /\ at[<<n, L + 1, p>>] = [color |-> tls[n].final, done |-> TRUE]
        /\ \A k \in 1 .. L :
             /\ dur(k) = 0 \/ p < dur(k) =>
                  at[<<n, k, p>>] = [color |-> StageColor(at, tls[n].stages[k], p), done |-> FALSE]
             /\ ~(dur(k) = 0 \/ p < dur(k)) => at[<<n, k, p>>] = at[<<n, k + 1, p - dur(k)>>]
    BY <1>1, PlanSteps
  <2>2. at[<<n, i, p>>] = [color |-> StageColor(at, tls[n].stages[i], p), done |-> FALSE]
    <3> HIDE DEF L, dur
    <3> QED BY <1>7, <2>1
  <2> QED BY <2>2
<1> DEFINE Claim(i) ==
             /\ (\A j \in 1 .. i : dur(j) # 0) => Len(g[i]) = ends[i]
             /\ (\E j \in 1 .. i : dur(j) = 0) => Len(g[i]) >= H
             /\ \A e \in 0 .. H - 1 : e + 1 <= Len(g[i]) => g[i][e + 1] = at[<<n, 1, e>>].color
           T == {i \in 0 .. L : Claim(i)}
<1> HIDE DEF L, C, ends, dur, out
<1>8. \A i \in 0 .. L : g[i] \in Seq(C) /\ Len(g[i]) \in Nat
  <2> SUFFICES ASSUME NEW i \in 0 .. L
               PROVE  g[i] \in Seq(C) /\ Len(g[i]) \in Nat
    OBVIOUS
  <2>1. g[i] \in Seq(C)
    BY <1>4
  <2> QED BY <2>1
<1>9. 0 \in T
  <2>1. Len(g[0]) = 0
    BY <1>4
  <2> QED BY <1>2, <1>3, <2>1
<1>10. ASSUME NEW i \in 1 .. L, i - 1 \in T
       PROVE  i \in T
  <2>0. /\ i - 1 \in 0 .. L /\ i \in 0 .. L /\ i - 1 + 1 = i /\ i \in 1 .. i
        /\ \A j \in 1 .. i : j = i \/ j \in 1 .. i - 1
        /\ 1 .. i - 1 \subseteq 1 .. i
    BY <1>2
  <2>1. Claim(i - 1)
    <3> HIDE DEF Claim
    <3> QED BY <1>10
  <2> DEFINE a == g[i - 1]
             b == out(i)
  <2>2. /\ a \in Seq(C) /\ Len(a) \in Nat /\ b \in Seq(C) /\ Len(b) \in Nat
        /\ g[i] = a \o b
    BY <1>4, <1>5, <1>8, <2>0
  <2>3. /\ (\A j \in 1 .. i - 1 : dur(j) # 0) => Len(a) = ends[i - 1]
        /\ (\E j \in 1 .. i - 1 : dur(j) = 0) => Len(a) >= H
        /\ \A e \in 0 .. H - 1 : e + 1 <= Len(a) => a[e + 1] = at[<<n, 1, e>>].color
    BY <2>1
  <2>4. /\ dur(i) # 0 => Len(b) = dur(i)
        /\ dur(i) = 0 => Len(b) >= H
        /\ \A p \in 0 .. H - 1 : p + 1 <= Len(b) => b[p + 1] = StageColor(at, tls[n].stages[i], p)
    BY <1>5
  <2>5. ends[i] = ends[i - 1] + dur(i) /\ ends[i - 1] \in Nat /\ dur(i) \in Nat
    BY <1>2, <1>3, <2>0
  <2> HIDE DEF a, b
  <2>6. /\ Len(a \o b) = Len(a) + Len(b)
        /\ \A k \in 1 .. Len(a) + Len(b) :
             (a \o b)[k] = IF k <= Len(a) THEN a[k] ELSE b[k - Len(a)]
    BY <2>2
  <2> DEFINE c == a \o b
  <2>7. /\ Len(c) = Len(a) + Len(b)
        /\ \A k \in 1 .. Len(a) + Len(b) : c[k] = IF k <= Len(a) THEN a[k] ELSE b[k - Len(a)]
    BY <2>6
  <2>8. g[i] = c
    BY <2>2
  <2> HIDE DEF c
  <2>9. (\A j \in 1 .. i : dur(j) # 0) => Len(c) = ends[i]
    BY <2>0, <2>3, <2>4, <2>5, <2>7
  <2>10. (\E j \in 1 .. i : dur(j) = 0) => Len(c) >= H
    BY <2>0, <2>2, <2>3, <2>4, <2>7
  <2>11. ASSUME NEW e \in 0 .. H - 1, e + 1 <= Len(c)
         PROVE  c[e + 1] = at[<<n, 1, e>>].color
    <3>0. e + 1 \in 1 .. Len(a) + Len(b) /\ e \in Nat
      BY <2>2, <2>7, <2>11
    <3>1. CASE e + 1 <= Len(a)
      BY <2>3, <2>7, <3>0, <3>1
    <3>2. CASE ~(e + 1 <= Len(a))
      <4>1. \A j \in 1 .. i - 1 : dur(j) # 0
        BY <2>2, <2>3, <3>2
      <4>2. Len(a) = ends[i - 1] /\ e >= ends[i - 1]
        BY <2>2, <2>3, <3>2, <4>1
      <4> DEFINE p == e - ends[i - 1]
      <4>3. p \in Nat /\ p \in 0 .. H - 1 /\ p + 1 = e + 1 - Len(a) /\ p + 1 <= Len(b) /\ p \in Int
        <5>1. p \in Nat /\ p + 1 = e + 1 - Len(a) /\ p <= e
          BY <2>2, <2>5, <3>0, <4>2
        <5>2. e + 1 <= Len(a) + Len(b) /\ e <= H - 1
          BY <2>7, <2>11
        <5> HIDE DEF p
        <5> QED BY <2>2, <5>1, <5>2
      <4>4. c[e + 1] = b[e + 1 - Len(a)]
        BY <2>7, <3>0, <3>2
      <4>5. at[<<n, 1, e>>] = at[<<n, i - 1 + 1, p>>]
        BY <1>6, <2>0, <3>0, <4>1, <4>2
      <4> HIDE DEF p
      <4>6. dur(i) = 0 \/ p < dur(i)
        BY <2>4, <2>5, <4>3
      <4>7. at[<<n, i, p>>].color = StageColor(at, tls[n].stages[i], p)
        BY <1>7, <4>3, <4>6
      <4>8. b[p + 1] = StageColor(at, tls[n].stages[i], p)
        BY <2>4, <4>3
      <4> QED BY <2>0, <4>3, <4>4, <4>5, <4>7, <4>8
    <3> QED BY <3>1, <3>2
  <2>12. Claim(i)
    BY <2>8, <2>9, <2>10, <2>11
  <2> HIDE DEF Claim
  <2> QED BY <2>0, <2>12
<1>11. \A i \in 0 .. L : i \in T
  <2> HIDE DEF T
  <2> QED BY <1>2, <1>9, <1>10, EveryRound
<1>12. L \in 0 .. L
  BY <1>2
<1>13. Claim(L)
  <2> HIDE DEF Claim
  <2> QED BY <1>11, <1>12
<1>14. /\ Total(tls[n]) \in Nat
       /\ Total(tls[n]) = 0 <=> \E i \in 1 .. L : dur(i) = 0
       /\ Total(tls[n]) # 0 => Total(tls[n]) = ends[L]
  <2> DEFINE tl == tls[n]
  <2>1. IsStages(tl.stages) /\ Len(tl.stages) # 0
    BY <1>1 DEF Playable
  <2>2. /\ Total(tl) \in Nat
        /\ Total(tl) = 0 <=> \E i \in 1 .. Len(tl.stages) : tl.stages[i].dur = 0
        /\ Total(tl) # 0 => Total(tl) = StageEnds(tl.stages)[Len(tl.stages)]
    BY <2>1, TotalMeans
  <2> QED BY <1>1, <2>2 DEF ends, dur
<1>15. Len(script[n]) \in Nat /\ script[n] = g[L]
  BY <1>1, <1>4, <1>8, <1>12
<1>16. ASSUME NEW e \in 0 .. H - 1
       PROVE  At(tls, n, e).color = IF e + 1 <= Len(script[n]) THEN script[n][e + 1] ELSE ds[n].final
  <2>0. e \in Nat /\ e \in Int
    OBVIOUS
  <2>1. At(tls, n, e) = at[<<n, 1, e>>]
    BY <1>1, <2>0 DEF Plan
  <2>2. CASE e + 1 <= Len(script[n])
    BY <1>13, <1>15, <2>1, <2>2
  <2>3. CASE ~(e + 1 <= Len(script[n]))
    <3>1. Total(tls[n]) # 0 /\ e >= Total(tls[n])
      BY <1>13, <1>14, <1>15, <2>3
    <3>2. /\ At(tls, n, e).done <=> Total(tls[n]) # 0 /\ e >= Total(tls[n])
          /\ At(tls, n, e).done => At(tls, n, e).color = tls[n].final
      BY <1>1, <2>0, Ending
    <3> QED BY <1>1, <2>3, <3>1, <3>2
  <2> QED BY <2>2, <2>3
<1>17. Total(tls[n]) # 0 => Len(script[n]) = Total(tls[n])
  BY <1>13, <1>14, <1>15
<1>18. Total(tls[n]) = 0 => Len(script[n]) >= H
  BY <1>13, <1>14, <1>15
<1> QED BY <1>15, <1>16, <1>17, <1>18 DEF ScriptRight

LEMMA AllScriptsRight ==
  ASSUME NEW ds, NEW tls, NEW H \in Nat, NEW at, NEW script, Rehearsed(ds, tls, H, at, script),
         NEW w, NEW bound, Weighs(ds, DOMAIN ds, w, bound)
  PROVE  \A n \in DOMAIN ds : ScriptRight(ds, tls, H, script, n)
<1> DEFINE D == DOMAIN ds
           T == {n \in D : ScriptRight(ds, tls, H, script, n)}
<1>1. Weighs(tls, DOMAIN tls, w, bound)
  BY MatchesWeigh DEF Rehearsed
<1>2. ASSUME NEW n \in D, NEW ref \in Refs(ds[n])
      PROVE  ref \in D /\ w[ref] < w[n]
  <2>1. /\ ref \in D /\ w[ref] \in Nat /\ w[n] \in Nat
        /\ Len(ds[ref].stages) \in Nat /\ w[ref] + Len(ds[ref].stages) < w[n]
    BY DEF Weighs, Rehearsed, Playable, IsStages
  <2> QED BY <2>1
<1>3. ASSUME NEW n \in D, \A m \in D : w[m] < w[n] => m \in T
      PROVE  n \in T
  <2>1. \A ref \in Refs(ds[n]) : ScriptRight(ds, tls, H, script, ref)
    BY <1>2, <1>3
  <2>2. \A i \in 1 .. Len(ds[n].stages) : StagePlays(ds, tls, H, at, script, n, i)
    BY <2>1, StagesPlay
  <2> QED BY <1>1, <2>2, EffectPlays
<1>4. w \in [D -> Nat]
  BY DEF Weighs
<1>5. D \subseteq T
  <2> HIDE DEF T, D
  <2> QED BY <1>3, <1>4, ByRank
<1> QED BY <1>5

LEMMA CompiledPlaysScripts ==
  ASSUME InvalidIsNoValue, NEW ds, IsConfig(ds), \A n \in DOMAIN ds : Compiled(ds)[n] # Invalid,
         NEW n \in DOMAIN ds, NEW e \in 0 .. Horizon - 1
  PROVE  LET frame == At(Compiled(ds), n, e)
         IN /\ frame.color = Script(ds, n, Horizon)[e + 1]
            /\ frame.done <=> Ends(ds, n) /\ e >= Total(Compiled(ds)[n])
<1> DEFINE tls == Compiled(ds)
<1>0. Horizon \in Nat
  BY HorizonAssumption
<1>1. Matches(ds, tls) /\ Playable(ds) /\ Playable(tls) /\ WellFounded(ds)
  BY CompiledMatches
<1>2. PICK w, bound : Weighs(ds, DOMAIN ds, w, bound)
  BY <1>1, WeightsExist
<1>3. Total(tls[n]) # 0 <=> Ends(ds, n)
  BY <1>1, CompiledTotals
<1> HIDE DEF tls
<1>4. Weighs(tls, DOMAIN tls, w, bound)
  BY <1>1, <1>2, MatchesWeigh
<1>5. PICK at : Plan(tls, at)
  BY <1>1, <1>4, PlanExists
<1>6. PICK script : ScriptOf(ds, Horizon, script)
  BY <1>0, <1>1, <1>2, ScriptsExist
<1>7. ScriptRight(ds, tls, Horizon, script, n)
  <2>1. Rehearsed(ds, tls, Horizon, at, script)
    BY <1>1, <1>5, <1>6 DEF Rehearsed
  <2> QED BY <1>0, <1>2, <2>1, AllScriptsRight
<1>8. At(tls, n, e).color = Script(ds, n, Horizon)[e + 1]
  <2>1. Script(ds, n, Horizon) = padded(script[n], ds[n].final, Horizon)
    BY <1>6 DEF ScriptOf
  <2>2. e + 1 \in 1 .. Horizon
    BY <1>0
  <2>3. padded(script[n], ds[n].final, Horizon)[e + 1]
          = IF e + 1 <= Len(script[n]) THEN script[n][e + 1] ELSE ds[n].final
    BY <2>2 DEF padded
  <2> QED BY <1>7, <2>1, <2>3 DEF ScriptRight
<1>9. At(tls, n, e).done <=> Ends(ds, n) /\ e >= Total(tls[n])
  <2>1. e \in Nat /\ n \in DOMAIN tls
    BY <1>1 DEF Matches
  <2>2. /\ Total(tls[n]) \in Nat
        /\ At(tls, n, e).done <=> Total(tls[n]) # 0 /\ e >= Total(tls[n])
        /\ At(tls, n, e).done => At(tls, n, e).color = tls[n].final
    BY <1>1, <1>4, <2>1, Ending
  <2> QED BY <1>3, <2>2
<1> QED BY <1>8, <1>9 DEF tls

\* Whatever the definitions, each effect that compiles shows the colors of its
\* stages in order and in full, those of nested effects cut off at the stage's
\* duration or held at their final color, and is done when they are: stages
\* and effects hand over at the right tick at every depth
\* (compile.go:29-52, 143-197).
THEOREM TimelinesAlwaysScripts ==
  ASSUME InvalidIsNoValue
  PROVE  IsConfig(defs) /\ EngineSpec => []TimelinesAreScripts
<1>1. IsConfig(defs) /\ InitEngine => IsConfig(defs)
  OBVIOUS
<1>2. IsConfig(defs) /\ [Next]_vars => IsConfig(defs)'
  <2>1. UNCHANGED defs /\ IsConfig(defs) => IsConfig(defs)'
    BY DEF IsConfig
  <2> QED BY <2>1, ConfigStays
<1>3. IsConfig(defs) => TimelinesAreScripts
  <2>1. ASSUME IsConfig(defs), compileEffects(defs) # Invalid
        PROVE  /\ compileEffects(defs) = Compiled(defs)
               /\ \A n \in DOMAIN defs : Compiled(defs)[n] # Invalid
    BY <2>1, CompiledSet
  <2>2. ASSUME IsConfig(defs), compileEffects(defs) # Invalid,
               NEW n \in DOMAIN defs, NEW e \in 0 .. Horizon - 1
        PROVE  /\ At(Compiled(defs), n, e).color = Script(defs, n, Horizon)[e + 1]
               /\ At(Compiled(defs), n, e).done <=> Ends(defs, n) /\ e >= Total(Compiled(defs)[n])
    BY <2>1, <2>2, CompiledPlaysScripts
  <2> QED BY <2>1, <2>2 DEF TimelinesAreScripts
<1> QED BY <1>1, <1>2, <1>3, PTL DEF EngineSpec
------------------------------------------------------------------------------
(***************************************************************************)
(* The engine at work.                                                     *)
(***************************************************************************)
\* No time that was read is in the future.
TimesPast ==
  /\ clock \in Nat
  /\ ticker \in {Never} \cup 0 .. clock
  /\ ticked \in [Targets -> {Never} \cup 0 .. clock]
  /\ handler # None => handler.t \in Targets /\ handler.now \in 0 .. clock

\* What is shown of a run is its last frame, which was due since its last Tick.
RunShown(t) ==
  /\ running[t].start \in 0 .. clock
  /\ running[t] = [tl |-> running[t].tl, start |-> running[t].start, last |-> running[t].last]
  /\ shown[t] = running[t].last
  /\ \E e \in 0 .. clock - running[t].start :
       /\ e >= ticked[t] - running[t].start
       /\ running[t].last = At(lib.effects, running[t].tl, e).color

EngineInv ==
  /\ TimesPast
  /\ DOMAIN shown = Targets /\ DOMAIN running = Targets
  /\ \A t \in Targets : running[t] # None => RunShown(t)

LEMMA InvInitially == InitEngine => EngineInv
BY DEF InitEngine, EngineInv, TimesPast, Never

\* Time going on makes no frame less due.
LEMMA InvAsTimePasses ==
  ASSUME EngineInv, Pass \/ Fire \/ Begin
  PROVE  EngineInv'
<1>1. TimesPast'
  BY DEF EngineInv, TimesPast, Pass, Fire, Begin, Never
<1>2. /\ UNCHANGED <<running, shown, lib, ticked>>
      /\ clock' >= clock /\ clock' \in Nat /\ clock \in Nat
  BY DEF EngineInv, TimesPast, Pass, Fire, Begin, config
<1>3. ASSUME NEW t \in Targets, running'[t] # None
      PROVE  RunShown(t)'
  <2>1. RunShown(t)
    BY <1>2, <1>3 DEF EngineInv
  <2>2. PICK e \in 0 .. clock - running[t].start :
          /\ e >= ticked[t] - running[t].start
          /\ running[t].last = At(lib.effects, running[t].tl, e).color
    BY <2>1 DEF RunShown
  <2>3. e \in 0 .. clock' - running[t].start /\ running[t].start \in 0 .. clock'
    BY <1>2, <2>1 DEF RunShown
  <2> QED BY <1>2, <2>1, <2>2, <2>3 DEF RunShown
<1> QED BY <1>1, <1>2, <1>3 DEF EngineInv

\* What a request does to the run on its key: nothing, an end, or a new run
\* that shows its first frame.
LEMMA RunOutcome ==
  ASSUME EngineInv, Run
  PROVE  /\ handler.t \in Targets
         /\ \A t \in Targets \ {handler.t} : running'[t] = running[t] /\ shown'[t] = shown[t]
         /\ \/ running'[handler.t] = running[handler.t] /\ shown'[handler.t] = shown[handler.t]
            \/ running'[handler.t] = None
            \/ \E tl : LET c == At(lib.effects, tl, 0).color
                       IN /\ running'[handler.t] = [tl |-> tl, start |-> handler.now, last |-> c]
                          /\ shown'[handler.t] = c
         /\ DOMAIN shown' = Targets /\ DOMAIN running' = Targets
<1> DEFINE t == handler.t
<1>1. t \in Targets /\ handler # None
  BY DEF Run, EngineInv, TimesPast
<1>2. ASSUME NEW c, NEW rec, setColor(t, c, rec)
      PROVE  /\ \A x \in Targets \ {t} : running'[x] = running[x] /\ shown'[x] = shown[x]
             /\ running'[t] = None \/ (running'[t] = running[t] /\ shown'[t] = shown[t])
             /\ DOMAIN shown' = Targets /\ DOMAIN running' = Targets
  BY <1>1, <1>2 DEF setColor, Written, EngineInv
<1>3. ASSUME NEW tl, NEW rec, start(t, tl, handler.now, rec)
      PROVE  /\ \A x \in Targets \ {t} : running'[x] = running[x] /\ shown'[x] = shown[x]
             /\ \/ running'[t] = running[t] /\ shown'[t] = shown[t]
                \/ LET c == At(lib.effects, tl, 0).color
                   IN /\ running'[t] = [tl |-> tl, start |-> handler.now, last |-> c]
                      /\ shown'[t] = c
             /\ DOMAIN shown' = Targets /\ DOMAIN running' = Targets
  BY <1>1, <1>3 DEF start, Written, EngineInv
<1>4. \/ \E c, rec : setColor(t, c, rec)
      \/ \E tl, rec : start(t, tl, handler.now, rec)
      \/ UNCHANGED <<running, records, shown>>
  <2> DEFINE b == handler.body
             act == prepare(b)
  <2>1. \/ setColor(t, Black, None)
        \/ ClearIfOwner(t, b.owner)
        \/ setColor(t, act.color, Record(None, handler.now, b.owner))
        \/ start(t, act.ref, handler.now, Record(act.ref, handler.now, b.owner))
    BY DEF Run
  <2>2. ClearIfOwner(t, b.owner) => setColor(t, Black, None) \/ UNCHANGED <<running, records, shown>>
    BY DEF ClearIfOwner
  <2> QED BY <2>1, <2>2
<1>5. CASE \E c, rec : setColor(t, c, rec)
  BY <1>1, <1>2, <1>5
<1>6. CASE \E tl, rec : start(t, tl, handler.now, rec)
  BY <1>1, <1>3, <1>6
<1>7. CASE UNCHANGED <<running, records, shown>>
  BY <1>1, <1>7 DEF EngineInv
<1> QED BY <1>4, <1>5, <1>6, <1>7

LEMMA InvAfterRun ==
  ASSUME EngineInv, Run
  PROVE  EngineInv'
<1>1. /\ handler # None /\ handler.t \in Targets /\ handler.now \in 0 .. clock
      /\ handler' = None /\ UNCHANGED <<clock, ticker, lib>>
      /\ ticked' = [ticked EXCEPT ![handler.t] = IF running'[handler.t] = running[handler.t] THEN @ ELSE Never]
  BY DEF Run, EngineInv, TimesPast, config
<1>2. TimesPast'
  BY <1>1 DEF EngineInv, TimesPast
<1>3. ASSUME NEW t \in Targets, running'[t] # None
      PROVE  RunShown(t)'
  <2>1. CASE running'[t] = running[t] /\ shown'[t] = shown[t]
    <3>1. RunShown(t)
      BY <1>3, <2>1 DEF EngineInv
    <3>2. ticked'[t] = ticked[t]
      BY <1>1, <2>1 DEF EngineInv, TimesPast
    <3> QED BY <1>1, <2>1, <3>1, <3>2 DEF RunShown
  <2>2. CASE t = handler.t /\ running'[t] # running[t]
    <3>1. PICK tl : LET c == At(lib.effects, tl, 0).color
                    IN /\ running'[t] = [tl |-> tl, start |-> handler.now, last |-> c]
                       /\ shown'[t] = c
      BY <1>3, <2>2, RunOutcome
    <3>2. ticked'[t] = -1
      BY <1>1, <2>2 DEF EngineInv, TimesPast, Never
    <3>3. clock \in Nat
      BY DEF EngineInv, TimesPast
    <3>4. 0 \in 0 .. clock - handler.now /\ 0 >= ticked'[t] - handler.now
      BY <1>1, <3>2, <3>3
    <3> QED BY <1>1, <3>1, <3>4 DEF RunShown
  <2>3. CASE t = handler.t /\ running'[t] = running[t]
    <3>1. RunShown(t)
      BY <1>3, <2>3 DEF EngineInv
    <3>2. \/ shown'[t] = shown[t]
          \/ \E tl, c : running'[t] = [tl |-> tl, start |-> handler.now, last |-> c] /\ shown'[t] = c
      BY <1>3, <2>3, RunOutcome
    <3>3. shown'[t] = shown[t]
      <4>1. ASSUME NEW tl, NEW c, running'[t] = [tl |-> tl, start |-> handler.now, last |-> c], shown'[t] = c
            PROVE  shown'[t] = shown[t]
        <5>1. running[t].last = c
          BY <2>3, <4>1
        <5>2. shown[t] = running[t].last
          BY <3>1 DEF RunShown
        <5> QED BY <4>1, <5>1, <5>2
      <4> QED BY <3>2, <4>1
    <3> QED BY <2>1, <2>3, <3>3
  <2>4. t # handler.t => running'[t] = running[t] /\ shown'[t] = shown[t]
    BY RunOutcome
  <2> QED BY <2>1, <2>2, <2>3, <2>4
<1> QED BY <1>2, <1>3, RunOutcome DEF EngineInv

\* A Tick brings every run that goes on to the ticker's time.
LEMMA InvAfterTick ==
  ASSUME EngineInv, Tick
  PROVE  EngineInv'
<1>1. PICK lost \in SUBSET Targets :
        LET frame == [t \in Running |-> At(lib.effects, running[t].tl, Elapsed(ticker, running[t].start))]
            due   == {t \in Running : Due(t, frame[t])}
            wrote == due \ lost
        IN /\ shown' = [t \in Targets |-> IF t \in wrote THEN frame[t].color ELSE shown[t]]
           /\ running' = [t \in Targets |->
                            IF t \in lost \/ (t \in Running /\ frame[t].done) THEN None
                            ELSE IF t \in wrote THEN [running[t] EXCEPT !.last = frame[t].color]
                            ELSE running[t]]
  BY DEF Tick, Running
<1>2. /\ ticker \in 0 .. clock /\ clock \in Nat
      /\ ticker' = Never /\ UNCHANGED <<clock, lib, handler>>
      /\ ticked' = [t \in Targets |-> IF running'[t] # None THEN ticker ELSE Never]
  BY DEF Tick, EngineInv, TimesPast, config
<1>3. TimesPast'
  BY <1>2 DEF EngineInv, TimesPast
<1>4. ASSUME NEW t \in Targets, running'[t] # None
      PROVE  RunShown(t)'
  <2> DEFINE e == Elapsed(ticker, running[t].start)
             f == At(lib.effects, running[t].tl, e)
  <2>1. t \in Running
    BY <1>1, <1>4 DEF Running
  <2>2. RunShown(t)
    BY <2>1 DEF EngineInv, Running
  <2>3. e \in 0 .. clock - running[t].start /\ e >= ticker - running[t].start
    BY <1>2, <2>2 DEF RunShown, Elapsed
  <2>4. ticked'[t] = ticker
    BY <1>2, <1>4
  <2> HIDE DEF e, f
  <2>5. /\ shown'[t] = f.color
        /\ running'[t] = [tl |-> running[t].tl, start |-> running[t].start, last |-> f.color]
    <3>1. CASE Due(t, f)
      <4>1. shown'[t] = f.color /\ running'[t] = [running[t] EXCEPT !.last = f.color]
        BY <1>1, <1>4, <2>1, <3>1 DEF e, f
      <4>2. [running[t] EXCEPT !.last = f.color]
              = [tl |-> running[t].tl, start |-> running[t].start, last |-> f.color]
        BY <2>2 DEF RunShown
      <4> QED BY <4>1, <4>2
    <3>2. CASE ~Due(t, f)
      <4>1. shown'[t] = shown[t] /\ running'[t] = running[t]
        BY <1>1, <1>4, <2>1, <3>2 DEF e, f
      <4>2. f.color = running[t].last
        BY <3>2 DEF Due
      <4> QED BY <2>2, <4>1, <4>2 DEF RunShown
    <3> QED BY <3>1, <3>2
  <2>6. f.color = At(lib.effects, running[t].tl, e).color
    BY DEF f
  <2>7. running'[t].start = running[t].start /\ running'[t].tl = running[t].tl /\ running'[t].last = f.color
    BY <2>5
  <2> QED BY <1>2, <2>2, <2>3, <2>4, <2>5, <2>6, <2>7 DEF RunShown
<1> QED BY <1>1, <1>3, <1>4 DEF EngineInv

\* Every key with an effect shows a frame that was due since its last Tick,
\* whatever the order in which handlers and the ticker read the time and get
\* e.mu (engine.go:128-166), and whatever writes fail.
THEOREM FramesAlwaysDue == EngineSpec => []FramesAreDue
<1>1. EngineInv /\ [Next]_vars => EngineInv'
  <2> SUFFICES ASSUME EngineInv, [Next]_vars PROVE EngineInv'
    OBVIOUS
  <2>1. CASE UNCHANGED vars
    BY <2>1 DEF vars, config, EngineInv, TimesPast, RunShown
  <2> QED BY <2>1, InvAsTimePasses, InvAfterRun, InvAfterTick DEF Next
<1>2. EngineInv => FramesAreDue
  BY DEF EngineInv, FramesAreDue, RunShown, Running
<1> QED BY InvInitially, <1>1, <1>2, PTL DEF EngineSpec

------------------------------------------------------------------------------
(***************************************************************************)
(* What the engine records of a key.                                       *)
(***************************************************************************)
\* None stands for no record and for no run.
NoneIsNoEntry ==
  /\ \A tl, now, owner : Record(tl, now, owner) # None
  /\ \A tl, begun, c : [tl |-> tl, start |-> begun, last |-> c] # None

\* What a request does to the run, the record and the color of its key: it
\* fails and changes nothing, ends the run, or starts one with its record.
LEMMA RequestOutcome ==
  ASSUME EngineInv, DOMAIN records = Targets, Run
  PROVE  LET t == handler.t
             act == prepare(handler.body)
         IN /\ DOMAIN records' = Targets
            /\ \A x \in Targets \ {t} :
                 records'[x] = records[x] /\ running'[x] = running[x] /\ shown'[x] = shown[x]
            /\ \/ records'[t] = records[t] /\ running'[t] = running[t] /\ shown'[t] = shown[t]
               \/ running'[t] = None /\ records'[t] = None
               \/ \E owner : running'[t] = None /\ records'[t] = Record(None, handler.now, owner)
               \/ \E c, owner :
                    /\ act.kind = "effect"
                    /\ running'[t] = [tl |-> act.ref, start |-> handler.now, last |-> c]
                    /\ records'[t] = Record(act.ref, handler.now, owner)
<1> DEFINE t == handler.t
           b == handler.body
           act == prepare(b)
<1>1. t \in Targets
  BY DEF Run, EngineInv, TimesPast
<1>2. ASSUME NEW c, NEW rec, setColor(t, c, rec)
      PROVE  /\ DOMAIN records' = Targets
             /\ \A x \in Targets \ {t} :
                  records'[x] = records[x] /\ running'[x] = running[x] /\ shown'[x] = shown[x]
             /\ \/ records'[t] = records[t] /\ running'[t] = running[t] /\ shown'[t] = shown[t]
                \/ running'[t] = None /\ records'[t] = rec
  BY <1>1, <1>2 DEF setColor, Written, EngineInv
<1>3. \/ setColor(t, Black, None)
      \/ UNCHANGED <<running, records, shown>>
      \/ setColor(t, act.color, Record(None, handler.now, b.owner))
      \/ act.kind = "effect" /\ start(t, act.ref, handler.now, Record(act.ref, handler.now, b.owner))
  BY DEF Run, ClearIfOwner
<1> HIDE DEF act, t, b
<1>4. CASE setColor(t, Black, None)
  BY <1>2, <1>4 DEF act, t, b
<1>5. CASE UNCHANGED <<running, records, shown>>
  BY <1>5 DEF t
<1>6. CASE setColor(t, act.color, Record(None, handler.now, b.owner))
  BY <1>2, <1>6 DEF act, t, b
<1>7. CASE act.kind = "effect" /\ start(t, act.ref, handler.now, Record(act.ref, handler.now, b.owner))
  <2>1. PICK tl, owner, rec : /\ tl = act.ref /\ act.kind = "effect"
                              /\ rec = Record(tl, handler.now, owner)
                              /\ start(t, tl, handler.now, rec)
    BY <1>7
  <2>2. /\ DOMAIN records' = Targets
        /\ \A x \in Targets \ {t} :
             records'[x] = records[x] /\ running'[x] = running[x] /\ shown'[x] = shown[x]
        /\ \/ records'[t] = records[t] /\ running'[t] = running[t] /\ shown'[t] = shown[t]
           \/ \E c : /\ running'[t] = [tl |-> tl, start |-> handler.now, last |-> c]
                     /\ records'[t] = rec
    BY <1>1, <2>1 DEF start, Written, EngineInv
  <2> QED BY <2>1, <2>2, Zenon DEF act, t, b
<1> QED BY <1>3, <1>4, <1>5, <1>6, <1>7

\* What a Tick does to a run, its record and its key's color: nothing or a new
\* frame; an end with its last frame; or, when the write fails, an end that
\* the record of this very run tells of.
LEMMA TickOutcome ==
  ASSUME EngineInv, DOMAIN records = Targets, Tick, NEW t \in Targets
  PROVE  LET e == Elapsed(ticker, running[t].start)
             f == At(lib.effects, running[t].tl, e)
         IN \/ records'[t] = records[t] /\ running'[t] = running[t] /\ shown'[t] = shown[t]
            \/ /\ running[t] # None /\ records'[t] = records[t]
               /\ running'[t] = [running[t] EXCEPT !.last = f.color]
            \/ /\ running[t] # None /\ records'[t] = records[t]
               /\ f.done /\ running'[t] = None /\ shown'[t] = f.color
            \/ /\ running[t] # None /\ running'[t] = None /\ shown'[t] = shown[t]
               /\ records'[t] = Failed(records[t], running[t], ticker)
<1> DEFINE frame == [x \in Running |-> At(lib.effects, running[x].tl, Elapsed(ticker, running[x].start))]
           due   == {x \in Running : Due(x, frame[x])}
<1>1. PICK lost \in SUBSET due :
        /\ shown' = [x \in Targets |-> IF x \in due \ lost THEN frame[x].color ELSE shown[x]]
        /\ running' = [x \in Targets |->
                         IF x \in lost \/ (x \in Running /\ frame[x].done) THEN None
                         ELSE IF x \in due \ lost THEN [running[x] EXCEPT !.last = frame[x].color]
                         ELSE running[x]]
        /\ records' = [x \in Targets |->
                         IF x \in lost THEN Failed(records[x], running[x], ticker)
                         ELSE records[x]]
  BY DEF Tick
<1>2. t \in Running => frame[t] = At(lib.effects, running[t].tl, Elapsed(ticker, running[t].start))
  OBVIOUS
<1>3. t \in Running <=> running[t] # None
  BY DEF Running
<1>4. t \in due => t \in Running
  OBVIOUS
<1>5. t \in Running /\ frame[t].done => t \in due
  BY DEF Due
<1> HIDE DEF frame, due
<1>6. CASE t \in lost
  BY <1>1, <1>3, <1>4, <1>6
<1>7. CASE t \in due \ lost
  BY <1>1, <1>2, <1>3, <1>4, <1>7
<1>8. CASE t \notin due
  BY <1>1, <1>5, <1>8
<1> QED BY <1>6, <1>7, <1>8

\* The record of a key with a run is the run's, whichever of handlers and
\* ticker gets e.mu first.
RecordInv == EngineInv /\ DOMAIN records = Targets /\ RunsAreRecorded

LEMMA RecordStep ==
  ASSUME NoneIsNoEntry, RecordInv, Next
  PROVE  RecordInv'
<1>1. EngineInv'
  BY InvAsTimePasses, InvAfterRun, InvAfterTick DEF Next, RecordInv
<1>2. EngineInv /\ DOMAIN records = Targets /\ RunsAreRecorded
  BY DEF RecordInv
<1>3. CASE Pass \/ Fire \/ Begin
  BY <1>1, <1>2, <1>3 DEF Pass, Fire, Begin, RecordInv, RunsAreRecorded, Running
<1>4. CASE Run
  <2>1. ASSUME NEW t \in Targets, running'[t] # None
        PROVE  records'[t] # None /\ records'[t].tl = running'[t].tl /\ records'[t].at = running'[t].start
    <3>1. CASE records'[t] = records[t] /\ running'[t] = running[t]
      BY <1>2, <2>1, <3>1 DEF RunsAreRecorded, Running
    <3>2. ASSUME NEW c, NEW tl, NEW owner,
                 running'[t] = [tl |-> tl, start |-> handler.now, last |-> c],
                 records'[t] = Record(tl, handler.now, owner)
          PROVE  records'[t] # None /\ records'[t].tl = running'[t].tl /\ records'[t].at = running'[t].start
      <4>1. Record(tl, handler.now, owner) # None
        BY DEF NoneIsNoEntry
      <4> QED BY <3>2, <4>1 DEF Record
    <3>3. \/ records'[t] = records[t] /\ running'[t] = running[t]
          \/ running'[t] = None
          \/ \E c, tl, owner : /\ running'[t] = [tl |-> tl, start |-> handler.now, last |-> c]
                               /\ records'[t] = Record(tl, handler.now, owner)
      <4>1. t = handler.t \/ (records'[t] = records[t] /\ running'[t] = running[t])
        BY <1>2, <1>4, RequestOutcome
      <4>2. CASE t = handler.t
        <5> DEFINE act == prepare(handler.body)
        <5>1. \/ records'[t] = records[t] /\ running'[t] = running[t]
              \/ running'[t] = None
              \/ \E c, owner : /\ running'[t] = [tl |-> act.ref, start |-> handler.now, last |-> c]
                               /\ records'[t] = Record(act.ref, handler.now, owner)
          BY <1>2, <1>4, <4>2, RequestOutcome
        <5> HIDE DEF act
        <5> QED BY <5>1
      <4> QED BY <4>1, <4>2
    <3> QED BY <2>1, <3>1, <3>2, <3>3
  <2> QED BY <1>1, <1>2, <1>4, <2>1, RequestOutcome DEF RecordInv, RunsAreRecorded, Running
<1>5. CASE Tick
  <2>1. ASSUME NEW t \in Targets, running'[t] # None
        PROVE  records'[t] # None /\ records'[t].tl = running'[t].tl /\ records'[t].at = running'[t].start
    <3>1. records'[t] = records[t] /\ running[t] # None
      BY <1>2, <1>5, <2>1, TickOutcome
    <3>2. running'[t].tl = running[t].tl /\ running'[t].start = running[t].start
      <4>1. RunShown(t)
        BY <1>2, <3>1 DEF EngineInv
      <4>2. \/ running'[t] = running[t]
            \/ \E c : running'[t] = [running[t] EXCEPT !.last = c]
        BY <1>2, <1>5, <2>1, TickOutcome
      <4> QED BY <4>1, <4>2 DEF RunShown
    <3> QED BY <1>2, <3>1, <3>2 DEF RunsAreRecorded, Running
  <2>2. DOMAIN records' = Targets
    BY <1>5 DEF Tick
  <2> QED BY <1>1, <2>1, <2>2 DEF RecordInv, RunsAreRecorded, Running
<1> QED BY <1>3, <1>4, <1>5 DEF Next

\* Whatever requests and ticks come and whichever writes fail, an effect that
\* runs on a key is the one of the key's record (engine.go:96-121, 146-183):
\* its status never tells of another.
THEOREM RunsAlwaysRecorded ==
  ASSUME NoneIsNoEntry
  PROVE  EngineSpec => []RunsAreRecorded
<1>1. InitEngine => RecordInv
  BY InvInitially DEF InitEngine, RecordInv, RunsAreRecorded, Running
<1>2. RecordInv /\ [Next]_vars => RecordInv'
  <2>1. RecordInv /\ UNCHANGED vars => RecordInv'
    BY DEF vars, config, RecordInv, RunsAreRecorded, Running, EngineInv, TimesPast, RunShown
  <2> QED BY <2>1, RecordStep
<1>3. RecordInv => RunsAreRecorded
  BY DEF RecordInv
<1> QED BY <1>1, <1>2, <1>3, PTL DEF EngineSpec

(***************************************************************************)
(* What the status says, of a library that Load made.                      *)
(***************************************************************************)
\* The library is what Load made of the configuration.
LibraryServed ==
  /\ Serving
  /\ IsConfig(defs)
  /\ \E templates : lib = Load(defs, templates)
  /\ None \notin DOMAIN defs

\* An effect that is done has had its whole time and shows its final color.
EndsInFull(effects) ==
  \A n \in DOMAIN effects : \A e \in Nat :
    LET frame == At(effects, n, e)
    IN frame.done => Total(effects[n]) \in 1 .. e /\ frame.color = effects[n].final

LEMMA CompiledEndsInFull ==
  ASSUME InvalidIsNoValue, NEW ds, IsConfig(ds), compileEffects(ds) # Invalid
  PROVE  EndsInFull(compileEffects(ds))
<1> DEFINE tls == Compiled(ds)
<1>1. compileEffects(ds) = tls /\ \A n \in DOMAIN ds : tls[n] # Invalid
  BY CompiledSet
<1>2. Matches(ds, tls) /\ Playable(ds) /\ Playable(tls) /\ WellFounded(ds)
  BY <1>1, CompiledMatches
<1>3. PICK w, bound : Weighs(ds, DOMAIN ds, w, bound)
  BY <1>2, WeightsExist
<1> HIDE DEF tls
<1>4. Weighs(tls, DOMAIN tls, w, bound)
  BY <1>2, <1>3, MatchesWeigh
<1>5. ASSUME NEW n \in DOMAIN tls, NEW e \in Nat, At(tls, n, e).done
      PROVE  Total(tls[n]) \in 1 .. e /\ At(tls, n, e).color = tls[n].final
  <2>1. /\ Total(tls[n]) \in Nat
        /\ At(tls, n, e).done <=> Total(tls[n]) # 0 /\ e >= Total(tls[n])
        /\ At(tls, n, e).done => At(tls, n, e).color = tls[n].final
    BY <1>2, <1>4, Ending
  <2> QED BY <1>5, <2>1
<1> QED BY <1>1, <1>5 DEF EndsInFull

LEMMA ServedEndsInFull ==
  ASSUME InvalidIsNoValue, LibraryServed
  PROVE  EndsInFull(lib.effects)
<1>1. PICK templates : lib = Load(defs, templates)
  BY DEF LibraryServed
<1> DEFINE effects == compileEffects(defs)
<1>2. effects # Invalid /\ lib = [effects |-> effects, states |-> templates]
  BY <1>1 DEF Load, LibraryServed, Serving
<1>3. EndsInFull(effects)
  BY <1>2, CompiledEndsInFull DEF LibraryServed
<1> HIDE DEF effects
<1> QED BY <1>2, <1>3

LEMMA LoadedLibrary ==
  ASSUME NEW templates, Serving, lib = Load(defs, templates)
  PROVE  /\ DOMAIN lib.effects = DOMAIN defs
         /\ \A s \in DOMAIN lib.states :
              lib.states[s].kind = "effect" => lib.states[s].ref \in DOMAIN lib.effects
<1> DEFINE effects == compileEffects(defs)
<1>1. /\ effects # Invalid /\ lib = [effects |-> effects, states |-> templates]
      /\ \A s \in DOMAIN templates : resolveState(templates[s], effects) # Invalid
  BY DEF Load, Serving
<1>2. DOMAIN effects = DOMAIN defs
  BY <1>1 DEF compileEffects
<1> HIDE DEF effects
<1>3. lib.effects = effects /\ lib.states = templates
  BY <1>1
<1>4. ASSUME NEW s \in DOMAIN templates, templates[s].kind = "effect"
      PROVE  templates[s].ref \in DOMAIN effects
  BY <1>1, <1>4 DEF resolveState
<1> QED BY <1>2, <1>3, <1>4

\* What the record of a key says is so.
RecordTrue(t) ==
  LET rec == records[t]
      tl == lib.effects[rec.tl]
  IN /\ rec = [tl |-> rec.tl, at |-> rec.at, owner |-> rec.owner, failedAt |-> rec.failedAt]
     /\ rec.at \in 0 .. clock /\ rec.failedAt \in {Never} \cup 0 .. clock
     /\ rec.tl # None /\ running[t] = None /\ rec.failedAt = Never =>
          Total(tl) \in 1 .. clock - rec.at /\ shown[t] = tl.final

\* A request that waits for e.mu asks for what the library has.
Prepared == handler # None => prepare(handler.body) # Invalid

StatusInv ==
  /\ RecordInv /\ LibraryServed
  /\ Prepared
  /\ \A t \in Running : running[t].tl \in DOMAIN lib.effects
  /\ \A t \in Recorded : RecordTrue(t)

\* The effect a request starts is in the library.
LEMMA StartsKnownEffect ==
  ASSUME StatusInv, handler # None, prepare(handler.body).kind = "effect"
  PROVE  prepare(handler.body).ref \in DOMAIN lib.effects
<1>1. \A s \in DOMAIN lib.states :
        lib.states[s].kind = "effect" => lib.states[s].ref \in DOMAIN lib.effects
  BY LoadedLibrary DEF StatusInv, LibraryServed
<1>2. prepare(handler.body) # Invalid
  BY DEF StatusInv, Prepared
<1> QED BY <1>1, <1>2 DEF prepare

LEMMA StatusStep ==
  ASSUME NoneIsNoEntry, InvalidIsNoValue, StatusInv, Next
  PROVE  StatusInv'
<1>1. RecordInv' /\ RecordInv /\ EngineInv
  BY RecordStep DEF StatusInv, RecordInv
<1>2. LibraryServed' /\ lib' = lib
  <2>1. UNCHANGED <<defs, lib>>
    BY DEF Next, Pass, Fire, Begin, Run, Tick, config
  <2> QED BY <2>1 DEF StatusInv, LibraryServed, Serving, IsConfig
<1>3. /\ DOMAIN records = Targets /\ TimesPast /\ clock \in Nat /\ clock' \in Nat /\ clock' >= clock
  BY <1>1 DEF RecordInv, EngineInv, TimesPast, Next, Pass, Fire, Begin, Run, Tick
<1>4. Prepared'
  <2>1. CASE Begin
    <3>1. PICK body \in Requests, t \in Targets :
            /\ prepare(body) # Invalid
            /\ handler' = [body |-> body, t |-> t, now |-> clock]
      BY <2>1 DEF Begin
    <3> QED BY <1>2, <3>1 DEF prepare, Prepared
  <2>2. CASE handler' = handler
    BY <1>2, <2>2 DEF StatusInv, prepare, Prepared
  <2>3. CASE handler' = None
    BY <2>3 DEF Prepared
  <2> QED BY <2>1, <2>2, <2>3 DEF Next, Pass, Fire, Run, Tick
<1>5. ASSUME NEW t \in Targets, records[t] # None => RecordTrue(t),
             records'[t] = records[t], running'[t] = running[t], shown'[t] = shown[t]
      PROVE  records'[t] # None => RecordTrue(t)'
  <2>1. CASE records[t] # None
    <3> DEFINE tl == lib.effects[records[t].tl]
    <3>1. RecordTrue(t)
      BY <1>5, <2>1
    <3>2. records[t].at \in 0 .. clock' /\ records[t].failedAt \in {Never} \cup 0 .. clock'
      BY <1>3, <3>1 DEF RecordTrue
    <3>3. Total(tl) \in 1 .. clock - records[t].at => Total(tl) \in 1 .. clock' - records[t].at
      BY <1>3, <3>2
    <3> QED BY <1>2, <1>5, <3>1, <3>2, <3>3 DEF RecordTrue
  <2> QED BY <1>5, <2>1
<1>6. \A t \in Targets : records[t] # None => RecordTrue(t)
  BY DEF StatusInv, Recorded
<1>7. \A t \in Targets : running[t] # None => running[t].tl \in DOMAIN lib.effects
  BY DEF StatusInv, Running
<1>8. CASE Pass \/ Fire \/ Begin
  <2>1. UNCHANGED <<running, records, shown>>
    BY <1>8 DEF Pass, Fire, Begin
  <2> QED BY <1>1, <1>2, <1>4, <1>5, <1>6, <1>7, <2>1 DEF StatusInv, Running, Recorded
<1>9. CASE Run
  <2> DEFINE act == prepare(handler.body)
  <2>1. handler.t \in Targets /\ handler # None /\ handler.now \in 0 .. clock /\ clock' = clock
    BY <1>3, <1>9 DEF TimesPast, Run
  <2>2. ASSUME NEW t \in Targets
        PROVE  /\ running'[t] # None => running'[t].tl \in DOMAIN lib.effects
               /\ records'[t] # None => RecordTrue(t)'
    <3>1. CASE records'[t] = records[t] /\ running'[t] = running[t] /\ shown'[t] = shown[t]
      BY <1>5, <1>6, <1>7, <3>1
    <3>2. CASE running'[t] = None /\ records'[t] = None
      BY <3>2
    <3>3. ASSUME NEW owner, running'[t] = None, records'[t] = Record(None, handler.now, owner)
          PROVE  RecordTrue(t)'
      BY <2>1, <3>3 DEF Record, RecordTrue
    <3>4. ASSUME NEW tl, NEW c, NEW owner, tl = act.ref, act.kind = "effect",
                 running'[t] = [tl |-> tl, start |-> handler.now, last |-> c],
                 records'[t] = Record(tl, handler.now, owner)
          PROVE  running'[t].tl \in DOMAIN lib.effects /\ RecordTrue(t)'
      <4>1. tl \in DOMAIN lib.effects
        BY <2>1, <3>4, StartsKnownEffect
      <4>2. running'[t] # None
        BY <3>4 DEF NoneIsNoEntry
      <4> QED BY <2>1, <3>4, <4>1, <4>2 DEF Record, RecordTrue
    <3>5. CASE t # handler.t
      BY <1>1, <1>3, <1>9, <3>1, <3>5, RequestOutcome
    <3>6. CASE t = handler.t
      <4>1. \/ records'[t] = records[t] /\ running'[t] = running[t] /\ shown'[t] = shown[t]
            \/ running'[t] = None /\ records'[t] = None
            \/ \E owner : running'[t] = None /\ records'[t] = Record(None, handler.now, owner)
            \/ \E c, owner :
                 /\ act.kind = "effect"
                 /\ running'[t] = [tl |-> act.ref, start |-> handler.now, last |-> c]
                 /\ records'[t] = Record(act.ref, handler.now, owner)
        <5>1. EngineInv /\ DOMAIN records = Targets /\ Run
          BY <1>1, <1>3, <1>9
        <5>2. \/ records'[handler.t] = records[handler.t] /\ running'[handler.t] = running[handler.t]
                 /\ shown'[handler.t] = shown[handler.t]
              \/ running'[handler.t] = None /\ records'[handler.t] = None
              \/ \E owner : running'[handler.t] = None /\ records'[handler.t] = Record(None, handler.now, owner)
              \/ \E c, owner :
                   /\ act.kind = "effect"
                   /\ running'[handler.t] = [tl |-> act.ref, start |-> handler.now, last |-> c]
                   /\ records'[handler.t] = Record(act.ref, handler.now, owner)
          BY <5>1, RequestOutcome, Zenon
        <5> QED BY <3>6, <5>2
      <4> HIDE DEF act
      <4>2. ASSUME act.kind = "effect", NEW c, NEW owner,
                   running'[t] = [tl |-> act.ref, start |-> handler.now, last |-> c],
                   records'[t] = Record(act.ref, handler.now, owner)
            PROVE  running'[t].tl \in DOMAIN lib.effects /\ RecordTrue(t)'
        <5>1. PICK tl : tl = act.ref
          OBVIOUS
        <5> QED BY <3>4, <4>2, <5>1
      <4> QED BY <3>1, <3>2, <3>3, <4>1, <4>2
    <3> QED BY <3>5, <3>6
  <2> QED BY <1>1, <1>2, <1>4, <2>2 DEF StatusInv, Running, Recorded
<1>10. CASE Tick
  <2>1. /\ clock' = clock /\ ticker \in 0 .. clock /\ DOMAIN records' = Targets
        /\ RunsAreRecorded
    BY <1>1, <1>3, <1>10 DEF TimesPast, Tick, RecordInv
  <2>2. ASSUME NEW t \in Targets
        PROVE  /\ running'[t] # None => running'[t].tl \in DOMAIN lib.effects
               /\ records'[t] # None => RecordTrue(t)'
    <3> DEFINE e == Elapsed(ticker, running[t].start)
               f == At(lib.effects, running[t].tl, e)
    <3>1. CASE records'[t] = records[t] /\ running'[t] = running[t] /\ shown'[t] = shown[t]
      BY <1>5, <1>6, <1>7, <3>1
    <3>2. CASE running[t] # None
      <4>1. /\ RunShown(t) /\ running[t].tl \in DOMAIN lib.effects /\ RecordTrue(t)
            /\ records[t] # None /\ records[t].tl = running[t].tl /\ records[t].at = running[t].start
        BY <1>1, <1>6, <1>7, <2>1, <3>2 DEF EngineInv, RunsAreRecorded, Running
      <4>2. running[t].start \in 0 .. clock /\ e \in 0 .. clock - running[t].start
        BY <1>3, <2>1, <4>1 DEF RunShown, Elapsed
      <4> HIDE DEF e, f
      <4>3. ASSUME NEW c, running'[t] = [running[t] EXCEPT !.last = c], records'[t] = records[t]
            PROVE  running'[t].tl \in DOMAIN lib.effects /\ RecordTrue(t)'
        <5>1. running'[t] = [tl |-> running[t].tl, start |-> running[t].start, last |-> c]
          BY <4>1, <4>3 DEF RunShown
        <5>2. running'[t] # None /\ running'[t].tl = running[t].tl
          BY <5>1 DEF NoneIsNoEntry
        <5> QED BY <1>2, <2>1, <4>1, <4>3, <5>2 DEF RecordTrue
      <4>4. ASSUME f.done, running'[t] = None, records'[t] = records[t], shown'[t] = f.color
            PROVE  RecordTrue(t)'
        <5>1. Total(lib.effects[running[t].tl]) \in 1 .. e /\ f.color = lib.effects[running[t].tl].final
          <6>1. EndsInFull(lib.effects) /\ e \in Nat
            BY <1>3, <4>2, ServedEndsInFull DEF StatusInv
          <6> QED BY <4>1, <4>4, <6>1 DEF EndsInFull, f
        <5>2. Total(lib.effects[running[t].tl]) \in 1 .. clock - running[t].start
          BY <1>3, <4>2, <5>1
        <5> QED BY <1>2, <2>1, <4>1, <4>4, <5>1, <5>2 DEF RecordTrue
      <4>5. ASSUME running'[t] = None, records'[t] = Failed(records[t], running[t], ticker)
            PROVE  RecordTrue(t)'
        <5>1. records'[t] = [records[t] EXCEPT !.failedAt = ticker]
          BY <4>1, <4>5 DEF Failed
        <5>2. records'[t] = [tl |-> records[t].tl, at |-> records[t].at,
                             owner |-> records[t].owner, failedAt |-> ticker]
          BY <4>1, <5>1 DEF RecordTrue
        <5>3. ticker # Never
          BY <1>10 DEF Tick
        <5> QED BY <2>1, <4>1, <5>2, <5>3 DEF RecordTrue
      <4>6. \/ records'[t] = records[t] /\ running'[t] = running[t] /\ shown'[t] = shown[t]
            \/ records'[t] = records[t] /\ running'[t] = [running[t] EXCEPT !.last = f.color]
            \/ f.done /\ running'[t] = None /\ records'[t] = records[t] /\ shown'[t] = f.color
            \/ running'[t] = None /\ records'[t] = Failed(records[t], running[t], ticker)
        BY <1>1, <1>3, <1>10, TickOutcome DEF e, f
      <4> QED BY <3>1, <4>3, <4>4, <4>5, <4>6
    <3> QED BY <1>1, <1>3, <1>10, <3>1, <3>2, TickOutcome
  <2> QED BY <1>1, <1>2, <1>4, <2>1, <2>2 DEF StatusInv, Running, Recorded
<1> QED BY <1>8, <1>9, <1>10 DEF Next

\* A key without a run shows what its record says: its color, the final color
\* of an effect that had its time, or a failure; and no status tells of more
\* time than there was since the request (status.go, engine.go:146-183).
THEOREM StatusAlwaysTrue ==
  ASSUME NoneIsNoEntry, InvalidIsNoValue
  PROVE  LibraryServed /\ EngineSpec => []StatusIsTrue
<1>1. LibraryServed /\ InitEngine => StatusInv
  <2> SUFFICES ASSUME LibraryServed, InitEngine PROVE StatusInv
    OBVIOUS
  <2>1. RecordInv
    BY InvInitially DEF InitEngine, RecordInv, RunsAreRecorded, Running
  <2> QED BY <2>1 DEF InitEngine, StatusInv, Prepared, Running, Recorded
<1>2. StatusInv /\ [Next]_vars => StatusInv'
  <2>1. StatusInv /\ UNCHANGED vars => StatusInv'
    <3> SUFFICES ASSUME StatusInv, UNCHANGED vars PROVE StatusInv'
      OBVIOUS
    <3>1. UNCHANGED <<defs, lib, clock, ticker, running, records, shown, handler, ticked>>
      BY DEF vars, config
    <3>2. RecordInv'
      BY <3>1 DEF StatusInv, RecordInv, RunsAreRecorded, Running, EngineInv, TimesPast, RunShown
    <3>3. LibraryServed' /\ Prepared'
      BY <3>1 DEF StatusInv, LibraryServed, Serving, IsConfig, prepare, Prepared
    <3>4. \A t \in Recorded' : RecordTrue(t)'
      BY <3>1 DEF StatusInv, Recorded, RecordTrue
    <3> QED BY <3>1, <3>2, <3>3, <3>4 DEF StatusInv, Running
  <2> QED BY <2>1, StatusStep
<1>3. StatusInv => StatusIsTrue
  <2> SUFFICES ASSUME StatusInv, NEW t \in Recorded
               PROVE  IF records[t].tl = None THEN running[t] = None
                      ELSE LET st == StatusOf(t, clock)
                               tl == lib.effects[records[t].tl]
                           IN /\ st.elapsed \in 0 .. clock - records[t].at
                              /\ ~st.running /\ ~st.failed => st.finite /\ shown[t] = tl.final
    BY DEF StatusIsTrue
  <2>1. RecordTrue(t) /\ clock \in Nat /\ RunsAreRecorded /\ t \in Targets
    BY DEF StatusInv, RecordInv, EngineInv, TimesPast, Recorded
  <2>2. CASE records[t].tl = None
    <3>1. None \notin DOMAIN lib.effects
      BY LoadedLibrary DEF StatusInv, LibraryServed
    <3>2. running[t] # None => records[t].tl \in DOMAIN lib.effects
      BY <2>1 DEF StatusInv, RunsAreRecorded, Running
    <3> QED BY <2>2, <3>1, <3>2
  <2>3. CASE records[t].tl # None
    <3> DEFINE st == StatusOf(t, clock)
               tl == lib.effects[records[t].tl]
               total == Total(tl)
    <3>1. /\ st.running <=> running[t] # None
          /\ st.failed <=> running[t] = None /\ records[t].failedAt # Never
          /\ st.finite <=> total # 0
          /\ st.elapsed = IF running[t] # None THEN Elapsed(clock, records[t].at)
                          ELSE IF records[t].failedAt # Never THEN Elapsed(records[t].failedAt, records[t].at)
                          ELSE total
      BY DEF StatusOf
    <3> HIDE DEF st
    <3>2. ASSUME NEW now \in 0 .. clock
          PROVE  Elapsed(now, records[t].at) \in 0 .. clock - records[t].at
      BY <2>1 DEF Elapsed, RecordTrue
    <3>3. CASE running[t] # None
      BY <2>1, <2>3, <3>1, <3>2, <3>3 DEF st
    <3>4. CASE running[t] = None /\ records[t].failedAt # Never
      BY <2>1, <2>3, <3>1, <3>2, <3>4 DEF st, RecordTrue
    <3>5. CASE running[t] = None /\ records[t].failedAt = Never
      BY <2>1, <2>3, <3>1, <3>5 DEF st, RecordTrue
    <3> QED BY <3>3, <3>4, <3>5
  <2> QED BY <2>2, <2>3
<1> QED BY <1>1, <1>2, <1>3, PTL DEF EngineSpec
==============================================================================

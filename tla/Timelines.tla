------------------------------- MODULE Timelines -------------------------------
(***************************************************************************)
(* Effects as internal/effects compiles and plays them: definitions to     *)
(* timelines (compile.go), template states (load.go), the color at a time  *)
(* (Timeline.At) and the primitives' frames (primitives.go).               *)
(*                                                                         *)
(* A color is <<hue, value>>.  Time is in ticks: a wave has a period and   *)
(* is in its first part for duty of its ticks, 0 <= duty <= period.        *)
(* Timelines refer to nested ones by name: the compiler shares one         *)
(* Timeline between all that refer to it.                                  *)
(***************************************************************************)
EXTENDS Integers, Sequences, SequencesExt, FiniteSets, Functions

CONSTANT Invalid   \* what compiling an invalid definition gives

Black == <<0, 0>>

(***************************************************************************)
(* Stages: no duration is 0.  A malformed one has no or several of color,  *)
(* primitive and effect, or settings or a duration that do not parse.  A   *)
(* final_state that is no color is refused as such a stage is, whether the *)
(* effect ends or not: a definition with one stands as one with the stage. *)
(***************************************************************************)
Solid(color, dur) == [kind |-> "color", dur |-> dur, color |-> color]
Wave(name, color, other, period, duty, dur) ==
  [kind |-> name, dur |-> dur, color |-> color, other |-> other, period |-> period, duty |-> duty]
Blink(color, period, duty, dur)   == Wave("alternate", color, Black, period, duty, dur)
Breathe(color, period, duty, dur) == Wave("breathe", color, Black, period, duty, dur)
Nested(ref, dur) == [kind |-> "effect", dur |-> dur, ref |-> ref]
Malformed == [kind |-> "malformed", dur |-> 0]

\* math.Round of a / b.
Rounded(a, b) == (2 * a + b) \div (2 * b)

phase(s, elapsed) == elapsed % s.period

breatheFrame(s, elapsed) ==
  LET ph == phase(s, elapsed)
  IN <<s.color[1], IF ph < s.duty THEN Rounded(s.color[2] * ph, s.duty)
                   ELSE Rounded(s.color[2] * (s.period - ph), s.period - s.duty)>>

alternateFrame(s, elapsed) == IF phase(s, elapsed) < s.duty THEN s.color ELSE s.other

(***************************************************************************)
(* Timelines: [stages, final].                                             *)
(***************************************************************************)
\* When the first i stages have ended, if none is open-ended.
StageEnds(stages) ==
  LET ends[i \in 0 .. Len(stages)] == IF i = 0 THEN 0 ELSE ends[i - 1] + stages[i].dur
  IN ends

\* The total duration; 0 when the last stage is open-ended.
Total(tl) ==
  IF \E i \in DOMAIN tl.stages : tl.stages[i].dur = 0 THEN 0
  ELSE StageEnds(tl.stages)[Len(tl.stages)]

\* Fault: a stage is asked for the time since the effect began, not its own.
AtUnshifted(lib, name, elapsed) ==
  LET at[x \in (DOMAIN lib) \X (Nat \ {0}) \X Int] ==
        LET tl == lib[x[1]]
        IN IF x[2] > Len(tl.stages) THEN [color |-> tl.final, done |-> TRUE]
           ELSE LET s == tl.stages[x[2]]
                IN IF s.dur = 0 \/ x[3] < s.dur
                   THEN [color |-> CASE s.kind = "color" -> s.color
                                     [] s.kind = "breathe" -> breatheFrame(s, elapsed)
                                     [] s.kind = "alternate" -> alternateFrame(s, elapsed)
                                     [] s.kind = "effect" -> at[<<s.ref, 1, elapsed>>].color,
                         done |-> FALSE]
                   ELSE at[<<x[1], x[2] + 1, x[3] - s.dur>>]
  IN at[<<name, 1, elapsed>>]

\* The color at a time since the start, and whether the effect has ended.
At(lib, name, elapsed) ==
  LET at[x \in (DOMAIN lib) \X (Nat \ {0}) \X Int] ==
        LET tl == lib[x[1]]
        IN IF x[2] > Len(tl.stages) THEN [color |-> tl.final, done |-> TRUE]
           ELSE LET s == tl.stages[x[2]]
                IN IF s.dur = 0 \/ x[3] < s.dur
                   THEN [color |-> CASE s.kind = "color" -> s.color
                                     [] s.kind = "breathe" -> breatheFrame(s, x[3])
                                     [] s.kind = "alternate" -> alternateFrame(s, x[3])
                                     [] s.kind = "effect" -> at[<<s.ref, 1, x[3]>>].color,
                         done |-> FALSE]
                   ELSE at[<<x[1], x[2] + 1, x[3] - s.dur>>]
  IN at[<<name, 1, elapsed>>]

(***************************************************************************)
(* The compiler.  Its memo changes no result: an effect compiles to the    *)
(* same from wherever it is referred to, unless it is part of a cycle.     *)
(***************************************************************************)
\* Fault: an open-ended stage is accepted before the last.
compileStageOpen(sd, last, nested) ==
  LET dur == IF sd.kind = "effect" /\ sd.dur = 0 /\ nested # Invalid THEN Total(nested) ELSE sd.dur
  IN IF sd.kind = "malformed" \/ nested = Invalid THEN Invalid ELSE [sd EXCEPT !.dur = dur]

\* A stage that refers to an effect lasts as long as that does, unless it has
\* a duration; only the last stage may be open-ended.  nested is what the
\* effect compiles to.
compileStage(sd, last, nested) ==
  LET dur == IF sd.kind = "effect" /\ sd.dur = 0 /\ nested # Invalid THEN Total(nested) ELSE sd.dur
  IN IF sd.kind = "malformed" \/ nested = Invalid \/ (dur = 0 /\ ~last) THEN Invalid
     ELSE [sd EXCEPT !.dur = dur]

\* An effect that ends needs a final_state.
finish(def, stages) ==
  LET tl == [stages |-> stages, final |-> def.final]
  IN IF stages = <<>> \/ (\E i \in DOMAIN stages : stages[i] = Invalid) THEN Invalid
     ELSE IF Total(tl) # 0 /\ def.final = Invalid THEN Invalid
     ELSE tl

\* What effect name compiles to; x[2] is the chain of effects that are being
\* compiled, of which only the members matter.
compile(defs, name) ==
  LET comp[x \in (DOMAIN defs) \X SUBSET DOMAIN defs] ==
        IF x[1] \in x[2] THEN Invalid
        ELSE LET def == defs[x[1]]
                 nested(sd) ==
                   IF sd.kind # "effect" THEN sd
                   ELSE IF sd.ref \notin DOMAIN defs THEN Invalid
                   ELSE comp[<<sd.ref, x[2] \cup {x[1]}>>]
             IN finish(def, [i \in DOMAIN def.stages |->
                               compileStage(def.stages[i], i = Len(def.stages),
                                            nested(def.stages[i]))])
  IN comp[<<name, {}>>]

\* One invalid definition fails the whole set.
compileEffects(defs) ==
  LET tls == [n \in DOMAIN defs |-> compile(defs, n)]
  IN IF \E n \in DOMAIN defs : tls[n] = Invalid THEN Invalid ELSE tls

\* A template state is a color or an effect that exists.
resolveState(sd, lib) ==
  CASE sd.kind = "color" -> sd
    [] sd.kind = "effect" -> IF sd.ref \in DOMAIN lib THEN sd ELSE Invalid
    [] OTHER -> Invalid

\* Load: [effects, states], or Invalid.
Load(defs, templates) ==
  LET lib == compileEffects(defs)
  IN IF lib = Invalid \/ (\E s \in DOMAIN templates : resolveState(templates[s], lib) = Invalid)
     THEN Invalid
     ELSE [effects |-> lib, states |-> templates]
------------------------------------------------------------------------------
(***************************************************************************)
(* What a definition means, without a compiler: its colors tick by tick.   *)
(***************************************************************************)
\* The effects a definition refers to.
Refs(def) == {def.stages[i].ref : i \in {k \in DOMAIN def.stages : def.stages[k].kind = "effect"}}

\* Every reference is to a definition, and no set of definitions refers to
\* itself for ever.
WellFounded(defs) ==
  /\ \A n \in DOMAIN defs : Refs(defs[n]) \subseteq DOMAIN defs
  /\ \A S \in (SUBSET DOMAIN defs) \ {{}} : \E n \in S : Refs(defs[n]) \cap S = {}

\* Effects that go on for ever: the last stage of each is open-ended, or
\* plays one of them.
Endless(defs, S) ==
  \A n \in S : LET sd == Last(defs[n].stages)
              IN sd.dur = 0 /\ (sd.kind = "effect" => sd.ref \in S)

Ends(defs, name) == \A S \in SUBSET DOMAIN defs : Endless(defs, S) => name \notin S

WellFormed(defs, name) ==
  LET stages == defs[name].stages
  IN /\ \A i \in DOMAIN stages : stages[i].kind # "malformed"
     /\ \A i \in 1 .. Len(stages) - 1 :
          stages[i].dur # 0 \/ (stages[i].kind = "effect" /\ Ends(defs, stages[i].ref))
     /\ Ends(defs, name) => defs[name].final # Invalid

\* The set of definitions is one to accept.
Sound(defs) ==
  /\ \A n \in DOMAIN defs : defs[n].stages # <<>>
  /\ WellFounded(defs)
  /\ \A n \in DOMAIN defs : WellFormed(defs, n)

\* The colors of the effect's first ticks, up to the horizon: those of its
\* stages one after the other, then the final one.  A stage without an end
\* is written out up to the horizon.
padded(colors, c, n) == [i \in 1 .. n |-> IF i <= Len(colors) THEN colors[i] ELSE c]

\* The colors of a stage; script is the effects' own.
StageColors(horizon, script, s) ==
  CASE s.kind = "color" -> [i \in 1 .. horizon |-> s.color]
    [] s.kind = "breathe" -> [i \in 1 .. horizon |-> breatheFrame(s, i - 1)]
    [] s.kind = "alternate" -> [i \in 1 .. horizon |-> alternateFrame(s, i - 1)]
    [] s.kind = "effect" -> script[s.ref]

StageScript(defs, horizon, script, s) ==
  LET colors == StageColors(horizon, script, s)
  IN padded(colors, IF s.kind = "effect" THEN defs[s.ref].final ELSE Black,
            IF s.dur # 0 THEN s.dur ELSE Len(colors))

Script(defs, name, horizon) ==
  LET script[n \in DOMAIN defs] ==
        LET stages == defs[n].stages
        IN FlattenSeq([i \in DOMAIN stages |-> StageScript(defs, horizon, script, stages[i])])
  IN padded(script[name], defs[name].final, horizon)
==============================================================================

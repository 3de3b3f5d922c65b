---------------------------- MODULE EffectsEngine -----------------------------
(***************************************************************************)
(* The engine that plays effects on keys: internal/effects/engine.go and   *)
(* status.go, as the handlers and the ticker drive it, over the timelines  *)
(* the configuration compiled to.                                          *)
(*                                                                         *)
(* A handler takes the time before it gets e.mu, and the ticker's time     *)
(* waits in its channel: either may be older than the other by then.       *)
(***************************************************************************)
EXTENDS Timelines

CONSTANTS
  Targets,     \* keys
  Requests,    \* bodies of PUT and DELETE requests
  MaxClock,    \* bound: ticks of time
  Horizon,     \* bound: ticks of a timeline that are looked at
  NoTag, None

ASSUME HorizonAssumption == Horizon \in Nat

Never == -1    \* no time: the zero Time

VARIABLES
  defs,     \* the definitions in the configuration
  lib,      \* the Library, or Invalid: nothing is served
  clock,    \* the time
  ticker,   \* the time waiting in the ticker's channel, or Never
  running,  \* Engine.running: [tl, start, last], or None
  records,  \* Engine.records: [tl, at, owner, failedAt], or None
  shown,    \* the last color written to each key
  handler,  \* the request between its reading of the time and e.mu: [body, t, now]
  ticked    \* history: the time of the last Tick of each key's run, or Never

config == <<defs, lib>>
vars == <<config, clock, ticker, running, records, shown, handler, ticked>>

Running  == {t \in Targets : running[t] # None}
Recorded == {t \in Targets : records[t] # None}

Serving == lib # Invalid

InitEngine ==
  /\ clock = 0 /\ ticker = Never
  /\ ticked = [t \in Targets |-> Never]
  /\ running = [t \in Targets |-> None]
  /\ records = [t \in Targets |-> None]
  /\ shown = [t \in Targets |-> Black]
  /\ handler = None

\* Time goes on.  The ticker puts the time in its channel if that is empty.
Pass ==
  /\ Serving /\ clock < MaxClock
  /\ clock' = clock + 1
  /\ UNCHANGED <<config, ticker, running, records, shown, handler, ticked>>

Fire ==
  /\ Serving /\ ticker = Never
  /\ ticker' = clock
  /\ UNCHANGED <<config, clock, running, records, shown, handler, ticked>>

(***************************************************************************)
(* Handlers: prepare, which refuses what the library does not have, then   *)
(* the time, then the engine call.                                         *)
(***************************************************************************)
\* The color or the timeline a body asks for.
prepare(body) ==
  CASE body.kind = "state" -> IF body.ref \in DOMAIN lib.states THEN lib.states[body.ref] ELSE Invalid
    [] body.kind = "effect" -> IF body.ref \in DOMAIN lib.effects THEN body ELSE Invalid
    [] OTHER -> body

Begin ==
  /\ Serving /\ handler = None
  /\ \E body \in Requests, t \in Targets :
       /\ prepare(body) # Invalid
       /\ handler' = [body |-> body, t |-> t, now |-> clock]
  /\ UNCHANGED <<config, clock, ticker, running, records, shown, ticked>>

\* Out.Write went through, or failed: the slot or the key is gone.
Written(t, c) == shown' = [shown EXCEPT ![t] = c]

\* Fault: the effect running on the key goes on.
setColorKeepsRunning(t, c, rec) ==
  \/ /\ Written(t, c)
     /\ records' = [records EXCEPT ![t] = rec]
     /\ UNCHANGED running
  \/ UNCHANGED <<running, records, shown>>

setColor(t, c, rec) ==
  \/ /\ Written(t, c)
     /\ running' = [running EXCEPT ![t] = None]
     /\ records' = [records EXCEPT ![t] = rec]
  \/ UNCHANGED <<running, records, shown>>

start(t, tl, now, rec) ==
  LET c == At(lib.effects, tl, 0).color
  IN \/ /\ Written(t, c)
        /\ running' = [running EXCEPT ![t] = [tl |-> tl, start |-> now, last |-> c]]
        /\ records' = [records EXCEPT ![t] = rec]
     \/ UNCHANGED <<running, records, shown>>

\* A blank by another owner's tag does nothing; one without a record may.
ClearIfOwner(t, owner) ==
  IF records[t] # None /\ records[t].owner # owner
  THEN UNCHANGED <<running, records, shown>>
  ELSE setColor(t, Black, None)

Record(tl, now, owner) == [tl |-> tl, at |-> now, owner |-> owner, failedAt |-> Never]

Run ==
  /\ handler # None
  /\ LET t == handler.t
         b == handler.body
         act == prepare(b)
     IN \/ b.kind = "delete" /\ b.owner = NoTag /\ setColor(t, Black, None)
        \/ b.kind = "delete" /\ b.owner # NoTag /\ ClearIfOwner(t, b.owner)
        \/ act.kind = "color" /\ setColor(t, act.color, Record(None, handler.now, b.owner))
        \/ act.kind = "effect" /\ start(t, act.ref, handler.now, Record(act.ref, handler.now, b.owner))
  /\ ticked' = [ticked EXCEPT ![handler.t] = IF running'[handler.t] = running[handler.t] THEN @ ELSE Never]
  /\ handler' = None
  /\ UNCHANGED <<config, clock, ticker>>

(***************************************************************************)
(* Tick: every running effect is advanced to the ticker's time, while e.mu *)
(* is held.                                                                *)
(***************************************************************************)
\* Fault: the time since the start is not clamped.
ElapsedRaw(now, begun) == now - begun

\* Fault: the clamp's comparison is the wrong way round.
ElapsedSwapped(now, begun) == IF now < begun THEN now - begun ELSE 0

Elapsed(now, begun) == IF now < begun THEN 0 ELSE now - begun

\* A frame that is written: one that differs from the last, or the final one.
Due(t, frame) == frame.done \/ frame.color # running[t].last

\* Fault: the record is not marked.
FailedUnmarked(rec, r, now) == rec

\* The record of a run whose write failed, if it is of this very run.
Failed(rec, r, now) ==
  IF rec # None /\ rec.tl = r.tl /\ rec.at = r.start THEN [rec EXCEPT !.failedAt = now] ELSE rec

Tick ==
  /\ ticker # Never
  /\ LET frame == [t \in Running |-> At(lib.effects, running[t].tl, Elapsed(ticker, running[t].start))]
         due   == {t \in Running : Due(t, frame[t])}
     IN \E lost \in SUBSET due :
          LET wrote == due \ lost
          IN /\ shown' = [t \in Targets |-> IF t \in wrote THEN frame[t].color ELSE shown[t]]
             /\ running' = [t \in Targets |->
                              IF t \in lost \/ (t \in Running /\ frame[t].done) THEN None
                              ELSE IF t \in wrote THEN [running[t] EXCEPT !.last = frame[t].color]
                              ELSE running[t]]
             /\ records' = [t \in Targets |->
                              IF t \in lost THEN Failed(records[t], running[t], ticker)
                              ELSE records[t]]
  /\ ticked' = [t \in Targets |-> IF running'[t] # None THEN ticker ELSE Never]
  /\ ticker' = Never
  /\ UNCHANGED <<config, clock, handler>>

Next == Pass \/ Fire \/ Begin \/ Run \/ Tick

\* The engine from its start on, whatever the configuration.
EngineSpec == InitEngine /\ [][Next]_vars

\* Time passes, the ticker fires and Engine.Run takes its ticks.
Fairness == WF_vars(Pass) /\ WF_vars(Fire) /\ WF_vars(Tick)
------------------------------------------------------------------------------
\* A set of definitions compiles exactly when it makes sense: each refers to
\* known ones and, at no depth, to itself, only a last stage goes on for
\* ever, and one that ends says in what color (compile.go:76-197).
CompilesSoundSets == ~Serving => (compileEffects(defs) # Invalid <=> Sound(defs))

\* A compiled effect plays the colors of its stages in order and in full,
\* nested ones cut off or held at their final color, and is done when they are
\* (compile.go:29-52, 143-197).
TimelinesAreScripts ==
  LET tls == compileEffects(defs)
  IN ~Serving /\ tls # Invalid =>
       \A n \in DOMAIN defs :
         LET script == Script(defs, n, Horizon)
             ends   == Ends(defs, n)
             total  == Total(tls[n])
         IN \A e \in 0 .. Horizon - 1 :
              LET frame == At(tls, n, e)
              IN frame.color = script[e + 1] /\ (frame.done <=> ends /\ e >= total)

\* statusLocked, for a key with a record of an effect.
StatusOf(t, now) ==
  LET rec == records[t]
      total == Total(lib.effects[rec.tl])
  IN [running |-> running[t] # None,
      failed  |-> running[t] = None /\ rec.failedAt # Never,
      finite  |-> total # 0,
      elapsed |-> IF running[t] # None THEN Elapsed(now, rec.at)
                  ELSE IF rec.failedAt # Never THEN Elapsed(rec.failedAt, rec.at)
                  ELSE total]

\* A run is always the one its key's record tells of: whoever reads the status
\* is told of what is on the key.
RunsAreRecorded ==
  \A t \in Running : records[t] # None /\ records[t].tl = running[t].tl /\ records[t].at = running[t].start

\* A key with an effect shows a frame of it, no older than its last Tick and
\* none from before the start or after the present, although handlers and the
\* ticker read the clock before they get the lock, frames that do not change
\* are not written, and another key's write may fail.
FramesAreDue ==
  \A t \in Running :
    \E e \in 0 .. clock - running[t].start :
      /\ e >= ticked[t] - running[t].start
      /\ shown[t] = At(lib.effects, running[t].tl, e).color

\* What the status says of a key without a running effect is what happened: a
\* color is on the key; an effect that neither runs nor failed has had its
\* time and left its final color; and no elapsed time is longer than the time
\* since the request.
StatusIsTrue ==
  \A t \in Recorded :
    IF records[t].tl = None THEN running[t] = None
    ELSE LET st == StatusOf(t, clock)
             tl == lib.effects[records[t].tl]
         IN /\ st.elapsed \in 0 .. clock - records[t].at
            /\ ~st.running /\ ~st.failed => st.finite /\ shown[t] = tl.final

\* An effect with an end does not stay on its key for longer, if time lasts.
FiniteEffectsEnd ==
  \A t \in Targets :
    LET overdue == /\ running[t] # None
                   /\ Total(lib.effects[running[t].tl]) \in 1 .. MaxClock - running[t].start
    IN []<>~overdue
==============================================================================

------------------------- MODULE FrameDeliveryProofs -------------------------
(***************************************************************************)
(* The proofs about FrameDelivery, for any board, queue depth, bounds and  *)
(* kind of device: what the frame buffer holds, and that keys show what    *)
(* FrameDisplay promises.  Neither the queue nor the grouping matters to   *)
(* them: a flush carries no color, so any subset of flushes, in any order, *)
(* delivers only colors the frame buffer holds.                            *)
(***************************************************************************)
EXTENDS FrameDelivery, TLAPS

\* A number kept for a key is that of a write to that key.
Matched ==
  /\ \A l \in LED : /\ cache[l] # 0 => asked[cache[l]] = l
                    /\ pending[l] # 0 => asked[pending[l]] = l
  /\ writer # Idle => asked[writer.ver] = writer.led
  /\ call.op = "send" => \A l \in DOMAIN call.keys : asked[call.keys[l]] = l

\* The writer has the newest write of all and nothing waits beside it; what
\* waits is newer than what is cached, that than what is being sent, that
\* than what is shown.
Ordered ==
  /\ known => pending = Blank
  /\ writer # Idle => /\ pending = Blank
                      /\ writer.ver = Len(asked)
                      /\ newest[writer.led] \in {0, writer.ver}
  /\ slot = "none" => pending = Blank /\ newest = Blank /\ ~known
  /\ poll = "forget" => slot = "none"
  /\ \A l \in LED : /\ cache[l] # 0 => hw[l] <= cache[l]
                    /\ pending[l] # 0 => /\ newest[l] = pending[l]
                                         /\ hw[l] <= pending[l]
                                         /\ cache[l] <= pending[l]
  /\ call.op = "send" =>
       \A l \in DOMAIN call.keys :
         /\ hw[l] <= call.keys[l]
         /\ cache[l] # 0 => call.keys[l] <= cache[l]
         /\ pending[l] # 0 => call.keys[l] <= pending[l]

IInv == TypeOK /\ Matched /\ Ordered /\ NewestIsHeld
------------------------------------------------------------------------------
USE LimitsAreNumbers, BoundsAreNumbers
USE DEF Blank, NoCall, Idle, Unsupported, slotVars, boardVars, pollVars, dispVars, history, NewestIsHeld, Writing

\* What a flush does to the call in progress: none, or colors of the frame
\* buffer.
LEMMA FlushTakesCached ==
  ASSUME dispatchFlush
  PROVE  \/ UNCHANGED call
         \/ \E S \in SUBSET Cached :
              call' = [op |-> "send", via |-> ctrl, by |-> "none", keys |-> [l \in S |-> cache[l]]]
<1> DEFINE leds == {Head(groups)[i].index : i \in DOMAIN Head(groups)}
<1>1. CASE UNCHANGED call
  BY <1>1
<1>2. ASSUME ~ UNCHANGED call
      PROVE  /\ leds \subseteq Cached
             /\ call' = [op |-> "send", via |-> ctrl, by |-> "none", keys |-> [l \in leds |-> cache[l]]]
  BY <1>2, Zenon DEF dispatchFlush
<1> HIDE DEF leds
<1> QED BY <1>1, <1>2, Zenon

\* The states of the slot, the poll loop and the mode keep their types.
LEMMA StatesStep == ASSUME TypeOK, [Next]_vars PROVE StatesTyped'
<1>1. CASE fetchCapabilities
  BY <1>1 DEF TypeOK, StatesTyped, fetchCapabilities, NextGroup, Reply
<1>2. CASE QueryAnswered
  BY <1>2 DEF TypeOK, StatesTyped, QueryAnswered, SetCaps, Reply
<1>3. CASE QueryFails
  BY <1>3 DEF TypeOK, StatesTyped, QueryFails, Reply
<1>4. CASE refresh
  BY <1>4 DEF TypeOK, StatesTyped, refresh
<1>5. CASE ReconcilePresent
  <2>1. slot' = "connected" /\ poll' \in {"sync", "idle"} /\ direct' = direct
    BY <1>5 DEF ReconcilePresent, boardVars
  <2>2. known' \in BOOLEAN
    BY <1>5 DEF TypeOK, StatesTyped, ReconcilePresent
  <2>3. failures' \in {failures, 0}
    BY <1>5 DEF ReconcilePresent
  <2> QED BY <2>1, <2>2, <2>3 DEF TypeOK, StatesTyped
<1>6. CASE ReconcileAbsent
  BY <1>6 DEF TypeOK, StatesTyped, ReconcileAbsent
<1>7. CASE Evict
  <2>1. slot' = "none" /\ poll' = "forget" /\ direct' = direct /\ failures' = 0
    BY <1>7 DEF Evict, boardVars
  <2>2. known' \in BOOLEAN
    BY <1>7 DEF Evict
  <2> QED BY <2>1, <2>2 DEF TypeOK, StatesTyped
<1>8. CASE Forget
  BY <1>8 DEF TypeOK, StatesTyped, Forget
<1>9. CASE EnsureCapabilities
  BY <1>9 DEF TypeOK, StatesTyped, EnsureCapabilities
<1>10. CASE PollRedraws
  BY <1>10 DEF TypeOK, StatesTyped, PollRedraws
<1>11. CASE Unplug
  BY <1>11 DEF TypeOK, StatesTyped, Unplug, GoesDark
<1>12. CASE SoftReset
  BY <1>12 DEF TypeOK, StatesTyped, SoftReset, GoesDark
<1>13. CASE UNCHANGED <<slot, poll, known, direct, failures>>
  BY <1>13 DEF TypeOK, StatesTyped
<1> QED
  BY <1>1, <1>2, <1>3, <1>4, <1>5, <1>6, <1>7, <1>8, <1>9, <1>10, <1>11, <1>12, <1>13
  DEF Next, Writes, Run, CallEnds, PollSteps, BoardSteps, vars,
      WriteBegin, WriteUpdate, WriteEnqueue, PeriodicTick, HandlerAsksCaps, Process, dispatchFlush, SendReaches, SendFails, PlugIn, Cached, NextGroup

\* The frames, on every side, hold numbers of writes that were accepted.
LEMMA FramesStep == ASSUME TypeOK, [Next]_vars PROVE FramesTyped'
<1>1. CASE WriteBegin
  <2>1. PICK l \in LED :
          /\ asked' = Append(asked, l)
          /\ newest' = [newest EXCEPT ![l] = Len(asked) + 1]
          /\ pending' \in {pending, [pending EXCEPT ![l] = Len(asked) + 1]}
    BY <1>1 DEF WriteBegin
  <2>2. UNCHANGED <<cache, hw>>
    BY <1>1 DEF WriteBegin
  <2>3. asked' \in Seq(LED) /\ Len(asked') = Len(asked) + 1 /\ Len(asked) \in Nat
    BY <2>1 DEF TypeOK, FramesTyped
  <2>4. \A f \in [LED -> 0 .. Len(asked)] :
          f \in [LED -> 0 .. Len(asked')] /\ [f EXCEPT ![l] = Len(asked) + 1] \in [LED -> 0 .. Len(asked')]
    BY <2>3
  <2> HIDE DEF Blank
  <2> QED BY <2>1, <2>2, <2>3, <2>4 DEF TypeOK, FramesTyped
<1>2. CASE WriteUpdate
  <2>1. writer.led \in LED /\ writer.ver \in 1 .. Len(asked)
    BY <1>2 DEF WriteUpdate, TypeOK, WorkTyped
  <2>2. cache' = [cache EXCEPT ![writer.led] = writer.ver]
    BY <1>2 DEF WriteUpdate
  <2>3. UNCHANGED <<asked, pending, hw, newest>>
    BY <1>2 DEF WriteUpdate
  <2> QED BY <2>1, <2>2, <2>3 DEF TypeOK, FramesTyped
<1>3. CASE SendReaches
  BY <1>3 DEF TypeOK, FramesTyped, WorkTyped, SendReaches
<1>4. CASE QueryAnswered
  <2>1. UNCHANGED <<asked, hw, newest>>
    BY <1>4 DEF QueryAnswered
  <2>2. CASE UNCHANGED <<cache, pending>>
    BY <2>1, <2>2 DEF TypeOK, FramesTyped
  <2>3. CASE /\ pending' = Blank
             /\ cache' = [l \in LED |-> IF pending[l] # 0 THEN pending[l] ELSE cache[l]]
    BY <2>1, <2>3 DEF TypeOK, FramesTyped
  <2> QED BY <1>4, <2>2, <2>3 DEF QueryAnswered, SetCaps
<1>5. CASE ReconcilePresent
  BY <1>5 DEF TypeOK, FramesTyped, WorkTyped, ReconcilePresent
<1>6. CASE Evict
  BY <1>6 DEF TypeOK, FramesTyped, WorkTyped, Evict
<1>7. CASE Forget
  BY <1>7 DEF TypeOK, FramesTyped, WorkTyped, Forget
<1>8. CASE Unplug
  BY <1>8 DEF TypeOK, FramesTyped, WorkTyped, Unplug, GoesDark
<1>9. CASE SoftReset
  BY <1>9 DEF TypeOK, FramesTyped, WorkTyped, SoftReset, GoesDark
<1>10. CASE UNCHANGED <<asked, pending, cache, hw, newest>>
  BY <1>10 DEF TypeOK, FramesTyped, WorkTyped
<1> QED
  BY <1>1, <1>2, <1>3, <1>4, <1>5, <1>6, <1>7, <1>8, <1>9, <1>10
  DEF Next, Writes, Run, CallEnds, PollSteps, BoardSteps, vars,
      WriteEnqueue, PeriodicTick, HandlerAsksCaps, Process, dispatchFlush, fetchCapabilities, SendFails, QueryFails, refresh, ReconcileAbsent, EnsureCapabilities, PollRedraws, PlugIn, Cached, NextGroup, Reply

\* The write and the HID call in progress keep their types.
LEMMA WorkStep == ASSUME TypeOK, [Next]_vars PROVE WorkTyped'
<1>1. CASE WriteBegin
  <2>1. PICK l \in LED :
          /\ asked' = Append(asked, l)
          /\ writer' \in {Idle, [at |-> "update", led |-> l, ver |-> Len(asked) + 1]}
    BY <1>1 DEF WriteBegin
  <2>2. Len(asked') = Len(asked) + 1 /\ UNCHANGED call
    BY <1>1, <2>1 DEF WriteBegin, TypeOK, FramesTyped
  <2>3. asked \in Seq(LED) /\ Len(asked) \in Nat
    BY DEF TypeOK, FramesTyped
  <2>4. writer' # Idle => writer' \in [at : {"update", "enqueue"}, led : LED, ver : 1 .. Len(asked')]
    BY <2>1, <2>2, <2>3
  <2> QED BY <2>2, <2>3, <2>4 DEF TypeOK, WorkTyped
<1>2. CASE WriteUpdate
  BY <1>2 DEF TypeOK, FramesTyped, WorkTyped, WriteUpdate
<1>3. CASE WriteEnqueue
  BY <1>3 DEF TypeOK, FramesTyped, WorkTyped, WriteEnqueue
<1>4. CASE dispatchFlush
  <2>1. CASE UNCHANGED call
    BY <1>4, <2>1 DEF dispatchFlush, TypeOK, WorkTyped
  <2>2. CASE \E S \in SUBSET Cached :
               call' = [op |-> "send", via |-> ctrl, by |-> "none", keys |-> [l \in S |-> cache[l]]]
    <3>1. PICK S \in SUBSET Cached :
            call' = [op |-> "send", via |-> ctrl, by |-> "none", keys |-> [l \in S |-> cache[l]]]
      BY <2>2
    <3>2. S \subseteq LED /\ \A l \in S : cache[l] \in 1 .. Len(asked)
      BY DEF Cached, TypeOK, FramesTyped
    <3>3. UNCHANGED <<asked, writer>>
      BY <1>4 DEF dispatchFlush
    <3> QED BY <3>1, <3>2, <3>3 DEF TypeOK, WorkTyped
  <2> QED BY <1>4, <2>1, <2>2, FlushTakesCached
<1>5. CASE fetchCapabilities
  BY <1>5 DEF TypeOK, FramesTyped, WorkTyped, fetchCapabilities, NextGroup, Reply
<1>6. CASE SendReaches
  BY <1>6 DEF TypeOK, FramesTyped, WorkTyped, SendReaches
<1>7. CASE SendFails
  BY <1>7 DEF TypeOK, FramesTyped, WorkTyped, SendFails
<1>8. CASE QueryAnswered
  BY <1>8 DEF TypeOK, FramesTyped, WorkTyped, QueryAnswered, SetCaps, Reply
<1>9. CASE QueryFails
  BY <1>9 DEF TypeOK, FramesTyped, WorkTyped, QueryFails, Reply
<1>10. CASE UNCHANGED <<asked, writer, call>>
  BY <1>10 DEF TypeOK, FramesTyped, WorkTyped
<1> QED
  BY <1>1, <1>2, <1>3, <1>4, <1>5, <1>6, <1>7, <1>8, <1>9, <1>10
  DEF Next, Writes, Run, CallEnds, PollSteps, BoardSteps, vars,
      PeriodicTick, HandlerAsksCaps, Process, refresh, ReconcilePresent, ReconcileAbsent, Evict, Forget, EnsureCapabilities, PollRedraws, PlugIn, Unplug, SoftReset, GoesDark

\* Connections are among those made so far.
LEMMA ConnectionsStep == ASSUME TypeOK, [Next]_vars PROVE ConnectionsTyped'
<1>1. CASE dispatchFlush
  BY <1>1 DEF TypeOK, ConnectionsTyped, dispatchFlush, NextGroup, Cached
<1>2. CASE fetchCapabilities
  BY <1>2 DEF TypeOK, ConnectionsTyped, fetchCapabilities, NextGroup, Reply
<1>3. CASE SendReaches
  BY <1>3 DEF TypeOK, ConnectionsTyped, SendReaches
<1>4. CASE SendFails
  BY <1>4 DEF TypeOK, ConnectionsTyped, SendFails
<1>5. CASE QueryAnswered
  BY <1>5 DEF TypeOK, ConnectionsTyped, QueryAnswered, SetCaps, Reply
<1>6. CASE QueryFails
  BY <1>6 DEF TypeOK, ConnectionsTyped, QueryFails, Reply
<1>7. CASE refresh
  <2>1. handle' \in {port, 0} /\ UNCHANGED <<plugs, port, ctrl, call>>
    BY <1>7, Zenon DEF refresh, slotVars, dispVars
  <2> QED BY <2>1 DEF TypeOK, ConnectionsTyped
<1>8. CASE ReconcilePresent
  BY <1>8 DEF TypeOK, ConnectionsTyped, ReconcilePresent
<1>9. CASE ReconcileAbsent
  BY <1>9 DEF TypeOK, ConnectionsTyped, ReconcileAbsent
<1>10. CASE PlugIn
  BY <1>10 DEF TypeOK, ConnectionsTyped, PlugIn
<1>11. CASE Unplug
  BY <1>11 DEF TypeOK, ConnectionsTyped, Unplug, GoesDark
<1>12. CASE UNCHANGED <<plugs, port, handle, ctrl, call>>
  BY <1>12 DEF TypeOK, ConnectionsTyped
<1> QED
  BY <1>1, <1>2, <1>3, <1>4, <1>5, <1>6, <1>7, <1>8, <1>9, <1>10, <1>11, <1>12
  DEF Next, Writes, Run, CallEnds, PollSteps, BoardSteps, vars,
      WriteBegin, WriteUpdate, WriteEnqueue, PeriodicTick, HandlerAsksCaps, Process, Evict, Forget, EnsureCapabilities, PollRedraws, SoftReset, GoesDark

\* What the first step of a Write does, with the sequence of writes spelled
\* out: the earlier ones stay what they are, the new one is to l.
Begun(l) ==
  LET v == Len(asked) + 1
  IN /\ Len(asked) \in Nat /\ Len(asked') = v
     /\ asked'[v] = l /\ \A w \in 1 .. Len(asked) : asked'[w] = asked[w]
     /\ writer = Idle /\ slot # "none"
     /\ newest' = [newest EXCEPT ![l] = v]
     /\ \/ /\ known /\ UNCHANGED pending
           /\ writer' = [at |-> "update", led |-> l, ver |-> v]
        \/ /\ ~known /\ UNCHANGED writer
           /\ pending' = [pending EXCEPT ![l] = v]
     /\ UNCHANGED <<slot, known, cache, call, poll, hw>>

\* The first step of a Write is Begun for some LED.
LEMMA WriteBeginEffect == ASSUME TypeOK, WriteBegin PROVE \E l \in LED : Begun(l)
<1>1. PICK l \in LED :
        /\ asked' = Append(asked, l)
        /\ newest' = [newest EXCEPT ![l] = Len(asked) + 1]
        /\ \/ /\ known /\ UNCHANGED pending
              /\ writer' = [at |-> "update", led |-> l, ver |-> Len(asked) + 1]
           \/ /\ ~known /\ UNCHANGED writer
              /\ pending' = [pending EXCEPT ![l] = Len(asked) + 1]
  BY DEF WriteBegin
<1>2. /\ Len(asked) \in Nat /\ Len(asked') = Len(asked) + 1
      /\ asked'[Len(asked) + 1] = l
      /\ \A w \in 1 .. Len(asked) : asked'[w] = asked[w]
  BY <1>1 DEF TypeOK, FramesTyped
<1>3. /\ writer = Idle /\ slot # "none"
      /\ UNCHANGED <<slot, known, cache, call, poll, hw>>
  BY DEF WriteBegin
<1> QED BY <1>1, <1>2, <1>3 DEF Begun

\* No step shows, caches or sends a key the color of another.
LEMMA MatchedStep == ASSUME IInv, [Next]_vars PROVE Matched'
<1>1. CASE WriteBegin
  <2>1. PICK l \in LED : Begun(l)
    BY <1>1, WriteBeginEffect DEF IInv
  <2>0. /\ \A k \in LED : cache[k] \in 0 .. Len(asked) /\ pending[k] \in 0 .. Len(asked)
        /\ pending \in [LED -> 0 .. Len(asked)]
        /\ \A w \in 1 .. Len(asked) : asked'[w] = asked[w]
        /\ Len(asked) \in Nat /\ asked'[Len(asked) + 1] = l
        /\ cache' = cache /\ pending' \in {pending, [pending EXCEPT ![l] = Len(asked) + 1]}
    BY <2>1 DEF Begun, IInv, TypeOK, FramesTyped
  <2>2. \A k \in LED : cache'[k] # 0 => asked'[cache'[k]] = k
    BY <2>0 DEF IInv, Matched
  <2>3. \A k \in LED : pending'[k] # 0 => asked'[pending'[k]] = k
    <3>1. \A k \in LED : pending[k] # 0 => asked'[pending[k]] = k
      BY <2>0 DEF IInv, Matched
    <3> QED BY <2>0, <3>1
  <2>4. writer' # Idle => asked'[writer'.ver] = writer'.led
    BY <2>1 DEF Begun
  <2>5. call'.op = "send" => \A k \in DOMAIN call'.keys : asked'[call'.keys[k]] = k
    BY <2>1 DEF Begun, IInv, TypeOK, WorkTyped, Matched
  <2> QED BY <2>2, <2>3, <2>4, <2>5 DEF Matched
<1>2. CASE WriteUpdate
  <2>1. /\ writer \in [at : {"update", "enqueue"}, led : LED, ver : 1 .. Len(asked)]
        /\ asked[writer.ver] = writer.led
    BY <1>2 DEF WriteUpdate, IInv, TypeOK, FramesTyped, WorkTyped, Matched
  <2> QED BY <1>2, <2>1 DEF WriteUpdate, IInv, TypeOK, FramesTyped, WorkTyped, Matched
<1>3. CASE WriteEnqueue
  BY <1>3 DEF IInv, TypeOK, FramesTyped, WorkTyped, Matched, WriteEnqueue
<1>4. CASE dispatchFlush
  <2>1. CASE UNCHANGED call
    BY <1>4, <2>1 DEF dispatchFlush, IInv, TypeOK, FramesTyped, WorkTyped, Matched
  <2>2. ASSUME NEW S \in SUBSET Cached,
               call' = [op |-> "send", via |-> ctrl, by |-> "none", keys |-> [l \in S |-> cache[l]]]
        PROVE  Matched'
    <3>1. UNCHANGED <<slotVars, cache, writer, pollVars, boardVars, history>>
      BY <1>4 DEF dispatchFlush
    <3>2. S \subseteq LED /\ \A l \in S : cache[l] # 0
      BY DEF Cached
    <3> QED BY <2>2, <3>1, <3>2 DEF IInv, TypeOK, FramesTyped, WorkTyped, Matched
  <2> QED BY <1>4, <2>1, <2>2, FlushTakesCached
<1>5. CASE fetchCapabilities
  BY <1>5 DEF IInv, TypeOK, FramesTyped, WorkTyped, Matched, fetchCapabilities, NextGroup, Reply
<1>6. CASE SendReaches
  BY <1>6 DEF IInv, TypeOK, FramesTyped, WorkTyped, Matched, SendReaches
<1>7. CASE SendFails
  BY <1>7 DEF IInv, TypeOK, FramesTyped, WorkTyped, Matched, SendFails
<1>8. CASE QueryAnswered
  BY <1>8 DEF IInv, TypeOK, FramesTyped, WorkTyped, Matched, QueryAnswered, SetCaps, Reply
<1>9. CASE QueryFails
  BY <1>9 DEF IInv, TypeOK, FramesTyped, WorkTyped, Matched, QueryFails, Reply
<1>10. CASE ReconcilePresent
  BY <1>10 DEF IInv, TypeOK, FramesTyped, WorkTyped, Matched, ReconcilePresent
<1>11. CASE Evict
  BY <1>11 DEF IInv, TypeOK, FramesTyped, WorkTyped, Matched, Evict
<1>12. CASE Forget
  BY <1>12 DEF IInv, TypeOK, FramesTyped, WorkTyped, Matched, Forget
<1>13. CASE UNCHANGED <<asked, cache, pending, writer, call>>
  BY <1>13 DEF IInv, TypeOK, FramesTyped, WorkTyped, Matched
<1> QED
  BY <1>1, <1>2, <1>3, <1>4, <1>5, <1>6, <1>7, <1>8, <1>9, <1>10, <1>11, <1>12, <1>13
  DEF Next, Writes, Run, CallEnds, PollSteps, BoardSteps, vars,
      PeriodicTick, HandlerAsksCaps, Process, refresh, ReconcileAbsent, EnsureCapabilities, PollRedraws, PlugIn, Unplug, SoftReset, GoesDark

\* No step puts an older write where a newer one was.
LEMMA OrderedStep == ASSUME IInv, [Next]_vars PROVE Ordered'
<1>1. CASE WriteBegin
  <2>1. PICK l \in LED : Begun(l)
    BY <1>1, WriteBeginEffect DEF IInv
  <2> DEFINE v == Len(asked) + 1
  <2>2. /\ v \in Nat \ {0}
        /\ \A k \in LED : hw[k] < v /\ cache[k] < v /\ hw[k] \in Nat /\ cache[k] \in Nat
        /\ call.op = "send" => \A k \in DOMAIN call.keys : call.keys[k] < v /\ call.keys[k] \in Nat
    <3>1. Len(asked) \in Nat
      BY <2>1 DEF Begun
    <3>2. \A k \in LED : hw[k] \in 0 .. Len(asked) /\ cache[k] \in 0 .. Len(asked)
      BY DEF IInv, TypeOK, FramesTyped
    <3>3. call.op = "send" => \A k \in DOMAIN call.keys : call.keys[k] \in 1 .. Len(asked)
      BY DEF IInv, TypeOK, WorkTyped
    <3> QED BY <3>1, <3>2, <3>3
  <2>3. known' => pending' = Blank
    BY <2>1 DEF Begun, IInv, Ordered
  <2>4. writer' # Idle => /\ pending' = Blank /\ writer'.ver = Len(asked')
                          /\ newest'[writer'.led] \in {0, writer'.ver}
    BY <2>1 DEF Begun, IInv, Ordered, TypeOK, FramesTyped
  <2>5. /\ slot' = "none" => pending' = Blank /\ newest' = Blank /\ ~known'
        /\ poll' = "forget" => slot' = "none"
    BY <2>1 DEF Begun, IInv, Ordered
  <2>6. \A k \in LED : pending'[k] # 0 =>
          newest'[k] = pending'[k] /\ hw[k] <= pending'[k] /\ cache[k] <= pending'[k]
    <3>1. CASE pending' = pending /\ known
      BY <2>1, <3>1 DEF Begun, IInv, Ordered
    <3>2. CASE pending' = [pending EXCEPT ![l] = v]
      BY <2>1, <2>2, <3>2 DEF Begun, IInv, Ordered, TypeOK, FramesTyped
    <3> QED BY <2>1, <3>1, <3>2 DEF Begun
  <2>7. call.op = "send" => \A k \in DOMAIN call.keys :
          pending'[k] # 0 => call.keys[k] <= pending'[k]
    <3>1. CASE pending' = pending
      BY <3>1 DEF IInv, Ordered
    <3>2. CASE pending' = [pending EXCEPT ![l] = v]
      <4>1. pending \in [LED -> 0 .. Len(asked)]
        BY DEF IInv, TypeOK, FramesTyped
      <4>2. call.op = "send" => DOMAIN call.keys \subseteq LED
        BY DEF IInv, TypeOK, WorkTyped
      <4>3. call.op = "send" => \A k \in DOMAIN call.keys : pending[k] # 0 => call.keys[k] <= pending[k]
        BY DEF IInv, Ordered
      <4> QED BY <2>2, <3>2, <4>1, <4>2, <4>3
    <3> QED BY <2>1, <3>1, <3>2 DEF Begun
  <2>8. UNCHANGED <<cache, call, hw>>
    BY <2>1 DEF Begun
  <2> HIDE DEF v
  <2> QED BY <2>3, <2>4, <2>5, <2>6, <2>7, <2>8 DEF IInv, Ordered
<1>2. CASE WriteUpdate
  BY <1>2 DEF IInv, TypeOK, FramesTyped, WorkTyped, Matched, Ordered, WriteUpdate
<1>3. CASE WriteEnqueue
  BY <1>3 DEF IInv, TypeOK, FramesTyped, WorkTyped, Matched, Ordered, WriteEnqueue
<1>4. CASE dispatchFlush
  <2>1. CASE UNCHANGED call
    BY <1>4, <2>1 DEF dispatchFlush, IInv, TypeOK, FramesTyped, WorkTyped, Matched, Ordered
  <2>2. ASSUME NEW S \in SUBSET Cached,
               call' = [op |-> "send", via |-> ctrl, by |-> "none", keys |-> [l \in S |-> cache[l]]]
        PROVE  Ordered'
    <3>1. UNCHANGED <<slotVars, cache, writer, pollVars, boardVars, history>>
      BY <1>4 DEF dispatchFlush
    <3>2. S \subseteq LED /\ \A l \in S : cache[l] # 0
      BY DEF Cached
    <3> QED BY <2>2, <3>1, <3>2 DEF IInv, TypeOK, FramesTyped, WorkTyped, Matched, Ordered
  <2> QED BY <1>4, <2>1, <2>2, FlushTakesCached
<1>5. CASE fetchCapabilities
  BY <1>5 DEF IInv, TypeOK, FramesTyped, WorkTyped, Matched, Ordered, fetchCapabilities, NextGroup, Reply
<1>6. CASE SendReaches
  BY <1>6 DEF IInv, TypeOK, FramesTyped, WorkTyped, Matched, Ordered, SendReaches
<1>7. CASE SendFails
  BY <1>7 DEF IInv, TypeOK, FramesTyped, WorkTyped, Matched, Ordered, SendFails
<1>8. CASE QueryAnswered
  <2>1. /\ call'.op = "none" /\ poll' \in {poll, "redraw"}
        /\ UNCHANGED <<slot, asked, newest, writer, hw>>
    BY <1>8 DEF QueryAnswered, SetCaps, Reply
  <2>2. CASE UNCHANGED <<known, pending, cache>>
    BY <2>1, <2>2 DEF IInv, Ordered
  <2>3. CASE slot # "none" /\ SetCaps
    <3>1. pending' = Blank /\ slot # "none"
      BY <2>3 DEF SetCaps
    <3>2. \A l \in LED : cache'[l] # 0 => hw[l] <= cache'[l]
      BY <2>3 DEF SetCaps, IInv, Ordered, TypeOK, FramesTyped
    <3>3. writer' # Idle => writer'.ver = Len(asked') /\ newest'[writer'.led] \in {0, writer'.ver}
      BY <2>1 DEF IInv, Ordered
    <3> QED BY <2>1, <3>1, <3>2, <3>3 DEF IInv, Ordered
  <2> QED BY <1>8, <2>2, <2>3 DEF QueryAnswered
<1>9. CASE QueryFails
  BY <1>9 DEF IInv, TypeOK, FramesTyped, WorkTyped, Matched, Ordered, QueryFails, Reply
<1>10. CASE refresh
  BY <1>10 DEF IInv, TypeOK, FramesTyped, WorkTyped, Matched, Ordered, refresh
<1>11. CASE ReconcilePresent
  BY <1>11 DEF IInv, TypeOK, FramesTyped, WorkTyped, Matched, Ordered, ReconcilePresent
<1>12. CASE ReconcileAbsent
  BY <1>12 DEF IInv, TypeOK, FramesTyped, WorkTyped, Matched, Ordered, ReconcileAbsent
<1>13. CASE Evict
  BY <1>13 DEF IInv, TypeOK, FramesTyped, WorkTyped, Matched, Ordered, Evict
<1>14. CASE Forget
  BY <1>14 DEF IInv, TypeOK, FramesTyped, WorkTyped, Matched, Ordered, Forget
<1>15. CASE EnsureCapabilities
  BY <1>15 DEF IInv, TypeOK, FramesTyped, WorkTyped, Matched, Ordered, EnsureCapabilities
<1>16. CASE PollRedraws
  BY <1>16 DEF IInv, TypeOK, FramesTyped, WorkTyped, Matched, Ordered, PollRedraws
<1>17. CASE Unplug
  BY <1>17 DEF IInv, TypeOK, FramesTyped, WorkTyped, Matched, Ordered, Unplug, GoesDark
<1>18. CASE SoftReset
  BY <1>18 DEF IInv, TypeOK, FramesTyped, WorkTyped, Matched, Ordered, SoftReset, GoesDark
<1>19. CASE UNCHANGED <<asked, newest, cache, pending, known, slot, poll, writer, call, hw>>
  BY <1>19 DEF IInv, TypeOK, FramesTyped, WorkTyped, Matched, Ordered
<1> QED
  BY <1>1, <1>2, <1>3, <1>4, <1>5, <1>6, <1>7, <1>8, <1>9, <1>10, <1>11, <1>12, <1>13, <1>14, <1>15, <1>16, <1>17, <1>18, <1>19
  DEF Next, Writes, Run, CallEnds, PollSteps, BoardSteps, vars,
      PeriodicTick, HandlerAsksCaps, Process, PlugIn

\* No step loses the newest write to a key.
LEMMA HeldStep == ASSUME IInv, [Next]_vars PROVE NewestIsHeld'
<1>1. CASE WriteBegin
  <2>1. PICK l \in LED : Begun(l)
    BY <1>1, WriteBeginEffect DEF IInv
  <2> QED BY <2>1 DEF Begun, IInv, TypeOK, FramesTyped, WorkTyped, Ordered
<1>2. CASE WriteUpdate
  BY <1>2 DEF IInv, TypeOK, FramesTyped, WorkTyped, Ordered, WriteUpdate
<1>3. CASE WriteEnqueue
  BY <1>3 DEF IInv, TypeOK, FramesTyped, WorkTyped, Ordered, WriteEnqueue
<1>4. CASE QueryAnswered
  BY <1>4 DEF IInv, TypeOK, FramesTyped, WorkTyped, Ordered, QueryAnswered, SetCaps, Reply
<1>5. CASE ReconcilePresent
  BY <1>5 DEF IInv, TypeOK, FramesTyped, WorkTyped, Ordered, ReconcilePresent
<1>6. CASE Evict
  BY <1>6 DEF IInv, TypeOK, FramesTyped, WorkTyped, Ordered, Evict
<1>7. CASE Forget
  BY <1>7 DEF IInv, TypeOK, FramesTyped, WorkTyped, Ordered, Forget
<1>8. CASE UNCHANGED <<newest, cache, pending, writer>>
  BY <1>8 DEF IInv, TypeOK, FramesTyped, WorkTyped, Ordered
<1> QED
  BY <1>1, <1>2, <1>3, <1>4, <1>5, <1>6, <1>7, <1>8
  DEF Next, Writes, Run, CallEnds, PollSteps, BoardSteps, vars,
      PeriodicTick, HandlerAsksCaps, Process, dispatchFlush, fetchCapabilities, SendReaches, SendFails, QueryFails, refresh, ReconcileAbsent, EnsureCapabilities, PollRedraws, PlugIn, Unplug, SoftReset, Cached, GoesDark, NextGroup, Reply
------------------------------------------------------------------------------
\* The initial states satisfy IInv.
LEMMA InitIInv == ASSUME Init PROVE IInv
<1>1. asked = <<>> /\ Len(asked) = 0 /\ asked \in Seq(LED)
  BY DEF Init
<1>2. StatesTyped /\ WorkTyped /\ ConnectionsTyped
  <2>1. slot \in {"none", "untethered"} /\ poll = "idle" /\ failures = 0
    BY DEF Init
  <2>2. known \in BOOLEAN /\ direct \in BOOLEAN
    BY DEF Init
  <2>3. WorkTyped /\ ConnectionsTyped
    BY DEF Init, WorkTyped, ConnectionsTyped
  <2> QED BY <2>1, <2>2, <2>3 DEF StatesTyped
<1>3. FramesTyped
  BY <1>1 DEF Init, FramesTyped
<1>4. Matched /\ Ordered /\ NewestIsHeld
  BY DEF Init, Matched, Ordered
<1> QED BY <1>2, <1>3, <1>4 DEF IInv, TypeOK

\* IInv holds in every state.
THEOREM DeliveryInvariant == Spec => []IInv
<1>1. IInv /\ [Next]_vars => IInv'
  <2> SUFFICES ASSUME IInv, [Next]_vars PROVE IInv'
    OBVIOUS
  <2>1. TypeOK'
    BY StatesStep, FramesStep, WorkStep, ConnectionsStep DEF IInv, TypeOK
  <2> QED BY <2>1, MatchedStep, OrderedStep, HeldStep DEF IInv
<1> QED BY InitIInv, <1>1, PTL DEF Spec

\* Every variable keeps its type: what is cached, waits, is being sent or is
\* shown are numbers of accepted writes.
THEOREM DeliveryTypeCorrect == Spec => []TypeOK
BY DeliveryInvariant, PTL DEF IInv

\* No accepted write is lost before the frame buffer (CapsOrPend and SetCaps,
\* registry.go:175-234): the newest to each key is cached, waits for the
\* capabilities, or is in its writer's hand.
THEOREM NewestAlwaysHeld == Spec => []NewestIsHeld
BY DeliveryInvariant, PTL DEF IInv

\* A report that reaches the board shows keys colors asked for them, none
\* older than what they show.
LEMMA SendShows == ASSUME IInv, SendReaches PROVE [Display!Show]_<<asked, hw>>
<1>1. call.op = "send" /\ asked' = asked
  BY DEF SendReaches, history
<1>2. CASE hw' = hw
  BY <1>1, <1>2
<1>3. CASE hw' = [l \in LED |-> IF l \in DOMAIN call.keys THEN call.keys[l] ELSE hw[l]]
  <2>1. /\ hw \in [LED -> 0 .. Len(asked)]
        /\ \A l \in DOMAIN call.keys : /\ call.keys[l] \in 1 .. Len(asked)
                                       /\ hw[l] <= call.keys[l]
                                       /\ asked[call.keys[l]] = l
    BY <1>1 DEF IInv, TypeOK, FramesTyped, WorkTyped, Matched, Ordered
  <2>2. Len(asked) \in Nat
    BY DEF IInv, TypeOK, FramesTyped
  <2> QED BY <1>1, <1>3, <2>1, <2>2 DEF Display!Show
<1> QED BY <1>2, <1>3 DEF SendReaches

\* The dispatcher, the registry, the poll loop and a board that comes, goes
\* and resets show what FrameDisplay promises.
THEOREM DeliveryImplementsDisplay == Spec => ImplementsDisplay
<1>1. Init => Display!Init
  BY DEF Init, Display!Init
<1>2. IInv /\ [Next]_vars => [Display!Next]_<<asked, hw>>
  <2> SUFFICES ASSUME IInv, [Next]_vars PROVE [Display!Next]_<<asked, hw>>
    OBVIOUS
  <2>1. CASE WriteBegin
    BY <2>1 DEF WriteBegin, Display!Next, Display!Ask
  <2>2. CASE SendReaches
    BY <2>2, SendShows DEF Display!Next
  <2>3. CASE Unplug \/ SoftReset
    BY <2>3 DEF Unplug, SoftReset, GoesDark, Display!Next, Display!Dark
  <2>4. CASE UNCHANGED <<asked, hw>>
    BY <2>4
  <2> QED
    BY <2>1, <2>2, <2>3, <2>4
    DEF Next, Writes, Run, CallEnds, PollSteps, BoardSteps, vars,
        WriteUpdate, WriteEnqueue, PeriodicTick, HandlerAsksCaps, Process,
        dispatchFlush, fetchCapabilities, SendFails, QueryAnswered, QueryFails,
        refresh, ReconcilePresent, ReconcileAbsent, Evict, Forget,
        EnsureCapabilities, PollRedraws, PlugIn
<1> QED BY <1>1, <1>2, DeliveryInvariant, PTL DEF Spec, ImplementsDisplay, Display!Spec
==============================================================================

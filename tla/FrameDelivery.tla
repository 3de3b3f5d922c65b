---------------------------- MODULE FrameDelivery -----------------------------
(***************************************************************************)
(* How a color reaches one keyboard: Dispatcher.Write, the frame buffer    *)
(* (cache.go), the bounded job queue and the goroutine that drains it, the *)
(* periodic redraw, and the poll loop of cmd/blinkenkeysd that opens and   *)
(* closes the device, reconciles its registry slot and asks for its        *)
(* capabilities.  The board is part of the model: it may lose a report,    *)
(* be unplugged, or reset by itself.                                       *)
(*                                                                         *)
(* A color is the number of the write that asked for it.  Writes come one  *)
(* at a time (the engine calls Dispatcher.Write with e.mu held) and name   *)
(* LEDs of the board: addresses were resolved before (see KeyClaims).      *)
(***************************************************************************)
EXTENDS Batching, FiniteSets

CONSTANTS
  LED,              \* the board's LEDs, numbers
  Dev,              \* the device's name
  QueueDepth,       \* dispatcherQueueDepth, 64 in the code
  MaxCapsFailures,  \* maxCapsFailures, 3 in the code
  Declared,         \* the configuration declares the device optional
  Flaky,            \* enumeration and SetDirectMode may fail
  MayReset,         \* the firmware may reset without leaving the bus
  MaxWrites,        \* bound: writes in a behavior
  MaxPlugs          \* bound: times the board is plugged in

ASSUME LedsAreNumbers == LED \subseteq Nat
ASSUME LimitsAreNumbers == QueueDepth \in Nat \ {0} /\ MaxCapsFailures \in Nat \ {0}
ASSUME BoundsAreNumbers == MaxWrites \in Nat /\ MaxPlugs \in Nat

VARIABLES
  slot,      \* the registry slot: "none", "connected" or "untethered"
  known,     \* slot.caps # nil
  failures,  \* slot.capsFailures
  pending,   \* slot.pending: the write waiting for each LED, 0 for none
  ctrl,      \* slot.ctrl: a connection, 0 for none
  cache,     \* Cache: the write each LED shall show, 0 for no entry
  queue,     \* Dispatcher.queue
  writer,    \* the Write between its locked steps: [at, led, ver]
  groups,    \* the groups of the drained batch still to be dispatched
  call,      \* the dispatcher's HID call in progress: [op, via, keys, by]
  poll,      \* where the poll loop is
  handle,    \* deviceState.openByPath: the open connection, 0 for none
  port,      \* the board's present connection, 0 while it is unplugged
  plugs,     \* connections made so far
  direct,    \* the board is in Direct mode
  hw,        \* the write each LED of the board shows, 0 for dark
  asked,     \* history: the LED of each write accepted
  newest     \* history: the newest write to each LED since the slot was made

slotVars  == <<slot, known, failures, pending, ctrl>>
boardVars == <<port, plugs, direct, hw>>
pollVars  == <<poll, handle>>
dispVars  == <<groups, call>>
history   == <<asked, newest>>
vars == <<slotVars, cache, queue, writer, dispVars, pollVars, boardVars, history>>

Blank  == [l \in LED |-> 0]
NoCall == [op |-> "none", via |-> 0, keys |-> <<>>, by |-> "none"]
Idle   == [at |-> "idle", led |-> 0, ver |-> 0]

Unsupported == failures >= MaxCapsFailures

Cached == {l \in LED : cache[l] # 0}

\* The queue after jobs js are offered one by one: those that find it full
\* are dropped.
Enqueued(js) ==
  LET all == queue \o js
  IN IF Len(all) <= QueueDepth THEN all ELSE SubSeq(all, 1, QueueDepth)
tryEnqueue(j) == queue' = Enqueued(<<j>>)

Init ==
  /\ slot = (IF Declared THEN "untethered" ELSE "none")
  /\ known = FALSE /\ failures = 0 /\ pending = Blank /\ ctrl = 0
  /\ cache = Blank /\ queue = <<>> /\ writer = Idle
  /\ groups = <<>> /\ call = NoCall
  /\ poll = "idle" /\ handle = 0
  /\ port = 0 /\ plugs = 0 /\ direct = FALSE /\ hw = Blank
  /\ asked = <<>> /\ newest = Blank

(***************************************************************************)
(* Dispatcher.Write: CapsOrPend under r.mu, then the frame buffer, then    *)
(* the flush.  Its caller writes only to targets that were resolved, so    *)
(* the capabilities were known once; they are unknown again on a slot that *)
(* was evicted and added anew.                                             *)
(***************************************************************************)
WriteBegin ==
  /\ writer = Idle /\ slot # "none"
  /\ known \/ asked # <<>>
  /\ Len(asked) < MaxWrites
  /\ \E l \in LED :
       LET v == Len(asked) + 1
       IN /\ asked' = Append(asked, l)
          /\ newest' = [newest EXCEPT ![l] = v]
          /\ \/ /\ known
                /\ writer' = [at |-> "update", led |-> l, ver |-> v]
                /\ UNCHANGED pending
             \/ /\ ~known
                /\ pending' = [pending EXCEPT ![l] = v]
                /\ UNCHANGED writer
  /\ UNCHANGED <<slot, known, failures, ctrl, cache, queue, dispVars, pollVars, boardVars>>

WriteUpdate ==
  /\ writer.at = "update"
  /\ cache' = [cache EXCEPT ![writer.led] = writer.ver]
  /\ writer' = [at |-> "enqueue", led |-> writer.led, ver |-> writer.ver]
  /\ UNCHANGED <<slotVars, queue, dispVars, pollVars, boardVars, history>>

WriteEnqueue ==
  /\ writer.at = "enqueue"
  /\ tryEnqueue(Flush(Dev, writer.led))
  /\ writer' = Idle
  /\ UNCHANGED <<slotVars, cache, dispVars, pollVars, boardVars, history>>

\* RunPeriodicRedraw's ticker: Summaries leaves unsupported devices out.
\* Bound: a second redraw behind a waiting one is left out, as dedupeFlushes
\* would drop every flush of it.
PeriodicTick ==
  /\ slot = "connected" /\ ~Unsupported
  /\ ~Contains(queue, Redraw(Dev))
  /\ tryEnqueue(Redraw(Dev))
  /\ UNCHANGED <<slotVars, cache, writer, dispVars, pollVars, boardVars, history>>

\* A handler's GetCapabilities of a slot without capabilities; the handler may
\* stop waiting, the job stays.  Bound: one such job waits at a time.
HandlerAsksCaps ==
  /\ slot # "none" /\ ~Unsupported /\ ~known
  /\ ~Contains(queue, Request("handler", Dev))
  /\ tryEnqueue(Request("handler", Dev))
  /\ UNCHANGED <<slotVars, cache, writer, dispVars, pollVars, boardVars, history>>

(***************************************************************************)
(* The dispatcher goroutine.  Draining the queue and the three passes over *)
(* the batch are one step: the goroutine alone takes jobs out, so a job    *)
(* that arrives meanwhile is as good as there before or after, and of the  *)
(* shared state only expandRedraws' snapshot is read.                      *)
(***************************************************************************)
Process ==
  /\ groups = <<>> /\ call = NoCall /\ queue # <<>>
  /\ groups' = groupForSend(dedupeFlushes(expandRedraws(queue, [d \in {Dev} |-> Cached])))
  /\ queue' = <<>>
  /\ UNCHANGED <<slotVars, cache, writer, call, pollVars, boardVars, history>>

NextGroup(kinds) ==
  /\ call = NoCall /\ groups # <<>>
  /\ Head(groups)[1].kind \in kinds
  /\ groups' = Tail(groups)

\* Fault: the missing frame buffer entry is not noticed.
dispatchFlushBlindly ==
  /\ NextGroup({"flush"})
  /\ LET leds == {Head(groups)[i].index : i \in DOMAIN Head(groups)}
     IN IF slot = "connected"
        THEN call' = [op |-> "send", via |-> ctrl, by |-> "none",
                      keys |-> [l \in leds |-> cache[l]]]
        ELSE UNCHANGED call
  /\ UNCHANGED <<slotVars, cache, queue, writer, pollVars, boardVars, history>>

\* Fault: the first key's color is sent for the whole group.
dispatchFlushOneColor ==
  /\ NextGroup({"flush"})
  /\ LET leds == {Head(groups)[i].index : i \in DOMAIN Head(groups)}
     IN IF slot = "connected" /\ leds \subseteq Cached
        THEN call' = [op |-> "send", via |-> ctrl, by |-> "none",
                      keys |-> [l \in leds |-> cache[Head(groups)[1].index]]]
        ELSE UNCHANGED call
  /\ UNCHANGED <<slotVars, cache, queue, writer, pollVars, boardVars, history>>

\* The colors are read here, not when the flush was queued; a group with an
\* LED that is in the frame buffer no more is dropped whole.
dispatchFlush ==
  /\ NextGroup({"flush"})
  /\ LET leds == {Head(groups)[i].index : i \in DOMAIN Head(groups)}
     IN IF slot = "connected" /\ leds \subseteq Cached
        THEN call' = [op |-> "send", via |-> ctrl, by |-> "none",
                      keys |-> [l \in leds |-> cache[l]]]
        ELSE UNCHANGED call
  /\ UNCHANGED <<slotVars, cache, queue, writer, pollVars, boardVars, history>>

\* A report gets through on the open connection the board is on.
Reaches == call.via = port /\ call.via = handle

SendReaches ==
  /\ call.op = "send" /\ Reaches
  /\ hw' = IF direct THEN [l \in LED |-> IF l \in DOMAIN call.keys THEN call.keys[l] ELSE hw[l]]
           ELSE hw
  /\ call' = NoCall
  /\ UNCHANGED <<slotVars, cache, queue, writer, groups, pollVars, port, plugs, direct, history>>

SendFails ==
  /\ call.op = "send"
  /\ call' = NoCall
  /\ UNCHANGED <<slotVars, cache, queue, writer, groups, pollVars, boardVars, history>>

\* The reply to a capabilities job; only the poll loop waits for it.
Reply(by, next) == poll' = IF by = "poll" THEN next ELSE poll

\* fetchCapabilities up to its query of the device.
fetchCapabilities ==
  /\ NextGroup({"poll", "handler"})
  /\ LET by == Head(groups)[1].kind
     IN \/ known /\ Reply(by, "redraw") /\ UNCHANGED call
        \/ ~known /\ slot # "connected" /\ Reply(by, "idle") /\ UNCHANGED call
        \/ /\ ~known /\ slot = "connected"
           /\ call' = [op |-> "query", via |-> ctrl, keys |-> <<>>, by |-> by]
           /\ UNCHANGED poll
  /\ UNCHANGED <<slotVars, cache, queue, writer, handle, boardVars, history>>

\* SetCaps: with r.mu held the pending writes go to the frame buffer and a
\* flush of each is offered to the queue, in the order they came (any order
\* here).
SetCaps ==
  LET waiting == {l \in LED : pending[l] # 0}
  IN /\ known' = TRUE
     /\ pending' = Blank
     /\ cache' = [l \in LED |-> IF l \in waiting THEN pending[l] ELSE cache[l]]
     /\ \E order \in SetToSeqs(waiting) :
          queue' = Enqueued([i \in DOMAIN order |-> Flush(Dev, order[i])])
     /\ UNCHANGED <<slot, failures, ctrl>>

QueryAnswered ==
  /\ call.op = "query" /\ Reaches
  /\ call' = NoCall
  /\ Reply(call.by, "redraw")
  /\ \/ slot # "none" /\ SetCaps
     \/ slot = "none" /\ UNCHANGED <<slotVars, cache, queue>>
  /\ UNCHANGED <<writer, groups, handle, boardVars, history>>

\* Fault: the failure is counted, but its asker gets no reply.
QueryFailsUnanswered ==
  /\ call.op = "query"
  /\ call' = NoCall
  /\ failures' = IF slot = "none" \/ Unsupported THEN failures ELSE failures + 1
  /\ UNCHANGED <<slot, known, pending, ctrl, cache, queue, writer, groups, pollVars, boardVars, history>>

\* Fault: the failure is not counted.
QueryFailsUncounted ==
  /\ call.op = "query"
  /\ call' = NoCall
  /\ Reply(call.by, "idle")
  /\ UNCHANGED <<slotVars, cache, queue, writer, groups, handle, boardVars, history>>

\* A lost reply or one that reports no LED; counted, and never uncounted.
\* Bound: the count stops where it makes the slot unsupported.
QueryFails ==
  /\ call.op = "query"
  /\ call' = NoCall
  /\ Reply(call.by, "idle")
  /\ failures' = IF slot = "none" \/ Unsupported THEN failures ELSE failures + 1
  /\ UNCHANGED <<slot, known, pending, ctrl, cache, queue, writer, groups, handle, boardVars, history>>

(***************************************************************************)
(* The poll loop: refresh, Reconcile, syncDevices, Forget.                 *)
(***************************************************************************)
\* Connections the board has left are closed, a new one is opened and put in
\* Direct mode.  A failed enumeration is one that found nothing, a failed
\* SetDirectMode is only logged.
refresh ==
  /\ poll = "idle"
  /\ \/ /\ port # 0 /\ handle # port
        /\ handle' = port
        /\ direct' \in IF Flaky THEN {TRUE, direct} ELSE {TRUE}
     \/ /\ port = 0 \/ handle = port
        /\ handle' = port
        /\ UNCHANGED direct
     \/ /\ Flaky
        /\ handle' = 0
        /\ UNCHANGED direct
  /\ poll' = "reconcile"
  /\ UNCHANGED <<slotVars, cache, queue, writer, dispVars, port, plugs, hw, history>>

\* Reconcile with the device present: a new slot, or the one it has.  The
\* slots syncDevices turns to are those that were untethered and those
\* without capabilities that are not given up.
ReconcilePresent ==
  /\ poll = "reconcile" /\ handle # 0
  /\ slot' = "connected"
  /\ ctrl' = handle
  /\ IF slot = "none"
     THEN known' = FALSE /\ failures' = 0 /\ pending' = Blank
     ELSE UNCHANGED <<known, failures, pending>>
  /\ poll' = IF slot = "untethered" \/ (~known' /\ failures' < MaxCapsFailures)
             THEN "sync" ELSE "idle"
  /\ UNCHANGED <<cache, queue, writer, dispVars, handle, boardVars, history>>

\* Fault: the frame of a device that is merely untethered is forgotten.
ReconcileAbsentForgets ==
  /\ poll = "reconcile" /\ handle = 0
  /\ slot' = IF slot = "none" THEN "none" ELSE "untethered"
  /\ ctrl' = 0
  /\ poll' = "forget"
  /\ UNCHANGED <<known, failures, pending, cache, queue, writer, dispVars, handle, boardVars, history>>

\* Reconcile with the device absent: untethered, and evicted when that has
\* lasted longer than UntetheredMaxAge, unless it is declared.
ReconcileAbsent ==
  /\ poll = "reconcile" /\ handle = 0
  /\ slot' = IF slot = "none" THEN "none" ELSE "untethered"
  /\ ctrl' = 0
  /\ poll' = "idle"
  /\ UNCHANGED <<known, failures, pending, cache, queue, writer, dispVars, handle, boardVars, history>>

Evict ==
  /\ poll = "reconcile" /\ handle = 0
  /\ slot = "untethered" /\ ~Declared
  /\ slot' = "none"
  /\ known' = FALSE /\ failures' = 0 /\ pending' = Blank
  /\ newest' = Blank
  /\ poll' = "forget"
  /\ UNCHANGED <<ctrl, cache, queue, writer, dispVars, handle, boardVars, asked>>

Forget ==
  /\ poll = "forget"
  /\ cache' = Blank
  /\ poll' = "idle"
  /\ UNCHANGED <<slotVars, queue, writer, dispVars, handle, boardVars, history>>

\* EnsureCapabilities: the poll loop waits for the dispatcher's reply, unless
\* the capabilities are known or the queue is full.
EnsureCapabilities ==
  /\ poll = "sync"
  /\ \/ known /\ poll' = "redraw" /\ UNCHANGED queue
     \/ ~known /\ Len(queue) < QueueDepth /\ tryEnqueue(Request("poll", Dev)) /\ poll' = "wait"
     \/ ~known /\ Len(queue) = QueueDepth /\ poll' = "idle" /\ UNCHANGED queue
  /\ UNCHANGED <<slotVars, cache, writer, dispVars, handle, boardVars, history>>

PollRedraws ==
  /\ poll = "redraw"
  /\ tryEnqueue(Redraw(Dev))
  /\ poll' = "idle"
  /\ UNCHANGED <<slotVars, cache, writer, dispVars, handle, boardVars, history>>

(***************************************************************************)
(* The board: colors and the mode live in its RAM.                         *)
(***************************************************************************)
PlugIn ==
  /\ port = 0 /\ plugs < MaxPlugs
  /\ plugs' = plugs + 1 /\ port' = plugs + 1
  /\ UNCHANGED <<slotVars, cache, queue, writer, dispVars, pollVars, direct, hw, history>>

GoesDark == direct' = FALSE /\ hw' = Blank

Unplug ==
  /\ port # 0
  /\ port' = 0 /\ GoesDark
  /\ UNCHANGED <<slotVars, cache, queue, writer, dispVars, pollVars, plugs, history>>

SoftReset ==
  /\ MayReset /\ port # 0 /\ direct
  /\ GoesDark
  /\ UNCHANGED <<slotVars, cache, queue, writer, dispVars, pollVars, port, plugs, history>>
------------------------------------------------------------------------------
Writes    == WriteBegin \/ WriteUpdate \/ WriteEnqueue
CallEnds  == SendReaches \/ SendFails \/ QueryAnswered \/ QueryFails
Run       == Process \/ dispatchFlush \/ fetchCapabilities \/ CallEnds
PollSteps == \/ refresh \/ ReconcilePresent \/ ReconcileAbsent \/ Evict
             \/ Forget \/ EnsureCapabilities \/ PollRedraws
BoardSteps == PlugIn \/ Unplug \/ SoftReset

Next == Writes \/ PeriodicTick \/ HandlerAsksCaps \/ Run \/ PollSteps \/ BoardSteps

Spec == Init /\ [][Next]_vars

\* The goroutines keep running: a Write that began, the redraw ticker, the
\* dispatcher, whose HID calls time out, and the poll loop.  An LED that is
\* sent again and again gets through at last.
Fairness ==
  /\ WF_vars(WriteUpdate \/ WriteEnqueue)
  /\ WF_vars(PeriodicTick)
  /\ WF_vars(Run)
  /\ WF_vars(PollSteps)
  /\ \A l \in LED : SF_vars(SendReaches /\ l \in DOMAIN call.keys)

FairSpec == Spec /\ Fairness
------------------------------------------------------------------------------
Writing(l, v) == writer = [at |-> "update", led |-> l, ver |-> v]

IsWriteOf(l, v) == v \in 1 .. Len(asked) /\ asked[v] = l

StatesTyped ==
  /\ slot \in {"none", "connected", "untethered"}
  /\ poll \in {"idle", "reconcile", "forget", "sync", "wait", "redraw"}
  /\ known \in BOOLEAN /\ direct \in BOOLEAN
  /\ failures \in 0 .. MaxCapsFailures

FramesTyped ==
  /\ asked \in Seq(LED)
  /\ pending \in [LED -> 0 .. Len(asked)] /\ cache \in [LED -> 0 .. Len(asked)]
  /\ hw \in [LED -> 0 .. Len(asked)] /\ newest \in [LED -> 0 .. Len(asked)]

WorkTyped ==
  /\ writer # Idle => writer \in [at : {"update", "enqueue"}, led : LED, ver : 1 .. Len(asked)]
  /\ call.op \in {"none", "send", "query"} /\ call.by \in {"none", "poll", "handler"}
  /\ call.op = "send" => /\ DOMAIN call.keys \subseteq LED
                         /\ \A l \in DOMAIN call.keys : call.keys[l] \in 1 .. Len(asked)

ConnectionsTyped ==
  /\ plugs \in Nat /\ port \in 0 .. plugs
  /\ handle \in 0 .. plugs /\ ctrl \in 0 .. plugs /\ call.via \in 0 .. plugs

TypeOK == StatesTyped /\ FramesTyped /\ WorkTyped /\ ConnectionsTyped

\* No write that was accepted is lost on the way to the frame buffer: the
\* newest one to a key is in it, or waits for the capabilities, or is in
\* its writer's hand, across the capabilities' arrival and the slot's end.
NewestIsHeld ==
  \A l \in LED : newest[l] # 0 =>
    newest[l] = cache[l] \/ newest[l] = pending[l] \/ Writing(l, newest[l])

\* Whatever is queued, dropped, lost, grouped or redrawn, keys show colors
\* asked for them, and while lit never an older one after a newer one: "a
\* flush can't deliver a stale frame" (dispatcher.go:156-158).
Display == INSTANCE FrameDisplay
ImplementsDisplay == Display!Spec

\* The slot has the board's present, open connection and is not given up.
Attached == port # 0 /\ handle = port /\ ctrl = port /\ ~Unsupported

ShowsNewest == \A l \in LED : newest[l] # 0 => hw[l] = newest[l]

\* Once the board stays, in Direct mode, its keys end up in the colors last
\* asked for, although flushes are dropped and reports are lost.
HardwareCatchesUp == <>[](Attached /\ direct) => <>[]ShowsNewest

\* The poll loop never waits for ever for the dispatcher's reply.
PollIsAnswered == (poll = "wait") ~> (poll # "wait")

\* A device that stays connected gets its capabilities or is given up.
CapsSettled == <>[](slot = "connected") => <>(known \/ Unsupported)

\* dispatcher.go:95-96, the dispatcher owns every controller: none is closed
\* by the poll loop while the dispatcher is in a call on it.
NotClosedInUse == [][handle' # handle => call.op = "none" \/ call.via # handle]_vars
==============================================================================

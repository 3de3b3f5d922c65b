# A verification of blinkenkeys in TLA+

blinkenkeys is a daemon, `blinkenkeysd`, that lets programs light the keys of
VialRGB keyboards through a REST service, and a command line client, `blincli`.
This directory holds TLA+ models of the daemon's core, the TLC configurations
that check them, and TLAPS proofs. Source paths below are relative to `src/`.

## The system

| part | state | operations | who calls it |
|---|---|---|---|
| addresses and layouts (`internal/keyaddr`, `dispatcher/layout.go`, `config`) | none; a layout per device, fixed at start | resolve an address, order of `idx:` numbers, pool | everything |
| named-key claims (`dispatcher/claims.go`, `place.go`) | per slot: `claims` (name to LED), `owners` (LED to name or direct), `pending` | claim or refresh, mark direct, displace, release, sweep, resolve pending | handlers, sweep goroutine, dispatcher goroutine; under the registry lock `r.mu` |
| device registry (`dispatcher/registry.go`, `cmd/blinkenkeysd/main.go`) | slots: connected or untethered, controller, capabilities, failures | `Reconcile` every poll, declare, evict after 24 h, record capability failures | poll goroutine |
| frame buffer and dispatcher goroutine (`dispatcher/dispatcher.go`, `cache.go`, `batch.go`, `redraw.go`) | cache of colors, bounded queue of colorless jobs | write, flush, redraw, group, send | handlers and engine enqueue; one goroutine sends |
| effects engine (`internal/effects`) | `running` and `records` per key, lock `e.mu` | set color, start, conditional clear, tick | handlers, sweep callback, tick goroutine |
| REST handlers (`internal/api`) | none of their own | PUT and DELETE of a key, listings | one goroutine per request |
| HID protocol (`internal/hid`) | replies queued in the device | one report out, one reply in | dispatcher goroutine |
| client (`cmd/blincli`, `internal/client`) | none | set, clear, get, with fallbacks between kinds of key | the user's terminals |

What is hard about it: six kinds of goroutine share a slot's tables, the engine
and the cache under three locks (`r.mu`, `e.mu`, the cache's), each held for
one call; a handler is a sequence of such calls. A device may vanish and come
back in between, or be gone so long that its slot is evicted and its name
given to a fresh one. Delivery to hardware is best effort.

What makes each part correct:

* claims: one owner per key, one key per name, names on pool keys only, a
  client is never moved to another's key, a full pool refuses and loses nothing,
  idle claims end;
* service: a key shows what its owner asked for, a conditional clear spares
  other sessions, nothing stays lit that nobody owns;
* delivery: hardware ends up showing the cache, never an older color after a
  newer one;
* registry: a device that returns gets its name and colors back, no two devices
  share a name;
* engine: a new command replaces a running effect, final states are shown;
* HID: a reply answers its own request;
* client: `clear` undoes what `set` did.

## Modules

Names and claims:

* `KeyMatrix` — pure definitions: addresses, reading order, pools.
* `KeyClaims` — one slot's claim tables. One action per operation under `r.mu`;
  `SetCaps`, which resolves the pending writes one after another with the lock
  held, is `SetCaps`, one `ResolvePending` per write and `SetCapsDone`, with
  `settling` standing for the lock. `claims`, `owners`, `pending` are the
  code's maps (totals, with `NoKey` and `Unowned` for absent keys); `idle` is
  the age of `lastWrite` in sweep ticks. A (value, ok) result is a set.
* `KeyLeases` — what the claim tables promise: one function from keys to
  holders, and the five ways it may change.
* `KeyClaimsProofs` — the proofs about `KeyMatrix` and `KeyClaims`.
* `KeyService` — handlers, engine, sweep and callback over an instance of
  `KeyClaims`. Each handler call that takes a lock is an action; `pc` is where
  a handler is. The frame buffer is reduced to the request that painted a key
  last.
* `KeyServiceProofs` — the proofs about `KeyService`.

Devices and delivery:

* `DeviceRegistry` — several keyboards on several paths: `refresh` (probe the
  UID, open what is new, close what is gone), `BaseName`, `Declare` and
  `Reconcile`. `port` is what is plugged where, `open` the loop's handles with
  the base each path got when it was opened, `slots` the registry's; a slot's
  controller is the path whose handle it has. `poll` is where the loop is. Map
  order in `findUnclaimedByBase` is a choice. `peak`, a history, is the number
  of names of a base that were needed at once.
* `DeviceRegistryProofs` — the proofs about `DeviceRegistry`.
* `Batching` — pure definitions: what the dispatcher makes of a drained batch
  (redraws expanded, repeats dropped, runs of LEDs grouped into reports).
* `FrameDelivery` — one device from `Dispatcher.Write` to the board, over
  `Batching`: the frame buffer, the bounded queue, the dispatcher goroutine, the
  periodic redraw, the poll loop with `refresh`, `Reconcile`, `syncDevices` and
  `Forget`, and the board, which loses reports, is unplugged and resets. A Write
  is three steps (`CapsOrPend`, `Cache.Update`, `tryEnqueue`), a HID call two
  (`call` is the one in progress), a poll up to four (`poll` is where the loop
  is). Connections are numbered: `port` is the board's present one, `handle` the
  one `refresh` keeps open, `ctrl` the slot's controller; the three differ
  between a replug, `refresh` and `Reconcile`. A color is the number of the write
  that asked for it, so that older and newer can be told apart.
* `FrameDisplay` — what delivery promises: a key shows only colors asked for
  it, newer ones replace older ones, a board goes dark only as a whole.
* `FrameDeliveryProofs` — the proofs about `FrameDelivery`.
* `HidExchange` — one board's raw-HID link under the batches `Batching` makes:
  one report out, one reply in, and replies that come after their reader gave
  up and answer the next request. `replies` is that queue, `sending` what is
  left of the batch, `query` the capability query in hand.
* `BatchDispatch` — the dispatcher goroutine over both: `drainAfter` takes a job
  from the queue into `batch`, `process` makes groups of it and hands those for
  the connected device to the link, as one batch of requests.
* `BatchDispatchProofs` — the proofs about `Batching`, `HidExchange` and
  `BatchDispatch`.

Effects:

* `Timelines` — pure definitions: the compiler with nested effects and its cycle
  check, the primitives, `Timeline.At` and `Total`, the templates' states; and,
  as the reference they are checked against, what a set of definitions means:
  which sets are `Sound`, and the `Script` of colors an effect plays tick by
  tick.
* `EffectsEngine` — the engine over compiled timelines, several keys: a handler
  reads the time and then takes `e.mu` (`Begin`, `Run`), the ticker puts a time
  in its channel and `Engine.Run` takes it (`Fire`, `Tick`), writes fail.
  `shown` is the last color written to a key.
* `EffectsEngineProofs` — the proofs about `Timelines` and `EffectsEngine`.

The client:

* `TerminalIdentity` — pure definitions: which terminal, tab and session an
  invocation of `blincli` finds itself in, with helpers that fail, and the plan
  (explicit key, tab slot or name) that follows.
* `BlinCli` — `set`, `clear` and `get` of several sessions against one device.
  The daemon is an instance of `KeyClaims` with a color per LED; a command is one
  or two requests, and those of different sessions interleave. A DELETE by name is
  served in the three calls it makes of the daemon's parts (`LookupName`,
  `BlankName`, `ReleaseName`), requests of others coming in between; any other
  request is one step. `last`, a history, is the plan of a session's last set, in
  mode "lost" once its claim was displaced within its own DELETE (below).
* `BlinCliProofs` — the proofs about `BlinCli`.

`Recursion` holds what the proofs about `Batching` and `Timelines` need of recursive
functions: a loop over a sequence, `f[n \in 0 .. Len(s)]`, and a function whose
value follows from those of lower rank.

`MCKeyClaims`, `MCKeyService`, `MCBatching`, `MCFrameDelivery`,
`MCDeviceRegistry`, `MCEffectsEngine` and `MCBlinCli` hold the boards, layouts,
requests, devices and definitions TLC uses; `MCEffectsEngine` also joins the
compiler to the engine.

A definition under a comment `Fault:` is no part of a specification: it is a
plausible slip in the definition that follows it, kept because a property
notices it when it takes that definition's place.

`DeviceRegistry`, `FrameDelivery` and `KeyClaims` describe a slot from three
sides: `Reconcile` of the first is `ReconcilePresent` and `ReconcileAbsent` of the
second, and the eviction and addition in it `SlotEvicted` and `SlotAdded` of the
third. A board that swaps its slot with a twin's (below) is, for the other two, a
device that has become another one.

## Runs

* `claims` (`MCKeyClaims`, `KeyClaims.cfg`): three names, two boards (five LEDs
  out of index order with an underglow LED, and a three-LED one for the same
  device after a reflash), three layouts (default pool, default pool with a tab
  slot and displacement, explicit pool in an order of its own with a number the
  board lacks). Three names exhaust every pool; `MaxAge = 1` gives a claim an
  age before the one that expires it. Checked under weak fairness of the sweep
  and of the loop that holds the lock, for the end of idle claims.
* `service_serial` (`KeyServiceSerial.cfg`): one request at a time
  (`MaxInFlight = 1`), effect ticks anywhere, the sweep between requests: every
  key shows what its owner asked for, the displaced one's request follows its
  claim, abandoned keys go dark.
* `service_pair` (`KeyServicePair.cfg`): two requests at a time out of four
  kinds, the sweep overlapping them, the device evicted and added again. The two
  clients are symmetric. What a key shows is on record, a conditional clear
  spares other sessions, and under displacement a direct write, handled or waiting
  for capabilities, drops a claim only when no pool key is free.
* `service_orphan`: a comment that the code does not keep; see below.
* `delivery` (`FrameDelivery.cfg`): two LEDs, two writes, two plugs, a queue of
  two, reports and enumerations that fail, firmware resets, eviction.
* `delivery_live` (`FrameDeliveryLive.cfg`): the same questions about the end,
  for a declared device with one LED and two writes; the queue still overflows
  and a replug between two polls still goes unnoticed by `Reconcile`.
* `delivery_close`: a comment that the code does not keep.
* `registry` (`DeviceRegistry.cfg`): two keyboards of one model and one without a
  UID, on two paths, so that each can be on each path and any two at once; a
  declared suffixed name and a declared path name; UID probes, opens and
  enumerations fail. `MaxAge = 2` polls tells an absence that ends a slot from
  one it outlasts. `SuffixesStayLow` bounds the suffixes by 2 here, so that
  `MaxSuffix = 4` cuts off nothing.
* `registry_steal`: a comment that the code does not keep.
* `batching` (`MCBatching` over `BatchDispatch`, `Batching.cfg`): every batch of up to three jobs out
  of eight kinds over two devices, two keys to a report, a gap in the frame
  buffer, sent to a board of two LEDs. A redraw is three flushes, so the groups
  reach the ceiling and pass it. Up to three replies are left unread
  (`MaxLag = 3`), which is more than the two kinds of request before a query and
  enough for a query to read nothing but older replies.
* `engine` (`MCEffectsEngine`, `EffectsEngine.cfg`): every pair of definitions
  of up to two stages out of nine (solid, blinking, breathing, nested in the
  other or in oneself, unknown, malformed), with and without a final color, is
  compiled and played against its script for eight ticks (`Horizon`), past the
  end of all that nest nothing; then two keys are at work on one
  library with an effect that ends inside another, an open-ended one, two
  template states and a request that is refused. `MaxClock = 3` is the time the
  longest finite effect there takes. Deadlock is not checked: `--check-config`
  ends the program, and the clock is bounded.
* `client` (`MCBlinCli`, `BlinCli.cfg`): two WezTerm panes of one number on two
  machines, whose tab is known, moved, or unknown, and a local session with an
  explicit key or none; four keys, a layout with a tab slot and displacement and
  two without tab slots, with and without displacement, so that pools fill up,
  claims are moved and dropped, and the slots the client falls back on are keys
  of the pool, one pane's slot being the other's claim or its own.
  `MaxAge = 0` lets a claim expire at the next sweep. A pane's DELETE by name
  overlaps the sets, clears and sweeps of the others.

Bounds: `MaxWrites` and `MaxPlugs` bound behaviors; two writes are the least
where one overtakes the other, two plugs where a slot is evicted and made
anew. Two LEDs make a group of more than one key. `MaxCapsFailures` is 2 (3 in
the code), `QueueDepth` 2 (64), `MaxBatch` 2 (9): each limit is reached.
One handler's capability job waits at a time, and a redraw is not queued
behind a waiting one. In `FrameDelivery` eviction may follow any untethered poll:
24 hours are not counted; `DeviceRegistry` counts them in polls. `MaxInFlight`,
`MayEvict` and `SweepOverlaps` say which interleavings a run takes; time is
`Tick`/`Age`, capped at the first age that expires, and no idle timeout elapses
while a request is served (8 h against milliseconds). Two names, one pool of two
keys and one row-0 key are the least with a displacement that succeeds and one
that finds the pool full.

Deadlock is checked in every run but `engine`.

## Fairness

Weak fairness, but for one case: the sweep's and the redraw's tickers fire for
ever (`RunClaimSweep`, `RunPeriodicRedraw`), the loop in `SetCaps` waits for
nothing, a handler or a Write that has started keeps executing, `SetColor` never
blocks, the dispatcher works off what it has, its HID calls time out
(`protocol.go`), the poll loop goes round, and time passes. The exception: for
each LED a report that is sent again and again gets through at last (strong
fairness of `SendReaches`), without which nothing could be said of hardware
that loses reports. That a capability query ever succeeds is not assumed. No
client is assumed to make any request, and no device to appear; what must hold
"once the board stays" has that as its premise (`Attached`).

`DeviceRegistry`: the poll loop goes round (weak fairness of `refresh` and
`Reconcile`), and opening a path that is there again and again works at last
(strong fairness of a `refresh` that has it open); without the latter a board
whose every open fails would never be served. `EffectsEngine`: time passes, the
ticker fires and `Engine.Run` takes its ticks (weak fairness of `Pass`, `Fire` and
`Tick`). `BlinCli` and `HidExchange` state safety only and assume nothing.

## Disagreements found

Three have a run, with the quotations in `PROJECT.json`:

* A displaced claim keeps its old idle clock while its request is replayed
  outside the lock: `service_orphan` ends with a lit key nobody owns. (With two
  handlers a DELETE racing a PUT under the same name ends there as well.)
* The poll loop closes a controller the dispatcher may be in a call on:
  `delivery_close`.
* A second keyboard of one model on a lower path takes over the first one's
  connected slot, and the first gets the new name: `registry_steal`. Two of them
  that are both unplugged may also come back with their names swapped, as
  `findUnclaimedByBase` goes by map order; its comment (`registry.go:381-385`) puts
  this down to the VID/PID tier alone, but the Vial UID is the firmware's and
  shared as well.

The others were met while modelling and are part of what the models allow.

Claims and requests:

* A DELETE by name looks its key up (`handlers.go:210`), blanks that key whoever
  has it by then (`:229`; there is no owner to check), and releases what the name
  has (`:240`). A direct PUT to the key after the lookup is darkened, though
  `set.go:197` says that the claim by name belongs to the caller "by construction",
  `set.go:178-179` that a tab never blanks a key another session now holds, and the
  design of `blincli` (`docs/superpowers/specs/2026-10-05-blincli-design.md:138-139`)
  that a session which ends never does. If the PUT displaced the claim, its color
  went along and stays lit on a key that the release then frees: nobody's key is
  lit, and a later clear does not find it. No run asserts the contrary:
  `TaggedClearSparesOthers` is about the clears with an owner, and `ClearUndoesSet`
  excepts the case.
* A write that waited for capabilities becomes a direct write, or a claim, when
  they come, by `markDirectLocked` whatever the collision policy is
  (`registry.go:218-228`). With a name's write ahead of it in the list a direct one
  drops that claim although pool keys are free, which `config.go:66-69` does not
  say ("displace": the claim moves); the design does
  (`2026-10-05-blincli-design.md:159-161`). `KeyClaims` allows it, as its callers
  may let names wait. The daemon's do not: handlers resolve a name before they
  write, so only addresses wait, and `DisplaceLosesNothing` holds of the service.
* A tagged DELETE re-checks nothing when it releases (`handlers.go:240`), though
  the design of `blincli` promises that the release, like the blank, happens only
  if the recorded owner still matches.
* The sweep's callback blanks a key by number after the lock is gone
  (`main.go:104`, `claims.go:218`), and may blank one that has a new owner.
* A name's write (or its effect's next frame) that reaches a device evicted and
  added again pends as `led:N`, and `SetCaps` makes it a direct write
  (`registry.go:226`), although `dispatcher.go:218-222` counts pending writes
  among those whose original kind is known.
* `Place` can mark a key on a slot without capabilities, which
  `place.go:36-37` calls unreachable: it fetched them from a slot that was
  replaced since.
* The engine's records of a device's keys survive its eviction: the status of a
  key of a device added again under the name tells of the old one's request.

Devices and delivery:

* A `Write` that straddles an eviction and the poll's `Forget` fills the
  forgotten cache again, and a device added under that name later is redrawn
  with the old color, which `cache.go:68-71` excludes. It takes a poll between
  two statements of `Write` (`dispatcher.go:200` and `:211`).
* An enumeration error is taken for an empty list (`main.go:293-297`): every
  controller is closed and every slot goes untethered, though the comment above
  (`main.go:290-292`) says that the open set is left untouched.
* The log suggests to declare a second keyboard of a model by its suffixed name
  (`main.go:407-413`); `Declare` takes that for a base identity, which no board
  has, so the declared slot is never connected. A write to a declared device that
  was never seen is refused (503), since `Place` needs its capabilities
  (`place.go:64-67`), though `config.go:49-50` and `registry.go:145-147` say that
  writes succeed.
* `unsupported` is never cleared (`registry.go:290`), though a fetch already
  queued may succeed after the limit was reached.
* Direct mode is set only when a path is opened (`main.go:312`), so redraws do
  not repair a firmware reset.
* One reply that comes after its reader gave up, be it to the UID or the direct
  mode request, whose replies nobody checks, shifts every later one for as long as
  the handle is open. No wrong layout comes of it (`LayoutIsRight`), but each
  fetch then fails, and after three a board that implements VialRGB is marked as
  one that does not (`registry.go:20-26`).

The client:

* A set that fell back to the shared slot, or one whose tab could not be
  detected, and a later one that goes elsewhere leave the older key lit; a clear
  whose detection ends differently does not find the slot. `ClearUndoesSet` and
  `GetFindsWhatSetWrote` are about the last set, under the same plan.

## Proofs

Every theorem is proved for all values of the constants under the named
assumptions of its module, which TLC evaluates in the runs.

`KeyClaimsProofs`: `TypeOK`, `MapsAgree`, `ClaimsInPool`, `WaitingOnlyForCaps`
(which no run checks), `DirectStays`, `RefusedOnlyWhenFull`,
`ClaimsMoveOnlyWhenDisplaced`, and that `KeyClaims` implements `KeyLeases`. The assumptions: the markers are distinct from the values
they mark, a board's LEDs are among `LED`, pending names are names; a board reports
no two LEDs at one matrix position (the code takes the firmware's word for it) and
a layout lists no number twice (`config.go:87` refuses one that does). The first
three hold of the code because a
name parses as no LED and a board reports `uint16` indexes. The
inductive invariant `IInv` is the conjunction of the first four. None is
inductive alone: a displacement may move a claim only to a free pool key, and
that the key it takes belongs to a board with known capabilities follows from
the agreement of the maps and the pool restriction together. A lemma per helper
(`ClaimOrGetKeepsMaps`, `MarkDirectKeepsMaps`, ...) says what it keeps of the
maps; the step lemma has one step per action. The refinement has one lemma per
helper as well, naming the lease action it is. When a claim is refused or, by a
displacing write, dropped (`OnlyFullPoolsLose`) rests on `SearchFindsOne`: a pool
with a free key has exactly one that `nextUnclaimed` finds. Under it lie two facts about `KeyMatrix`: on a board
with distinct matrix positions the `idx:` numbers 0 to n - 1 name its n keys, each
one (`IdxNamesOneKey`), and of any part of a pool one key comes first
(`PoolHasFirst`). Both count the keys read before a key; the second takes the least
number, by the well-foundedness of the numbers.

`KeyServiceProofs`, first for any number of requests at a time, the sweep
anywhere and evictions: every step is a step of `KeyClaims` or leaves its
variables alone, so that all of `KeyClaimsProofs` holds of the service
(`ServiceRunsClaims`), `LitKeysAreRecorded`, `TaggedClearSparesOthers` and
`DisplaceLosesNothing`. The last needs, beside `OnlyFullPoolsLose`, that no name has
a claim while the waiting writes are resolved (`UnclaimedMeanwhile`): only addresses
wait, and before the capabilities came nothing could be claimed. The
inductive invariant `IInv` joins that of `KeyClaims` with what handlers carry and
with `Recorded`: each color that is shown, that a callback holds or that waits for
capabilities is the recorded one. Then, for requests served one at a time
(`Alone`: `MaxInFlight = 1`, no sweep overlapping, no eviction, the bounds of
`service_serial`), `KeysShowTheirOwners` and `DisplacedRequestFollows`; without
`Alone` both are false, see the disagreements. Neither is inductive: in the middle
of a request a key may show what its owner did not ask for. `Serving` says, for
each place a handler can be at, which keys may, why, and what the handler holds
that will set it right. The assumptions are those of `KeyClaims`, that a request
is for a name or an LED, and that clients are finitely many.

`FrameDeliveryProofs`: for every set of LEDs, queue depth, report size, failure
limit and bound, declared or not, flaky or not, `TypeOK`, `NewestIsHeld`, and
that `FrameDelivery` implements `FrameDisplay`. The assumptions say that the
constants are numbers. The inductive invariant adds to the first two `Matched`
(a number kept for a key is that of a write to it) and `Ordered`: what waits for
capabilities is at least as new as what is cached, that as what is being sent,
that as what is shown, and a Write in progress holds the newest write of all
with nothing waiting beside it. The last part is where the lock of `CapsOrPend`
and `SetCaps` is needed. The refinement needs the order because a report carries
colors read before it arrives; it does not need the queue, since flushes carry no
color.

`DeviceRegistryProofs`: for every set of keyboards, paths, declared names and
age limit, `TypeOK`, `Wired`, `DeclaredStays` (which no run checks),
`SoleSlotIsKept` and `SuffixesStayLow`. The assumptions: paths are finitely many
and ordered, declared names are names, the marker `None` is no base, path or
keyboard, and `NoBoard`, which stands for the base of a declared name that no board
can have, is no base. The first four
rest on `TypeOK` and on what one `Reconcile` makes of the slots: those taken,
the new ones and those left are told apart by name, since a new name is no
slot's and two new names of one base differ in their suffix, and a path takes
one slot only. `Wired` says nothing while `refresh` has closed handles whose slots
have not been told, so its step through `Reconcile` does not need it before.
`SuffixesStayLow` counts: a new device gets the least free suffix, so all suffixes
below it are those of slots of its base that are kept, of new devices before it,
or declared; with it, the first two are at most as many as were needed at once
(`peak`).

`EffectsEngineProofs`: `FramesAreDue`, `RunsAreRecorded` and `StatusIsTrue`, for
every set of keys and requests, the first two whatever the timelines play.
`FramesAreDue` is not inductive: a frame equal to the last one is not written, so
the run's `last` must be what the key shows; and neither the time in the ticker's
channel nor the one a handler read may lie in the future. `RunsAreRecorded` needs
that a failed write ends the run before anyone else gets the lock. It and
`StatusIsTrue` assume `NoneIsNoEntry`: the marker for no record and no run is
neither (in the runs it is a model value, so that this holds of itself).
`StatusIsTrue` is proved of a library that `Load` made, in which no effect is named
like the marker (`LibraryServed`). The invariant says of each record of an effect
that neither runs nor failed that its time is over and its final color is on the
key, and that a waiting request asks for what the library has; that an effect
which is done has had its `Total` and shows its final color (`EndsInFull`) is
proved of every library.

The same module, first, about the compiler: `CompilesSoundSets` and
`TimelinesAreScripts`, for every finite set of definitions, of any number of
stages, and any `Horizon`. They assume that `Invalid` is no stage, no timeline and no
function (`InvalidIsNoValue`; a model value in the run, and `error` in the code), and
that the configuration is one a file can hold (`IsConfig`: definitions are finitely
many and their stages are of the kinds of `Timelines`, the malformed one included;
their names, colors and periods are anything).

* Definitions that refer to no others for ever have a rank that goes down along
  references (`WeightsExist`), and what compiles is such a set: a chain of
  references longer than there are definitions would meet one of its members
  again, which the compiler refuses (`CompiledIsWellFounded`). Then the chain of
  effects being compiled does not matter (`ChainsDoNotMatter`), which is also why
  the compiler's memo may be left out.
* `Total` is 0 exactly for effects that never end (`TotalTells`), though `Ends` is
  stated without totals, as the complement of the largest set of effects whose last
  stages go on.
* `At` is done when the sum of the stages' durations is over, and not before
  (`Ending`); while stages end it goes on with the next one at the time that is left
  (`AtAlong`). A stage then plays its script if the effects it refers to do
  (`StagesPlay`), the stages' scripts put one after the other are the effect's
  (`EffectPlays`), and the rank carries that to every depth (`AllScriptsRight`).

`BatchDispatchProofs`, for any devices, frame buffer, report size and batches of
any length: `NothingIsLost`, `GroupsAreSendable` and `ArrivalOrderIsKept`. Each pass of
`Batching` is a loop; what one job more does to it (the lemmas named `...Next`) and
induction over the batch give what the pass keeps (those named `...Keeps`). The
assumptions: the frame buffer is finite, its LEDs are numbers, a report holds at
least one key. Then `LayoutIsRight`, for boards of any size, any batches of requests
and any number of late replies: a reply does not name its LED, so the proof is
about what can stand in the queue. An info is behind the count or behind the info
of the LED before it (`Chained`), because a query asks for an LED only after it has
read such a reply; and a query that has read `k` infos has the one of LED `k`, or
no info, before it (`QueryAt`). `DispatchImplementsLink` joins the two: what
`process` sends is such a batch, so that `LayoutIsRight` holds of the dispatcher.

`BlinCliProofs`: for every set of sessions, invocations, boards and layouts
`SessionsAreTold`, `ClearUndoesSet` and `GetFindsWhatSetWrote`, for sessions in panes
that are apart (`PanesApart`: who is known by a pane has another host, terminal or
pane number than all others; the run assumes it of its sessions). Two callers whose
names are the same, such as two shells under one `-n`, are one to the daemon, and of
them the three are false. The daemon's tables are `KeyClaims`', with its proofs. The
inductive invariant is `Lasting`: the latest color a session set is on the slot, the
claimed key or the shared slot of its last plan, and on the last only while the name
has no claim (`ColorFound`); a set or clear on its way to the shared slot has no
claim, nor has a DELETE that has blanked the key of the last set and not released it
(`OnItsWay`), so that the release takes no key from under a color still looked for.
Nothing is said of the color of a claim displaced within its own DELETE, before the
blank. A lemma per call says what it does to owners and colors (`Lands`, `Claimed`,
`Darkens`, `Frees`); one for all other sessions says that their colors stay, move
with their claim, or go (`ColorsMove`). That a named plan's owner is one of `Names`,
the names that occur, is assumed and evaluated.

Only model-checked: liveness (`IdleClaimsEnd`, `AbandonedKeysGoDark`,
`HardwareCatchesUp`, `PollIsAnswered`, `CapsSettled`, `NamesAreFreed`,
`StayersAreServed`, `FiniteEffectsEnd`), which depends on fairness and `ENABLED`.
Every other property that a passing run checks is proved. The library's induction
theorems take an operator as a parameter and cannot be used here; the proofs use
sets in its place (`EveryRound`, `EverySeq` and `ByRank` of `Recursion`, the least
number outside a set leading to a contradiction), which is enough for the
recursions of these models.

## Not modelled

Color parsing, reading of configuration files, tokens, packaging, the
listings' formatting and `setkeycolor` are sequential computations on one
input. Of the client, endpoint and device resolution and the commands `config`,
`detect` and `devices` only read and print.

What the models leave out of the parts they do cover: `KeyService` and
`FrameDelivery` have one device, and `FrameDelivery` no named writes (`KeyClaims`
has those); `FrameDelivery` takes a board's LEDs as given, a reflash to fewer is
in `KeyClaims`. `DeviceRegistry` has no capabilities and no colors
(`FrameDelivery` has those). `HidExchange` leaves out short reads and `enumerate.go`'s
filter of interfaces. `TerminalIdentity` keeps names as tuples of their parts and
leaves out `Sanitize` and the shortening of long names, which could make two names
one. `Timelines` takes a definition whose `final_state` is no color, which is refused
even if the effect never ends (`compile.go:130-134`), for one with a malformed stage,
which is refused as well. `BlinCli` takes each PUT, each DELETE of an address and the
sweep with its callback as one step, the overlap of their handlers being
`KeyService`'s; what the disagreements tell of keys lit or darkened by such an
overlap is not in it; its explicit keys are direct addresses; and the daemon does not
restart: it keeps nothing on disk, so a restart is a new behavior.

----------------------------- MODULE KeyService ------------------------------
(***************************************************************************)
(* The REST key service of one device: concurrent PUT and DELETE handlers  *)
(* (internal/api/handlers.go), the effects engine they write through       *)
(* (internal/effects/engine.go) and the idle sweep with its blanking       *)
(* callback (cmd/blinkenkeysd/main.go), over the claim model of KeyClaims. *)
(*                                                                         *)
(* A handler is not atomic: each of its calls into the registry (r.mu) or  *)
(* the engine (e.mu) is one step, and other handlers, the engine's ticks   *)
(* and the sweep run in between.  The frame buffer is reduced to who       *)
(* painted a key last: shown[l] is the request whose color or effect the   *)
(* key shows, or Dark.  Request validation happens before any state is     *)
(* touched and is left out; so are the replies.                            *)
(***************************************************************************)
EXTENDS KeyMatrix

CONSTANTS
  Names, LED, Board, Layouts, MaxAge,
  Unowned, Direct, NoKey, NoCaps,
  Clients,      \* concurrent HTTP requests
  Requests,     \* the requests a client may make
  MaxInFlight,  \* bound: how many requests are served at a time
  MayEvict,     \* whether the device may be gone for good and come back
  SweepOverlaps, \* whether the idle sweep may run while a request is served
  Dark, NoTag, None

\* Requests are records [op, addr, paint, tag]: op "put" or "delete"; addr a
\* name or led address; paint, for a put, a record [effect, final]: whether it
\* starts an effect, and whether that effect's final_state leaves the key lit.
Puts == {r \in Requests : r.op = "put"}

\* What KeyClaims assumes, of this board.
ASSUME OwnersDistinct == /\ Unowned \notin Names /\ Direct \notin Names
                         /\ Unowned # Direct
ASSUME NoKeyIsNoLED   == NoKey \notin LED
ASSUME NoCapsIsNoBoard == NoCaps # Board
ASSUME MaxAgeIsNat    == MaxAge \in Nat
ASSUME BoardValid     == /\ Board.count \in Nat /\ LEDsOf(Board) \subseteq LED
                         /\ \A l \in LEDsOf(Board) : Board.pos[l] \in Nat \X Nat
                         /\ ValidCaps(Board)
ASSUME LayoutsValid   == \A lay \in Layouts :
                           ValidLayout(lay) /\ lay.tabs \in Seq(Nat) /\ lay.pool \in Seq(Nat)
ASSUME RequestsForm   == \A r \in Requests :
                           \/ \E n \in Names : r.addr = NameAddr(n)
                           \/ \E l \in LED : r.addr = LedAddr(l)
ASSUME NotRequests    == Dark \notin Requests /\ None \notin Requests
ASSUME ClientsFinite  == IsFiniteSet(Clients)

VARIABLES
  layout, present, caps, claims, idle, owners, pending, settling,  \* KeyClaims
  waiting,  \* slot.pending: the color of the write waiting for each LED
  shown,    \* Cache: the request that painted the LED, or Dark
  running,  \* Engine.running: the request whose effect runs there, or None
  record,   \* Engine.records: the last request that wrote there, or None
  pc,       \* where each client's handler is
  req,      \* its request
  target,   \* its target LED
  moved,    \* Place's Moved.To, or NoKey
  carry,    \* the displaced request to replay, or None
  was,      \* history: the record on the target when Place displaced it
  freed     \* the keys the running sweep still has to blank

claimVars  == <<layout, present, caps, claims, idle, owners, pending, settling>>
engineVars == <<waiting, shown, running, record>>
clientVars == <<pc, req, target, moved, carry, was>>
vars == <<claimVars, engineVars, clientVars, freed>>

Claims == INSTANCE KeyClaims WITH
            Matrices <- {Board}, PendAddrs <- {LedAddr(l) : l \in LED}

Init ==
  /\ Claims!Init
  /\ waiting = [l \in LED |-> Dark]
  /\ shown = [l \in LED |-> Dark]
  /\ running = [l \in LED |-> None]
  /\ record = [l \in LED |-> None]
  /\ pc = [c \in Clients |-> "idle"]
  /\ req = [c \in Clients |-> None]
  /\ target = [c \in Clients |-> NoKey]
  /\ moved = [c \in Clients |-> NoKey]
  /\ carry = [c \in Clients |-> None]
  /\ was = [c \in Clients |-> None]
  /\ freed = {}

(***************************************************************************)
(* Dispatcher.Write of picture p to LED l: into the frame buffer, or       *)
(* pending on a slot whose capabilities are unknown, or refused.           *)
(***************************************************************************)
Write(l, p) ==
  \/ /\ Claims!Ready
     /\ shown' = [shown EXCEPT ![l] = p]
     /\ UNCHANGED <<claimVars, waiting>>
  \/ /\ Claims!CapsOrPend(LedAddr(l))
     /\ waiting' = [waiting EXCEPT ![l] = p]
     /\ UNCHANGED shown

WriteFails == ~present /\ UNCHANGED <<claimVars, waiting, shown>>

(***************************************************************************)
(* The engine, one step per call: e.mu is held across the write.           *)
(***************************************************************************)
\* Fault: an effect is started without its record (Start for StartFrom).
ApplyUnrecorded(l, r) ==
  \/ /\ Write(l, r)
     /\ running' = [running EXCEPT ![l] = IF r.paint.effect THEN r ELSE None]
     /\ record' = [record EXCEPT ![l] = IF r.paint.effect THEN None ELSE r]
  \/ WriteFails /\ UNCHANGED <<running, record>>

\* SetColorFrom and StartFrom: the request r takes the key.
Apply(l, r) ==
  \/ /\ Write(l, r)
     /\ running' = [running EXCEPT ![l] = IF r.paint.effect THEN r ELSE None]
     /\ record' = [record EXCEPT ![l] = r]
  \/ WriteFails /\ UNCHANGED <<running, record>>

\* Fault: the blanked key keeps its record.
BlankKeepingRecord(l) ==
  \/ /\ Write(l, Dark)
     /\ running' = [running EXCEPT ![l] = None]
     /\ UNCHANGED record
  \/ WriteFails /\ UNCHANGED <<running, record>>

\* SetColor(black): the blanking path.
Blank(l) ==
  \/ /\ Write(l, Dark)
     /\ running' = [running EXCEPT ![l] = None]
     /\ record' = [record EXCEPT ![l] = None]
  \/ WriteFails /\ UNCHANGED <<running, record>>

\* Fault: an untagged record is taken for nobody's.
MayClearUntagged(l, tag) ==
  tag # NoTag => record[l] \in {None} \cup {r \in Puts : r.tag \in {tag, NoTag}}

\* The owner check of ClearIfOwner; without ?owner= there is none.
MayClear(l, tag) ==
  tag # NoTag => record[l] \in {None} \cup {r \in Puts : r.tag = tag}

\* Tick, for one running effect: its next frame, its end, or its failure.
TickFrame(l) ==
  /\ running[l] # None
  /\ Write(l, running[l])
  /\ UNCHANGED <<running, record, clientVars, freed>>

TickEnds(l) ==
  /\ running[l] # None
  /\ Write(l, IF running[l].paint.final THEN running[l] ELSE Dark)
  /\ running' = [running EXCEPT ![l] = None]
  /\ UNCHANGED <<record, clientVars, freed>>

TickFails(l) ==
  /\ running[l] # None
  /\ WriteFails
  /\ running' = [running EXCEPT ![l] = None]
  /\ UNCHANGED <<record, clientVars, freed>>

(***************************************************************************)
(* Handlers.                                                               *)
(***************************************************************************)
InFlight == {c \in Clients : pc[c] # "idle"}

Goto(c, label) == pc' = [pc EXCEPT ![c] = label]

\* A finished handler forgets its locals.
Done(c) ==
  /\ Goto(c, "idle")
  /\ req' = [req EXCEPT ![c] = None]
  /\ target' = [target EXCEPT ![c] = NoKey]
  /\ moved' = [moved EXCEPT ![c] = NoKey]
  /\ carry' = [carry EXCEPT ![c] = None]
  /\ was' = [was EXCEPT ![c] = None]

Start(c) ==
  /\ pc[c] = "idle"
  /\ Cardinality(InFlight) < MaxInFlight
  /\ SweepOverlaps \/ freed = {}
  /\ \E r \in Requests :
       /\ req' = [req EXCEPT ![c] = r]
       /\ Goto(c, IF r.op = "put" THEN "place" ELSE "lookup")
  /\ UNCHANGED <<claimVars, engineVars, target, moved, carry, was, freed>>

Named(c) == req[c].addr.kind = "name"

\* writeKey: Place begins with GetCapabilities, which waits for the poll to
\* fetch them, or fails: no slot, or no answer (404, 503), nothing changed.
GetCaps(c) ==
  /\ pc[c] = "place"
  /\ Claims!Ready
  /\ Goto(c, "claim")
  /\ UNCHANGED <<claimVars, engineVars, req, target, moved, carry, was, freed>>

GetCapsFails(c) ==
  /\ pc[c] = "place"
  /\ ~settling /\ caps = NoCaps
  /\ Done(c)
  /\ UNCHANGED <<claimVars, engineVars, freed>>

\* Place, for a name.  With the pool exhausted it answers 409.
PlaceName(c) ==
  LET n == req[c].addr.name
  IN /\ pc[c] = "claim" /\ Named(c)
     /\ Claims!ClaimOrGet(n)
     /\ IF claims'[n] = NoKey
        THEN Done(c)
        ELSE /\ target' = [target EXCEPT ![c] = claims'[n]]
             /\ Goto(c, "run")
             /\ UNCHANGED <<req, moved, carry, was>>
     /\ UNCHANGED <<engineVars, freed>>

\* The slot the capabilities came from is gone.
PlaceNameFails(c) ==
  /\ pc[c] = "claim" /\ Named(c)
  /\ ~settling /\ caps = NoCaps
  /\ Done(c)
  /\ UNCHANGED <<claimVars, engineVars, freed>>

\* Place, for a direct address; without the slot it marks nothing.
PlaceDirect(c) ==
  LET l == req[c].addr.n
      n == owners[l]
  IN /\ pc[c] = "claim" /\ ~Named(c)
     /\ \/ Claims!MarkDirectDisplacing(l)
        \/ ~present /\ UNCHANGED claimVars
     /\ target' = [target EXCEPT ![c] = l]
     /\ IF n \in Names /\ claims'[n] # NoKey
        THEN /\ moved' = [moved EXCEPT ![c] = claims'[n]]
             /\ was' = [was EXCEPT ![c] = record[l]]
             /\ Goto(c, "status")
        ELSE Goto(c, "run") /\ UNCHANGED <<moved, was>>
     /\ UNCHANGED <<engineVars, req, carry, freed>>

\* Fault: the status is read on the key the claim moved to.
ReadStatusOfNewKey(c) ==
  /\ pc[c] = "status"
  /\ carry' = [carry EXCEPT ![c] = record[moved[c]]]
  /\ Goto(c, "run")
  /\ UNCHANGED <<claimVars, engineVars, req, target, moved, was, freed>>

\* writeKey: the displaced key's last request, before it is overwritten.
ReadStatus(c) ==
  /\ pc[c] = "status"
  /\ carry' = [carry EXCEPT ![c] = record[target[c]]]
  /\ Goto(c, "run")
  /\ UNCHANGED <<claimVars, engineVars, req, target, moved, was, freed>>

\* writeKey: run(target, now); the replay follows even when it failed.
RunWrite(c) ==
  /\ pc[c] = "run"
  /\ Apply(target[c], req[c])
  /\ IF carry[c] = None
     THEN Done(c)
     ELSE Goto(c, "carry") /\ UNCHANGED <<req, target, moved, carry, was>>
  /\ UNCHANGED freed

Replay(c) ==
  /\ pc[c] = "carry"
  /\ Apply(moved[c], carry[c])
  /\ Done(c)
  /\ UNCHANGED freed

\* releaseKey: the read-only Lookup; an unknown name is a 404.
Lookup(c) ==
  /\ pc[c] = "lookup"
  /\ ~settling
  /\ LET l == IF ~Named(c) THEN req[c].addr.n
              ELSE claims[req[c].addr.name]
     IN IF ~present \/ l = NoKey \/ (~Named(c) /\ caps = NoCaps)
        THEN Done(c)
        ELSE /\ target' = [target EXCEPT ![c] = l]
             /\ Goto(c, "clear")
             /\ UNCHANGED <<req, moved, carry, was>>
  /\ UNCHANGED <<claimVars, engineVars, freed>>

\* releaseKey: SetColor(black), or ClearIfOwner.  When the owner differs, or
\* the blank fails, the claim is kept.
Clear(c) ==
  /\ pc[c] = "clear"
  /\ \/ /\ MayClear(target[c], req[c].tag)
        /\ Blank(target[c])
        /\ IF present /\ Named(c)
           THEN Goto(c, "release") /\ UNCHANGED <<req, target, moved, carry, was>>
           ELSE Done(c)
     \/ /\ ~MayClear(target[c], req[c].tag)
        /\ Done(c)
        /\ UNCHANGED <<claimVars, engineVars>>
  /\ UNCHANGED freed

\* releaseKey: ReleaseClaim, whatever happened since the blank.
Release(c) ==
  LET n == req[c].addr.name
  IN /\ pc[c] = "release"
     /\ ~settling
     /\ \/ Claims!ReleaseClaim(n)
        \/ claims[n] = NoKey /\ UNCHANGED claimVars
     /\ Done(c)
     /\ UNCHANGED <<engineVars, freed>>

(***************************************************************************)
(* The idle sweep, the clock and the slot.                                 *)
(***************************************************************************)
BetweenRequests == SweepOverlaps \/ InFlight = {}

\* Fault: no callback was given to the sweep.
SweepBlanksNothing ==
  /\ freed = {}
  /\ BetweenRequests
  /\ Claims!SweepIdleClaims
  /\ UNCHANGED <<freed, engineVars, clientVars>>

Sweep ==
  /\ freed = {}
  /\ BetweenRequests
  /\ Claims!SweepIdleClaims
  /\ freed' = {claims[n] : n \in Claims!Expired}
  /\ UNCHANGED <<engineVars, clientVars>>

\* The callback: onRelease, once per freed key, after r.mu is released.
SweepBlank(l) ==
  /\ l \in freed
  /\ Blank(l)
  /\ freed' = freed \ {l}
  /\ UNCHANGED clientVars

\* A request takes far less than the idle timeout (8h by default).
Age ==
  /\ InFlight = {}
  /\ Claims!Tick
  /\ UNCHANGED <<engineVars, clientVars, freed>>

SlotAdded ==
  /\ Claims!SlotAdded
  /\ UNCHANGED <<engineVars, clientVars, freed>>

\* Reconcile's eviction with the Forget that follows it in the poll loop: no
\* write reaches the slot in between.  The engine is told nothing.
SlotEvicted ==
  /\ MayEvict
  /\ Claims!SlotEvicted
  /\ shown' = [l \in LED |-> Dark]
  /\ waiting' = [l \in LED |-> Dark]
  /\ UNCHANGED <<running, record, clientVars, freed>>

SetCaps ==
  /\ Claims!SetCaps(Board)
  /\ UNCHANGED <<engineVars, clientVars, freed>>

\* SetCaps applies the pending write of the list's head to the frame buffer.
ResolvePending ==
  /\ Claims!ResolvePending
  /\ LET l == Head(pending).n
     IN /\ shown' = [shown EXCEPT ![l] = IF l \in LEDsOf(caps) THEN waiting[l] ELSE @]
        /\ waiting' = [waiting EXCEPT ![l] = Dark]
  /\ UNCHANGED <<running, record, clientVars, freed>>

SetCapsDone ==
  /\ Claims!SetCapsDone
  /\ UNCHANGED <<engineVars, clientVars, freed>>

Handler(c) ==
  \/ GetCaps(c) \/ GetCapsFails(c)
  \/ PlaceName(c) \/ PlaceNameFails(c) \/ PlaceDirect(c)
  \/ ReadStatus(c) \/ RunWrite(c) \/ Replay(c)
  \/ Lookup(c) \/ Clear(c) \/ Release(c)

Next ==
  \/ \E c \in Clients : Start(c) \/ Handler(c)
  \/ \E l \in LED : TickFrame(l) \/ TickEnds(l) \/ TickFails(l)
  \/ Sweep \/ \E l \in LED : SweepBlank(l)
  \/ Age
  \/ SlotAdded \/ SlotEvicted \/ SetCaps \/ ResolvePending \/ SetCapsDone

Spec == Init /\ [][Next]_vars

\* A started handler runs on, the sweep's ticker fires and its callbacks
\* return (writes never block), and time passes.  Nobody must make a request.
Fairness ==
  /\ \A c \in Clients : WF_vars(Handler(c))
  /\ WF_vars(Sweep) /\ \A l \in LED : WF_vars(SweepBlank(l))
  /\ WF_vars(Age)
  /\ WF_vars(ResolvePending) /\ WF_vars(SetCapsDone)

FairSpec == Spec /\ Fairness
------------------------------------------------------------------------------
(***************************************************************************)
(* Properties.                                                             *)
(***************************************************************************)
Quiet == InFlight = {} /\ freed = {} /\ ~settling

\* Whatever is on a key or will be painted there was recorded, and the record
\* is of the request that did it.  ClearIfOwner takes a missing record for
\* "nobody's": this is what makes that safe while the daemon runs.
LitKeysAreRecorded ==
  \A l \in LED : \A p \in {shown[l], running[l], waiting[l]} \ {Dark, None} : record[l] = p

\* However requests interleave, a DELETE with ?owner=TAG darkens no key whose
\* last write carried another tag, or none.
TaggedClearSparesOthers ==
  [][\A c \in Clients, l \in LED :
       (/\ pc[c] = "clear" /\ pc'[c] # "clear"
        /\ req[c].tag # NoTag
        /\ shown[l] # Dark /\ shown'[l] = Dark)
       => shown[l].tag = req[c].tag]_vars

\* Under the displace policy a direct write costs a name its claim only when
\* the pool has no free key left, however requests, the sweep, evictions and
\* the arrival of capabilities interleave.  SetCaps resolves waiting writes
\* without the policy: what makes that safe is that no handler writes before
\* it has resolved its name, so only addresses wait, and no claim is there.
DisplaceLosesNothing ==
  [][\A n \in Names :
       /\ layout.displace
       /\ claims[n] # NoKey /\ claims'[n] = NoKey /\ owners'[claims[n]] = Direct
       => Claims!FreePool = {}]_vars

\* Requests served one at a time, the ticks falling anywhere and the sweep
\* between two requests: once things are quiet, what a key shows was asked for by whoever owns it,
\* under that name or directly at that key, even after displacements; and a
\* key nobody owns is dark with nothing running on it.
KeysShowTheirOwners ==
  Quiet => \A l \in LED :
    record[l] # None =>
      \/ owners[l] \in Names /\ record[l].addr = NameAddr(owners[l])
      \/ owners[l] = Direct /\ record[l].addr = LedAddr(l)

\* Requests served one at a time: a direct write that displaces a name's
\* claim leaves that name's last request on the key the claim moved to.
DisplacedRequestFollows ==
  [][\A c \in Clients :
       pc[c] \in {"run", "carry"} /\ pc'[c] = "idle" /\ was[c] # None
         => record'[moved[c]] = was[c]]_vars

\* Requests served one at a time: once clients fall silent, every key that
\* was not taken by a direct write ends up dark, whatever ran on it.
AbandonedKeysGoDark ==
  <>[](InFlight = {} /\ present /\ caps # NoCaps)
    => <>[](\A l \in LED : owners[l] # Direct => shown[l] = Dark /\ running[l] = None)

\* What main's comment says of the sweep's callback: a key an idle sweep frees
\* is blanked the same way an explicit DELETE does.  And what releaseKey's
\* says: freeing a claim leaves no orphaned, unowned key that still holds a
\* color or an effect.
NoOrphanedKey ==
  Quiet => \A l \in LED : shown[l] # Dark \/ running[l] # None => owners[l] # Unowned
==============================================================================

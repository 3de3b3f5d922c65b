------------------------------ MODULE KeyClaims ------------------------------
(***************************************************************************)
(* The named-key claim model of one device's slot in the Registry:         *)
(* internal/dispatcher/claims.go, place.go and the parts of registry.go    *)
(* that keep, fill and discard the same slot.                              *)
(*                                                                         *)
(* Every operation runs under the registry mutex r.mu and is one step,     *)
(* save SetCaps, whose loop over the pending writes is one step per write: *)
(* settling says that SetCaps holds r.mu, and no other operation runs      *)
(* meanwhile.                                                              *)
(*                                                                         *)
(* Time: idle[n] is the age of the claim's lastWrite, in sweep ticks,      *)
(* kept no further than the first age SweepIdleClaims releases.            *)
(***************************************************************************)
EXTENDS KeyMatrix

CONSTANTS
  Names,        \* the names clients write under
  LED,          \* every LED index a board may report (uint16 in the code)
  Matrices,     \* the capabilities a board of this identity may report
  Layouts,      \* the layouts a configuration may give the device
  MaxAge,       \* claims.idle_timeout, in sweep ticks
  PendAddrs,    \* the addresses written while the capabilities are unknown
  Unowned, Direct, NoKey, NoCaps

ASSUME OwnersDistinct == /\ Unowned \notin Names /\ Direct \notin Names
                         /\ Unowned # Direct
ASSUME NoKeyIsNoLED   == NoKey \notin LED
ASSUME NoCapsDistinct == NoCaps \notin Matrices
ASSUME MaxAgeIsNat    == MaxAge \in Nat
ASSUME MatricesFit    == \A m \in Matrices : m.count \in Nat /\ 0 .. m.count - 1 \subseteq LED
ASSUME MatricesValid  == \A m \in Matrices :
                           ValidCaps(m) /\ \A l \in LEDsOf(m) : m.pos[l] \in Nat \X Nat
ASSUME LayoutsValid   == \A lay \in Layouts :
                           ValidLayout(lay) /\ lay.tabs \in Seq(Nat) /\ lay.pool \in Seq(Nat)
ASSUME PendAddrsForm  == \A a \in PendAddrs : a.kind = "name" => a.name \in Names

VARIABLES
  layout,   \* r.layouts[device]: set before the first enumeration, then fixed
  present,  \* whether the device has a slot
  caps,     \* slot.caps, NoCaps while never fetched
  claims,   \* slot.claims: the LED index a name holds, or NoKey
  idle,     \* slot.claims: the age of the claim's lastWrite
  owners,   \* slot.owners: a name, Direct, or Unowned when absent
  pending,  \* slot.pending: addresses written before caps, in arrival order
  settling  \* SetCaps is resolving pending, with r.mu held

vars == <<layout, present, caps, claims, idle, owners, pending, settling>>

NoClaims == [n \in Names |-> NoKey]
NoOwners == [l \in LED |-> Unowned]
Fresh    == [n \in Names |-> 0]

Init ==
  /\ layout \in Layouts
  /\ present = FALSE
  /\ caps = NoCaps
  /\ claims = NoClaims
  /\ idle = Fresh
  /\ owners = NoOwners
  /\ pending = <<>>
  /\ settling = FALSE

(***************************************************************************)
(* Helpers, under r.mu.                                                    *)
(*                                                                         *)
(* A definition under "Fault:" is no part of the specification: it is a    *)
(* plausible slip in the definition after it, kept to show that a property *)
(* below notices it.                                                       *)
(***************************************************************************)
FreePool == {l \in Pool(layout, caps) : owners[l] = Unowned}

\* Fault: the zero LED index of a failed search used as a key.
nextUnclaimedOrZero ==
  LET found == {l \in FreePool : \A m \in FreePool \ {l} : PoolBefore(layout, caps, l, m)}
  IN IF found = {} THEN {0} ELSE found

\* Fault: only names count as owners, so a direct key looks free.
nextUnnamed ==
  LET unnamed == {l \in Pool(layout, caps) : owners[l] \notin Names}
  IN {l \in unnamed : \A m \in unnamed \ {l} : PoolBefore(layout, caps, l, m)}

\* Fault: the search gives up at the first owned key.
nextIfFirst ==
  {l \in FreePool : \A m \in Pool(layout, caps) \ {l} : PoolBefore(layout, caps, l, m)}

nextUnclaimed ==
  {l \in FreePool : \A m \in FreePool \ {l} : PoolBefore(layout, caps, l, m)}

Resolved(a) == Resolve(a, caps)

\* Fault: a write under a name puts its clock back by a tick.
ClaimOrGetPostponed(n) ==
  \/ /\ claims[n] # NoKey
     /\ idle' = [idle EXCEPT ![n] = @ - 1]
     /\ UNCHANGED <<claims, owners>>
  \/ \E l \in nextUnclaimed :
       /\ claims[n] = NoKey
       /\ claims' = [claims EXCEPT ![n] = l]
       /\ idle' = [idle EXCEPT ![n] = 0]
       /\ owners' = [owners EXCEPT ![l] = n]
  \/ /\ claims[n] = NoKey
     /\ nextUnclaimed = {}
     /\ UNCHANGED <<claims, idle, owners>>

\* claimOrGetLocked: a name keeps its key and its clock restarts; a new name
\* is given the first free key of the pool; with none left nothing changes.
ClaimOrGetLocked(n) ==
  \/ /\ claims[n] # NoKey
     /\ idle' = [idle EXCEPT ![n] = 0]
     /\ UNCHANGED <<claims, owners>>
  \/ \E l \in nextUnclaimed :
       /\ claims[n] = NoKey
       /\ claims' = [claims EXCEPT ![n] = l]
       /\ idle' = [idle EXCEPT ![n] = 0]
       /\ owners' = [owners EXCEPT ![l] = n]
  \/ /\ claims[n] = NoKey
     /\ nextUnclaimed = {}
     /\ UNCHANGED <<claims, idle, owners>>

\* Fault: the claim of the key's former owner is not deleted.
MarkOwnerOnly(l) ==
  /\ owners' = [owners EXCEPT ![l] = Direct]
  /\ UNCHANGED <<claims, idle>>

\* markDirectLocked: the key is direct-owned, a claim on it is gone.
MarkDirectLocked(l) ==
  /\ claims' = [n \in Names |-> IF owners[l] = n THEN NoKey ELSE claims[n]]
  /\ idle' = [n \in Names |-> IF owners[l] = n THEN 0 ELSE idle[n]]
  /\ owners' = [owners EXCEPT ![l] = Direct]

\* Fault: the claims go, their keys stay owned.
ReleaseClaimsOnly(S) ==
  /\ claims' = [n \in Names |-> IF n \in S THEN NoKey ELSE claims[n]]
  /\ idle' = [n \in Names |-> IF n \in S THEN 0 ELSE idle[n]]
  /\ UNCHANGED owners

\* The claims of a set of names are released, and the keys they hold.
ReleaseAll(S) ==
  /\ claims' = [n \in Names |-> IF n \in S THEN NoKey ELSE claims[n]]
  /\ idle' = [n \in Names |-> IF n \in S THEN 0 ELSE idle[n]]
  /\ owners' = [l \in LED |-> IF \E n \in S : claims[n] = l THEN Unowned ELSE owners[l]]

(***************************************************************************)
(* Operations on a slot whose capabilities are known.                      *)
(***************************************************************************)
Ready == present /\ ~settling /\ caps # NoCaps

ClaimOrGet(n) ==
  /\ Ready
  /\ ClaimOrGetLocked(n)
  /\ UNCHANGED <<layout, present, caps, pending, settling>>

\* Fault: the collision policy is not looked at.
MoveClaimAlways(l, to) ==
  /\ owners[l] \in Names
  /\ to \in nextUnclaimed
  /\ claims' = [claims EXCEPT ![owners[l]] = to]
  /\ owners' = [owners EXCEPT ![to] = owners[l], ![l] = Direct]
  /\ UNCHANGED idle

\* With displace, the claim on l moves to the next unclaimed pool key.
MoveClaim(l, to) ==
  /\ layout.displace
  /\ owners[l] \in Names
  /\ to \in nextUnclaimed
  /\ claims' = [claims EXCEPT ![owners[l]] = to]
  /\ owners' = [owners EXCEPT ![to] = owners[l], ![l] = Direct]
  /\ UNCHANGED idle

\* Fault: the claim is dropped under every policy.
MarkDirectOnly(l) ==
  /\ present /\ ~settling
  /\ MarkDirectLocked(l)
  /\ UNCHANGED <<layout, present, caps, pending, settling>>

\* l was resolved before r.mu was taken, against capabilities the slot may
\* have lost since (evicted and added again), so any LED may come.
MarkDirectDisplacing(l) ==
  /\ present /\ ~settling
  /\ \/ \E to \in LED : MoveClaim(l, to)
     \/ /\ owners[l] \in Names => ~layout.displace \/ nextUnclaimed = {}
        /\ MarkDirectLocked(l)
  /\ UNCHANGED <<layout, present, caps, pending, settling>>

ReleaseClaim(n) ==
  /\ Ready
  /\ claims[n] # NoKey
  /\ ReleaseAll({n})
  /\ UNCHANGED <<layout, present, caps, pending, settling>>

\* Fault: a claim on LED 0 is taken for no claim.
ExpiredPastZero == {n \in Names : claims[n] \notin {NoKey, 0} /\ idle[n] > MaxAge}

Expired == {n \in Names : claims[n] # NoKey /\ idle[n] > MaxAge}

SweepIdleClaims ==
  /\ present /\ ~settling
  /\ Expired # {}
  /\ ReleaseAll(Expired)
  /\ UNCHANGED <<layout, present, caps, pending, settling>>

\* The clock advances: no operation of the code.
Tick ==
  /\ idle' = [n \in Names |-> IF claims[n] # NoKey /\ idle[n] <= MaxAge
                              THEN idle[n] + 1 ELSE idle[n]]
  /\ UNCHANGED <<layout, present, caps, claims, owners, pending, settling>>

(***************************************************************************)
(* The slot's own life: Reconcile adds and evicts it, writes pend on it    *)
(* until SetCaps stores its capabilities.                                  *)
(***************************************************************************)
SlotAdded ==
  /\ ~present
  /\ present' = TRUE
  /\ UNCHANGED <<layout, caps, claims, idle, owners, pending, settling>>

SlotEvicted ==
  /\ present /\ ~settling
  /\ present' = FALSE
  /\ caps' = NoCaps
  /\ claims' = NoClaims
  /\ idle' = Fresh
  /\ owners' = NoOwners
  /\ pending' = <<>>
  /\ UNCHANGED <<layout, settling>>

\* CapsOrPend: a later write to the same literal address replaces the
\* earlier one and moves to the end.
CapsOrPend(a) ==
  /\ present /\ ~settling
  /\ caps = NoCaps
  /\ \/ /\ \A i \in DOMAIN pending : pending[i] # a
        /\ pending' = Append(pending, a)
     \/ \E i \in DOMAIN pending :
          /\ pending[i] = a
          /\ pending' = Append(SubSeq(pending, 1, i - 1)
                                 \o SubSeq(pending, i + 1, Len(pending)), a)
  /\ UNCHANGED <<layout, present, caps, claims, idle, owners, settling>>

SetCaps(c) ==
  /\ present /\ ~settling
  /\ caps = NoCaps      \* fetchCapabilities re-checks on its only goroutine
  /\ caps' = c
  /\ settling' = TRUE
  /\ UNCHANGED <<layout, present, claims, idle, owners, pending>>

\* One round of SetCaps's loop.
ResolvePending ==
  /\ settling
  /\ pending # <<>>
  /\ LET a == Head(pending)
     IN IF a.kind = "name"
        THEN ClaimOrGetLocked(a.name)
        ELSE \/ \E l \in Resolved(a) : MarkDirectLocked(l)
             \/ Resolved(a) = {} /\ UNCHANGED <<claims, idle, owners>>
  /\ pending' = Tail(pending)
  /\ UNCHANGED <<layout, present, caps, settling>>

SetCapsDone ==
  /\ settling
  /\ pending = <<>>
  /\ settling' = FALSE
  /\ UNCHANGED <<layout, present, caps, claims, idle, owners, pending>>

Next ==
  \/ \E n \in Names : ClaimOrGet(n) \/ ReleaseClaim(n)
  \/ \E l \in LED : MarkDirectDisplacing(l)
  \/ SweepIdleClaims
  \/ Tick
  \/ SlotAdded \/ SlotEvicted
  \/ \E a \in PendAddrs : CapsOrPend(a)
  \/ \E c \in Matrices : SetCaps(c)
  \/ ResolvePending \/ SetCapsDone

\* RunClaimSweep's ticker keeps firing; nothing else is promised to happen.
\* SetCaps's loop runs to its end: it holds r.mu and calls nothing that waits.
Fairness == WF_vars(SweepIdleClaims) /\ WF_vars(ResolvePending) /\ WF_vars(SetCapsDone)

Spec == Init /\ [][Next]_vars

FairSpec == Spec /\ Fairness
------------------------------------------------------------------------------
(***************************************************************************)
(* Properties.                                                             *)
(***************************************************************************)

\* Every variable holds a value of its kind.
TypeOK ==
  /\ layout \in Layouts
  /\ present \in BOOLEAN
  /\ caps \in Matrices \cup {NoCaps}
  /\ claims \in [Names -> LED \cup {NoKey}]
  /\ idle \in [Names -> 0 .. MaxAge + 1]
  /\ owners \in [LED -> Names \cup {Unowned, Direct}]
  /\ pending \in Seq(PendAddrs)
  /\ settling \in BOOLEAN

\* The slot's two maps agree: a name's claim points at a key exactly when the
\* key's owner is that name ("Kept in sync with each other under r.mu").  So
\* a key has one owner, a name one key, and no release frees another's key.
MapsAgree == \A n \in Names, l \in LED : claims[n] = l <=> owners[l] = n

\* A name only ever sits on a key of the pool: never on a tab slot, on the
\* row reserved for direct writes, on an underglow LED or off the matrix,
\* whichever way it got there (claimed, displaced, pending).
ClaimsInPool ==
  \A n \in Names : claims[n] # NoKey => caps # NoCaps /\ claims[n] \in Pool(layout, caps)

\* Writes wait on a slot only while its capabilities are unknown or being
\* stored: none is left behind once they are settled, or after an eviction for
\* the next board of that name.
WaitingOnlyForCaps ==
  /\ caps # NoCaps /\ ~settling => pending = <<>>
  /\ ~present => caps = NoCaps /\ pending = <<>> /\ owners = NoOwners
  /\ settling => present /\ caps # NoCaps

\* A key once written directly stays direct as long as the slot lives:
\* neither a release, nor a sweep, nor a displacement gives it back.
DirectStays ==
  [][present' => \A l \in LED : owners[l] = Direct => owners'[l] = Direct]_vars

\* A claim changes key only because a direct write took its key, and then to
\* a key that nobody owned, under the displace policy, with its idle clock
\* not restarted: a displaced client is never given another client's key.
ClaimsMoveOnlyWhenDisplaced ==
  [][\A n \in Names :
       claims[n] # NoKey /\ claims'[n] \notin {NoKey, claims[n]} =>
         /\ layout.displace
         /\ owners'[claims[n]] = Direct
         /\ owners[claims'[n]] = Unowned
         /\ idle'[n] = idle[n]]_vars

\* The search for a key finds exactly one whenever the pool has a free one, so
\* a claim is refused (409) only when every key of the pool is owned, and the
\* key a name gets does not depend on the order a map is walked in.
RefusedOnlyWhenFull ==
  caps # NoCaps =>
    \/ \A l \in Pool(layout, caps) : owners[l] # Unowned
    \/ \E l \in LED : nextUnclaimed = {l}

\* A claim nobody writes under ends: once past the idle timeout it is swept,
\* or written again, or gone with its slot.
IdleClaimsEnd ==
  \A n \in Names : (claims[n] # NoKey /\ idle[n] > MaxAge)
                      ~> ~(claims[n] # NoKey /\ idle[n] > MaxAge)

\* The two maps of the slot implement the one lease table clients rely on.
Leases == INSTANCE KeyLeases WITH Keys <- LED, Free <- Unowned, holder <- owners
ImplementsLeases == Leases!Spec
==============================================================================

-------------------------- MODULE KeyServiceProofs ---------------------------
(***************************************************************************)
(* Proofs about KeyService for every set of names, LEDs, requests and      *)
(* clients.                                                                *)
(*                                                                         *)
(* First, for any number of requests at a time, the sweep anywhere and     *)
(* evictions: every step is a step of KeyClaims, whose invariant carries   *)
(* over, and what a key shows is on record (IInv).  Then, for requests     *)
(* served one at a time: what is on record for a key was asked for by its  *)
(* owner (Serving).                                                        *)
(***************************************************************************)
EXTENDS KeyService, SequenceTheorems, FiniteSetTheorems, TLAPS

(***************************************************************************)
(* The claim tables of the service are those of KeyClaims, and what is     *)
(* proved of KeyClaims holds of them.  ClaimProofs names the theorems; its *)
(* definitions are those of Claims once more.                              *)
(***************************************************************************)
ClaimProofs == INSTANCE KeyClaimsProofs WITH
                 Matrices <- {Board}, PendAddrs <- {LedAddr(l) : l \in LED}

\* This board meets what KeyClaims assumes of every board.
LEMMA BoardMeetsAssumptions ==
  /\ ClaimProofs!OwnersDistinct /\ ClaimProofs!NoKeyIsNoLED
  /\ ClaimProofs!NoCapsDistinct /\ ClaimProofs!MaxAgeIsNat
  /\ ClaimProofs!MatricesFit /\ ClaimProofs!MatricesValid
  /\ ClaimProofs!LayoutsValid /\ ClaimProofs!PendAddrsForm
<1>1. /\ ClaimProofs!OwnersDistinct /\ ClaimProofs!NoKeyIsNoLED
      /\ ClaimProofs!NoCapsDistinct /\ ClaimProofs!MaxAgeIsNat
  BY OwnersDistinct, NoKeyIsNoLED, NoCapsIsNoBoard, MaxAgeIsNat
     DEF ClaimProofs!OwnersDistinct, ClaimProofs!NoKeyIsNoLED,
         ClaimProofs!NoCapsDistinct, ClaimProofs!MaxAgeIsNat
<1>2. ClaimProofs!MatricesFit /\ ClaimProofs!MatricesValid
  BY BoardValid
     DEF ClaimProofs!MatricesFit, ClaimProofs!MatricesValid,
         ClaimProofs!LEDsOf, ClaimProofs!ValidCaps, ClaimProofs!Keyed, ClaimProofs!NoKeyRowCol,
         LEDsOf, ValidCaps, Keyed, NoKeyRowCol
<1>3. ClaimProofs!LayoutsValid
  BY LayoutsValid DEF ClaimProofs!LayoutsValid, ClaimProofs!ValidLayout, ValidLayout
<1>4. ClaimProofs!PendAddrsForm
  BY DEF ClaimProofs!PendAddrsForm, LedAddr
<1> QED BY <1>1, <1>2, <1>3, <1>4

LEMMA SameOrder ==
  ASSUME NEW lay, NEW c
  PROVE  /\ Claims!Pool(lay, c) = ClaimProofs!Pool(lay, c)
         /\ \A l, m : Claims!PoolBefore(lay, c, l, m) = ClaimProofs!PoolBefore(lay, c, l, m)
         /\ \A a : Claims!Resolve(a, c) = ClaimProofs!Resolve(a, c)
<1>1. \A S : Claims!Cardinality(S) = ClaimProofs!Cardinality(S)
  BY DEF Claims!Cardinality, ClaimProofs!Cardinality
<1>2. Claims!LEDsOf(c) = ClaimProofs!LEDsOf(c) /\ Claims!Keyed(c) = ClaimProofs!Keyed(c)
  BY DEF Claims!LEDsOf, ClaimProofs!LEDsOf, Claims!Keyed, ClaimProofs!Keyed,
         Claims!NoKeyRowCol, ClaimProofs!NoKeyRowCol
<1>3. \A l, m : Claims!ReadsBefore(c, l, m) = ClaimProofs!ReadsBefore(c, l, m)
  BY DEF Claims!ReadsBefore, ClaimProofs!ReadsBefore
<1>4. \A l : Claims!IdxOf(c, l) = ClaimProofs!IdxOf(c, l)
  BY <1>1, <1>2, <1>3 DEF Claims!IdxOf, ClaimProofs!IdxOf
<1>5. \A a : Claims!Resolve(a, c) = ClaimProofs!Resolve(a, c)
  BY <1>2, <1>4 DEF Claims!Resolve, ClaimProofs!Resolve
<1>6. \A i : Claims!IdxAddr(i) = ClaimProofs!IdxAddr(i)
  BY DEF Claims!IdxAddr, ClaimProofs!IdxAddr
<1>7. \A s : Claims!LedsOfIdx(c, s) = ClaimProofs!LedsOfIdx(c, s)
  BY <1>5, <1>6 DEF Claims!LedsOfIdx, ClaimProofs!LedsOfIdx
<1>8. Claims!Pool(lay, c) = ClaimProofs!Pool(lay, c)
  BY <1>2, <1>7 DEF Claims!Pool, ClaimProofs!Pool, Claims!NoKeyRowCol, ClaimProofs!NoKeyRowCol
<1>9. \A l, m : Claims!PoolBefore(lay, c, l, m) = ClaimProofs!PoolBefore(lay, c, l, m)
  BY <1>3, <1>5, <1>6 DEF Claims!PoolBefore, ClaimProofs!PoolBefore
<1> QED BY <1>5, <1>8, <1>9

LEMMA SameSearch == Claims!nextUnclaimed = ClaimProofs!nextUnclaimed
BY SameOrder DEF Claims!nextUnclaimed, ClaimProofs!nextUnclaimed, Claims!FreePool, ClaimProofs!FreePool

LEMMA SameClaimOrGet ==
  ASSUME NEW n, Claims!ClaimOrGet(n) PROVE ClaimProofs!ClaimOrGet(n)
BY SameSearch DEF Claims!ClaimOrGet, ClaimProofs!ClaimOrGet, Claims!Ready, ClaimProofs!Ready,
                  Claims!ClaimOrGetLocked, ClaimProofs!ClaimOrGetLocked

LEMMA SameMark ==
  ASSUME NEW l, Claims!MarkDirectDisplacing(l) PROVE ClaimProofs!MarkDirectDisplacing(l)
BY SameSearch DEF Claims!MarkDirectDisplacing, ClaimProofs!MarkDirectDisplacing,
                  Claims!MoveClaim, ClaimProofs!MoveClaim,
                  Claims!MarkDirectLocked, ClaimProofs!MarkDirectLocked

LEMMA SameRelease ==
  ASSUME NEW n, Claims!ReleaseClaim(n) PROVE ClaimProofs!ReleaseClaim(n)
BY DEF Claims!ReleaseClaim, ClaimProofs!ReleaseClaim, Claims!Ready, ClaimProofs!Ready,
       Claims!ReleaseAll, ClaimProofs!ReleaseAll

LEMMA SameSweep == Claims!SweepIdleClaims => ClaimProofs!SweepIdleClaims
BY DEF Claims!SweepIdleClaims, ClaimProofs!SweepIdleClaims, Claims!Expired, ClaimProofs!Expired,
       Claims!ReleaseAll, ClaimProofs!ReleaseAll

LEMMA SameResolvePending == Claims!ResolvePending => ClaimProofs!ResolvePending
<1>1. \A a : Claims!Resolved(a) = ClaimProofs!Resolved(a)
  BY SameOrder DEF Claims!Resolved, ClaimProofs!Resolved
<1>2. \A n : Claims!ClaimOrGetLocked(n) <=> ClaimProofs!ClaimOrGetLocked(n)
  BY SameSearch DEF Claims!ClaimOrGetLocked, ClaimProofs!ClaimOrGetLocked
<1>3. \A l : Claims!MarkDirectLocked(l) <=> ClaimProofs!MarkDirectLocked(l)
  BY DEF Claims!MarkDirectLocked, ClaimProofs!MarkDirectLocked
<1> QED BY <1>1, <1>2, <1>3 DEF Claims!ResolvePending, ClaimProofs!ResolvePending

LEMMA SameSlotSteps ==
  /\ Claims!Tick => ClaimProofs!Tick
  /\ Claims!SlotAdded => ClaimProofs!SlotAdded
  /\ Claims!SlotEvicted => ClaimProofs!SlotEvicted
  /\ \A a : Claims!CapsOrPend(a) => ClaimProofs!CapsOrPend(a)
  /\ \A c : Claims!SetCaps(c) => ClaimProofs!SetCaps(c)
  /\ Claims!SetCapsDone => ClaimProofs!SetCapsDone
BY DEF Claims!Tick, ClaimProofs!Tick, Claims!SlotAdded, ClaimProofs!SlotAdded,
       Claims!SlotEvicted, ClaimProofs!SlotEvicted, Claims!NoClaims, ClaimProofs!NoClaims,
       Claims!NoOwners, ClaimProofs!NoOwners, Claims!Fresh, ClaimProofs!Fresh,
       Claims!CapsOrPend, ClaimProofs!CapsOrPend, Claims!SetCaps, ClaimProofs!SetCaps,
       Claims!SetCapsDone, ClaimProofs!SetCapsDone

\* What holds of one slot's claim tables holds of the service's.
ClaimsOK == ClaimProofs!IInv

LEMMA ClaimsStart == Claims!Init => ClaimsOK
<1>1. Claims!Init => ClaimProofs!Init
  BY DEF Claims!Init, ClaimProofs!Init, Claims!NoClaims, ClaimProofs!NoClaims,
         Claims!NoOwners, ClaimProofs!NoOwners, Claims!Fresh, ClaimProofs!Fresh
<1> QED BY <1>1, ClaimProofs!InitIInv, BoardMeetsAssumptions DEF ClaimsOK

LEMMA SameNext == [Claims!Next]_claimVars => [ClaimProofs!Next]_ClaimProofs!vars
BY SameClaimOrGet, SameMark, SameRelease, SameSweep, SameResolvePending, SameSlotSteps
   DEF Claims!Next, ClaimProofs!Next, claimVars, ClaimProofs!vars,
       LedAddr, ClaimProofs!LedAddr

LEMMA ClaimsStep == ClaimsOK /\ [Claims!Next]_claimVars => ClaimsOK'
BY SameNext, ClaimProofs!StepIInv, BoardMeetsAssumptions DEF ClaimsOK

\* The facts about the claim tables that the service relies on.
LEMMA ClaimFacts ==
  ASSUME ClaimsOK
  PROVE  /\ layout \in Layouts
         /\ present \in BOOLEAN /\ settling \in BOOLEAN
         /\ caps \in {Board, NoCaps}
         /\ claims \in [Names -> LED \cup {NoKey}]
         /\ owners \in [LED -> Names \cup {Unowned, Direct}]
         /\ pending \in Seq({LedAddr(l) : l \in LED})
         /\ \A n \in Names, l \in LED : claims[n] = l <=> owners[l] = n
         /\ \A n \in Names : claims[n] # NoKey => caps = Board
         /\ caps # NoCaps /\ ~settling => pending = <<>>
         /\ ~present => caps = NoCaps /\ pending = <<>> /\ \A l \in LED : owners[l] = Unowned
         /\ settling => present /\ caps # NoCaps
BY DEF ClaimsOK, ClaimProofs!IInv, ClaimProofs!TypeOK, ClaimProofs!MapsAgree, ClaimProofs!ClaimsInPool,
       ClaimProofs!WaitingOnlyForCaps, ClaimProofs!NoOwners

\* A key found by the search is an unowned LED.
LEMMA SearchFindsFree ==
  ASSUME ClaimsOK, caps = Board, NEW l \in Claims!nextUnclaimed
  PROVE  l \in LED /\ owners[l] = Unowned
<1>1. l \in Claims!Pool(layout, caps) /\ owners[l] = Unowned
  BY DEF Claims!nextUnclaimed, Claims!FreePool
<1>2. \A a : Claims!Resolve(a, caps) \subseteq Claims!LEDsOf(caps)
  BY DEF Claims!Resolve
<1>3. Claims!Pool(layout, caps) \subseteq Claims!LEDsOf(caps)
  BY <1>2 DEF Claims!Pool, Claims!LedsOfIdx
<1>4. Claims!LEDsOf(caps) = LEDsOf(Board)
  BY DEF Claims!LEDsOf, LEDsOf
<1> QED BY <1>1, <1>3, <1>4, BoardValid

------------------------------------------------------------------------------
(***************************************************************************)
(* The invariant.  Painted: colors wait only where an address does, and    *)
(* nothing is shown before the capabilities are known.  Recorded: the      *)
(* types of the engine's maps and LitKeysAreRecorded.  Handling: a         *)
(* handler's locals are set where it uses them.                            *)
(***************************************************************************)
Labels == {"idle", "place", "claim", "status", "run", "carry", "lookup", "clear", "release"}

Painted ==
  /\ waiting \in [LED -> Puts \cup {Dark}]
  /\ shown \in [LED -> Puts \cup {Dark}]
  /\ caps = NoCaps => \A l \in LED : shown[l] = Dark
  /\ \A l \in LED : waiting[l] # Dark => \E i \in DOMAIN pending : pending[i] = LedAddr(l)

Recorded ==
  /\ running \in [LED -> Puts \cup {None}]
  /\ record \in [LED -> Puts \cup {None}]
  /\ LitKeysAreRecorded

HandlerOK(c) ==
  /\ pc[c] # "idle" => req[c] \in Requests
  /\ pc[c] \in {"place", "claim", "status", "run", "carry"} => req[c] \in Puts
  /\ pc[c] \in {"status", "run", "carry", "clear", "release"} => target[c] \in LED
  /\ pc[c] = "status" \/ carry[c] # None => moved[c] \in LED
  /\ pc[c] = "carry" => carry[c] # None
  /\ pc[c] = "release" => Named(c)

Handling ==
  /\ pc \in [Clients -> Labels]
  /\ req \in [Clients -> Requests \cup {None}]
  /\ target \in [Clients -> LED \cup {NoKey}]
  /\ moved \in [Clients -> LED \cup {NoKey}]
  /\ carry \in [Clients -> Puts \cup {None}]
  /\ was \in [Clients -> Puts \cup {None}]
  /\ \A c \in Clients : HandlerOK(c)

IInv == ClaimsOK /\ Painted /\ Recorded /\ Handling /\ freed \in SUBSET LED

\* A request is for a name or for an LED.
LEMMA RequestAddress ==
  ASSUME NEW r \in Requests
  PROVE  /\ r.addr.kind = "name" => r.addr.name \in Names /\ r.addr = NameAddr(r.addr.name)
         /\ r.addr.kind # "name" => r.addr.n \in LED /\ r.addr = LedAddr(r.addr.n)
<1>1. CASE \E n \in Names : r.addr = NameAddr(n)
  <2>1. PICK n \in Names : r.addr = NameAddr(n)
    BY <1>1
  <2>2. r.addr.kind = "name" /\ r.addr.name = n
    BY <2>1 DEF NameAddr
  <2> QED BY <2>1, <2>2
<1>2. CASE \E l \in LED : r.addr = LedAddr(l)
  <2>1. PICK l \in LED : r.addr = LedAddr(l)
    BY <1>2
  <2>2. r.addr.kind = "led" /\ r.addr.n = l
    BY <2>1 DEF LedAddr
  <2> QED BY <2>1, <2>2
<1> QED BY <1>1, <1>2, RequestsForm

\* An element moved to the end of a sequence: every element is still there.
MovedToEnd(s, i) == Append(SubSeq(s, 1, i - 1) \o SubSeq(s, i + 1, Len(s)), s[i])

LEMMA MoveKeepsAll ==
  ASSUME NEW S, NEW s \in Seq(S), NEW i \in DOMAIN s
  PROVE  \A k \in DOMAIN s : \E j \in DOMAIN MovedToEnd(s, i) : MovedToEnd(s, i)[j] = s[k]
<1> DEFINE t == MovedToEnd(s, i)
           u == SubSeq(s, 1, i - 1)
           v == SubSeq(s, i + 1, Len(s))
           w == u \o v
<1>1. i \in 1 .. Len(s) /\ Len(s) \in Nat /\ s[i] \in S
  OBVIOUS
<1>2. u \in Seq(S) /\ Len(u) = i - 1 /\ \A k \in 1 .. i - 1 : u[k] = s[k]
  BY <1>1, SubSeqProperties
<1>3. v \in Seq(S) /\ Len(v) = Len(s) - i /\ \A k \in 1 .. Len(s) - i : v[k] = s[i + k]
  BY <1>1, SubSeqProperties
<1> HIDE DEF u, v
<1>4. /\ w \in Seq(S) /\ Len(w) = Len(s) - 1
      /\ \A k \in 1 .. Len(u) + Len(v) : w[k] = IF k <= Len(u) THEN u[k] ELSE v[k - Len(u)]
  <2>1. /\ w \in Seq(S) /\ Len(w) = Len(u) + Len(v)
        /\ \A k \in 1 .. Len(u) + Len(v) : w[k] = IF k <= Len(u) THEN u[k] ELSE v[k - Len(u)]
    BY <1>2, <1>3, ConcatProperties
  <2>2. Len(u) = i - 1 /\ Len(v) = Len(s) - i /\ i \in Nat
    BY <1>1, <1>2, <1>3
  <2>3. Len(u) + Len(v) = Len(s) - 1
    BY <1>1, <2>2
  <2> QED BY <2>1, <2>3
<1>5. t = Append(w, s[i])
  BY DEF u, v, MovedToEnd
<1> HIDE DEF t, w
<1>6. /\ DOMAIN t = 1 .. Len(s) /\ t[Len(s)] = s[i]
      /\ \A k \in 1 .. Len(s) - 1 : t[k] = w[k]
  BY <1>1, <1>4, <1>5
<1>7. ASSUME NEW k \in DOMAIN s PROVE \E j \in DOMAIN t : t[j] = s[k]
  <2>1. k \in 1 .. Len(s)
    OBVIOUS
  <2>2. CASE k < i
    <3>1. k \in 1 .. i - 1 /\ k \in 1 .. Len(s) - 1
      BY <1>1, <2>1, <2>2
    <3>2. t[k] = s[k]
      <4>1. k \in 1 .. Len(u) + Len(v) /\ k <= Len(u)
        BY <1>1, <1>2, <1>3, <2>1, <2>2
      <4> QED BY <1>2, <1>4, <1>6, <3>1, <4>1
    <3> QED BY <1>6, <2>1, <3>2
  <2>3. CASE k = i
    BY <1>1, <1>6, <2>3
  <2>4. CASE k > i
    <3>1. k - i \in 1 .. Len(s) - i /\ k - 1 \in 1 .. Len(s) - 1 /\ k - 1 \in 1 .. Len(s)
      BY <1>1, <2>1, <2>4
    <3>2. t[k - 1] = v[k - i]
      <4>1. k - 1 \in 1 .. Len(u) + Len(v) /\ ~(k - 1 <= Len(u)) /\ k - 1 - Len(u) = k - i
        BY <1>1, <1>2, <1>3, <2>1, <2>4
      <4> QED BY <1>4, <1>6, <3>1, <4>1
    <3>3. v[k - i] = s[k]
      <4>1. i + (k - i) = k
        BY <1>1, <2>1
      <4> QED BY <1>3, <3>1, <4>1
    <3>4. t[k - 1] = s[k] /\ k - 1 \in DOMAIN t
      BY <1>6, <3>1, <3>2, <3>3
    <3> QED BY <3>4
  <2> QED BY <1>1, <2>1, <2>2, <2>3, <2>4
<1> QED BY <1>7 DEF t

\* A write that waits joins those that wait already.
LEMMA PendKeepsOthers ==
  ASSUME ClaimsOK, NEW l \in LED, Claims!CapsOrPend(LedAddr(l))
  PROVE  /\ \E j \in DOMAIN pending' : pending'[j] = LedAddr(l)
         /\ \A k \in DOMAIN pending : \E j \in DOMAIN pending' : pending'[j] = pending[k]
<1> DEFINE S == {LedAddr(k) : k \in LED}
           a == LedAddr(l)
<1>1. pending \in Seq(S) /\ a \in S
  BY ClaimFacts
<1> HIDE DEF S, a
<1>2. CASE pending' = Append(pending, a)
  <2>1. /\ Len(pending) + 1 \in DOMAIN pending' /\ pending'[Len(pending) + 1] = a
        /\ \A k \in DOMAIN pending : k \in DOMAIN pending' /\ pending'[k] = pending[k]
    BY <1>1, <1>2
  <2> QED BY <2>1 DEF a
<1>3. ASSUME NEW i \in DOMAIN pending, pending[i] = a, pending' = MovedToEnd(pending, i)
      PROVE  /\ \E j \in DOMAIN pending' : pending'[j] = a
             /\ \A k \in DOMAIN pending : \E j \in DOMAIN pending' : pending'[j] = pending[k]
  <2>1. \A k \in DOMAIN pending : \E j \in DOMAIN pending' : pending'[j] = pending[k]
    BY <1>1, <1>3, MoveKeepsAll
  <2> QED BY <1>3, <2>1
<1> QED BY <1>2, <1>3 DEF Claims!CapsOrPend, a, MovedToEnd

\* Painting one key: a step of the claim tables at most, other keys are left
\* alone, and on this one only the new picture is shown or waits.
LEMMA WriteEffect ==
  ASSUME ClaimsOK, Painted, NEW l \in LED, NEW p \in Puts \cup {Dark}, Write(l, p)
  PROVE  /\ [Claims!Next]_claimVars
         /\ Painted'
         /\ {shown'[l], waiting'[l]} \subseteq {p, Dark}
         /\ \A k \in LED \ {l} : shown'[k] = shown[k] /\ waiting'[k] = waiting[k]
<1>1. CASE Claims!Ready /\ shown' = [shown EXCEPT ![l] = p] /\ UNCHANGED <<claimVars, waiting>>
  <2>1. pending = <<>> /\ caps # NoCaps
    BY <1>1, ClaimFacts DEF Claims!Ready
  <2>2. waiting[l] = Dark
    BY <2>1 DEF Painted
  <2>3. UNCHANGED <<caps, pending>> /\ UNCHANGED claimVars
    BY <1>1 DEF claimVars
  <2> QED BY <1>1, <2>1, <2>2, <2>3 DEF Painted
<1>2. CASE Claims!CapsOrPend(LedAddr(l)) /\ waiting' = [waiting EXCEPT ![l] = p] /\ UNCHANGED shown
  <2>1. Claims!Next
    BY <1>2 DEF Claims!Next
  <2>2. caps = NoCaps /\ caps' = NoCaps
    BY <1>2 DEF Claims!CapsOrPend
  <2>3. /\ \E j \in DOMAIN pending' : pending'[j] = LedAddr(l)
        /\ \A k \in DOMAIN pending : \E j \in DOMAIN pending' : pending'[j] = pending[k]
    BY <1>2, PendKeepsOthers
  <2>4. shown[l] = Dark
    BY <2>2 DEF Painted
  <2>5. \A k \in LED : waiting'[k] # Dark => \E i \in DOMAIN pending' : pending'[i] = LedAddr(k)
    BY <1>2, <2>3 DEF Painted
  <2> QED BY <1>2, <2>1, <2>2, <2>4, <2>5 DEF Painted
<1> QED BY <1>1, <1>2 DEF Write

\* A call that leaves the pictures alone.
LEMMA PaintFrame ==
  ASSUME Painted, Recorded, UNCHANGED <<caps, pending, engineVars>>
  PROVE  Painted' /\ Recorded'
BY DEF Painted, Recorded, LitKeysAreRecorded, engineVars

\* A key painted with what is on record for it, or with what is now recorded.
LEMMA PaintRecorded ==
  ASSUME ClaimsOK, Painted, Recorded, NEW l \in LED, NEW p \in Puts \cup {Dark}, Write(l, p),
         running' \in [LED -> Puts \cup {None}], record' \in [LED -> Puts \cup {None}],
         \A k \in LED \ {l} : running'[k] \in {running[k], None} /\ record'[k] = record[k],
         running'[l] \in {record'[l], None},
         p \in {record'[l], Dark}
  PROVE  Painted' /\ Recorded'
<1>1. /\ Painted'
      /\ {shown'[l], waiting'[l]} \subseteq {p, Dark}
      /\ \A k \in LED \ {l} : shown'[k] = shown[k] /\ waiting'[k] = waiting[k]
  BY WriteEffect
<1>2. ASSUME NEW k \in LED, NEW q \in {shown'[k], running'[k], waiting'[k]} \ {Dark, None}
      PROVE  record'[k] = q
  <2>1. CASE k = l
    BY <1>1, <1>2, <2>1
  <2>2. CASE k # l
    BY <1>1, <1>2, <2>2 DEF Recorded, LitKeysAreRecorded
  <2> QED BY <2>1, <2>2
<1> QED BY <1>1, <1>2 DEF Recorded, LitKeysAreRecorded

\* Nothing reaches a device that has no slot.
LEMMA PaintFails ==
  ASSUME Painted, Recorded, WriteFails, UNCHANGED record,
         running' \in [LED -> Puts \cup {None}],
         \A k \in LED : running'[k] \in {running[k], None}
  PROVE  /\ UNCHANGED claimVars
         /\ Painted' /\ Recorded'
BY DEF WriteFails, claimVars, Painted, Recorded, LitKeysAreRecorded

\* SetColorFrom and StartFrom.
LEMMA ApplyKeeps ==
  ASSUME ClaimsOK, Painted, Recorded, NEW l \in LED, NEW r \in Puts, Apply(l, r)
  PROVE  [Claims!Next]_claimVars /\ Painted' /\ Recorded'
<1>1. CASE /\ Write(l, r)
           /\ running' = [running EXCEPT ![l] = IF r.paint.effect THEN r ELSE None]
           /\ record' = [record EXCEPT ![l] = r]
  <2>1. /\ running' \in [LED -> Puts \cup {None}] /\ record' \in [LED -> Puts \cup {None}]
        /\ \A k \in LED \ {l} : running'[k] \in {running[k], None} /\ record'[k] = record[k]
        /\ running'[l] \in {record'[l], None} /\ record'[l] = r
    BY <1>1 DEF Recorded
  <2> QED BY <1>1, <2>1, PaintRecorded, WriteEffect
<1>2. CASE WriteFails /\ UNCHANGED <<running, record>>
  BY <1>2, PaintFails DEF Recorded
<1> QED BY <1>1, <1>2 DEF Apply

\* The blanking path.
LEMMA BlankKeeps ==
  ASSUME ClaimsOK, Painted, Recorded, NEW l \in LED, Blank(l)
  PROVE  [Claims!Next]_claimVars /\ Painted' /\ Recorded'
<1>1. CASE /\ Write(l, Dark)
           /\ running' = [running EXCEPT ![l] = None]
           /\ record' = [record EXCEPT ![l] = None]
  <2>1. /\ running' \in [LED -> Puts \cup {None}] /\ record' \in [LED -> Puts \cup {None}]
        /\ \A k \in LED \ {l} : running'[k] \in {running[k], None} /\ record'[k] = record[k]
        /\ running'[l] \in {record'[l], None}
    BY <1>1 DEF Recorded
  <2> QED BY <1>1, <2>1, PaintRecorded, WriteEffect
<1>2. CASE WriteFails /\ UNCHANGED <<running, record>>
  BY <1>2, PaintFails DEF Recorded
<1> QED BY <1>1, <1>2 DEF Blank

\* One effect's part of a tick.
LEMMA TickKeeps ==
  ASSUME ClaimsOK, Painted, Recorded, NEW l \in LED, TickFrame(l) \/ TickEnds(l) \/ TickFails(l)
  PROVE  [Claims!Next]_claimVars /\ Painted' /\ Recorded'
<1>1. running[l] \in Puts /\ record[l] = running[l]
  <2>1. running[l] # None /\ running[l] \in Puts
    BY DEF TickFrame, TickEnds, TickFails, Recorded
  <2>2. running[l] # Dark
    BY <2>1, NotRequests DEF Puts
  <2> QED BY <2>1, <2>2 DEF Recorded, LitKeysAreRecorded
<1>2. CASE TickFrame(l)
  <2>1. Write(l, running[l]) /\ UNCHANGED <<running, record>>
    BY <1>2 DEF TickFrame
  <2> QED BY <1>1, <2>1, PaintRecorded, WriteEffect DEF Recorded
<1>3. CASE TickEnds(l)
  <2>1. PICK p \in {running[l], Dark} : Write(l, p)
    BY <1>3 DEF TickEnds
  <2>2. running' = [running EXCEPT ![l] = None] /\ UNCHANGED record
    BY <1>3 DEF TickEnds
  <2>3. /\ running' \in [LED -> Puts \cup {None}] /\ record' \in [LED -> Puts \cup {None}]
        /\ \A k \in LED \ {l} : running'[k] \in {running[k], None} /\ record'[k] = record[k]
        /\ running'[l] = None /\ record'[l] = running[l]
    BY <1>1, <2>2 DEF Recorded
  <2> QED BY <1>1, <2>1, <2>3, PaintRecorded, WriteEffect
<1>4. CASE TickFails(l)
  <2>1. running' = [running EXCEPT ![l] = None] /\ UNCHANGED record /\ WriteFails
    BY <1>4 DEF TickFails
  <2> QED BY <2>1, PaintFails DEF Recorded
<1> QED BY <1>2, <1>3, <1>4

\* SetCaps moves a waiting color into the frame buffer.
LEMMA ResolveKeeps ==
  ASSUME ClaimsOK, Painted, Recorded, ResolvePending
  PROVE  Painted' /\ Recorded'
<1>1. pending \in Seq({LedAddr(l) : l \in LED}) /\ pending # <<>> /\ pending' = Tail(pending)
  BY ClaimFacts DEF ResolvePending, Claims!ResolvePending
<1>2. PICK l \in LED : pending[1] = LedAddr(l)
  BY <1>1
<1>3. Head(pending).n = l
  BY <1>1, <1>2 DEF LedAddr
<1>4. /\ shown' = [shown EXCEPT ![l] = IF l \in LEDsOf(caps) THEN waiting[l] ELSE @]
      /\ waiting' = [waiting EXCEPT ![l] = Dark]
      /\ UNCHANGED <<running, record>>
  BY <1>3 DEF ResolvePending
<1>5. caps # NoCaps /\ caps' = caps
  BY ClaimFacts DEF ResolvePending, Claims!ResolvePending
<1>6. ASSUME NEW k \in LED, waiting'[k] # Dark
      PROVE  \E i \in DOMAIN pending' : pending'[i] = LedAddr(k)
  <2>1. k # l /\ waiting[k] # Dark
    BY <1>4, <1>6 DEF Painted
  <2>2. PICK i \in DOMAIN pending : pending[i] = LedAddr(k)
    BY <2>1 DEF Painted
  <2>3. i # 1
    BY <1>2, <2>1, <2>2 DEF LedAddr
  <2>4. i - 1 \in DOMAIN pending' /\ pending'[i - 1] = pending[i]
    BY <1>1, <2>3
  <2> QED BY <2>2, <2>4
<1>7. Painted'
  BY <1>4, <1>5, <1>6 DEF Painted
<1>8. Recorded'
  BY <1>4 DEF Painted, Recorded, LitKeysAreRecorded
<1> QED BY <1>7, <1>8

------------------------------------------------------------------------------
(***************************************************************************)
(* The handlers.                                                           *)
(***************************************************************************)
\* A handler's end.
LEMMA DoneKeeps ==
  ASSUME Handling, NEW c \in Clients, Done(c) PROVE Handling'
BY DEF Handling, Done, Goto, HandlerOK, Labels, Named

LEMMA StartKeeps ==
  ASSUME Handling, NEW c \in Clients, Start(c) PROVE Handling'
BY DEF Handling, Start, Goto, HandlerOK, Labels, Named, Puts

LEMMA GetCapsStep ==
  ASSUME IInv, NEW c \in Clients, GetCaps(c) \/ GetCapsFails(c) \/ PlaceNameFails(c)
  PROVE  UNCHANGED <<claimVars, engineVars, freed>> /\ Handling'
<1>1. CASE GetCaps(c)
  BY <1>1 DEF IInv, Handling, GetCaps, Goto, HandlerOK, Labels, Named
<1>2. CASE GetCapsFails(c) \/ PlaceNameFails(c)
  BY <1>2, DoneKeeps DEF IInv, GetCapsFails, PlaceNameFails
<1> QED BY <1>1, <1>2

LEMMA PlaceNameStep ==
  ASSUME IInv, NEW c \in Clients, PlaceName(c)
  PROVE  /\ Claims!Next /\ UNCHANGED <<caps, pending, engineVars, freed>> /\ Handling'
<1> DEFINE n == req[c].addr.name
<1>1. n \in Names
  BY RequestAddress DEF PlaceName, IInv, Handling, HandlerOK, Named
<1>2. Claims!ClaimOrGet(n) /\ UNCHANGED <<engineVars, freed>>
  BY DEF PlaceName
<1>3. Claims!Next /\ UNCHANGED <<caps, pending>>
  BY <1>1, <1>2 DEF Claims!Next, Claims!ClaimOrGet
<1>4. claims' \in [Names -> LED \cup {NoKey}]
  <2>1. ClaimsOK'
    BY <1>3, ClaimsStep DEF IInv
  <2> QED BY <2>1 DEF ClaimsOK, ClaimProofs!IInv, ClaimProofs!TypeOK
<1>5. ASSUME claims'[n] = NoKey PROVE Handling'
  BY <1>5, DoneKeeps DEF PlaceName, IInv
<1>6. ASSUME claims'[n] # NoKey PROVE Handling'
  <2>1. /\ target' = [target EXCEPT ![c] = claims'[n]]
        /\ Goto(c, "run")
        /\ UNCHANGED <<req, moved, carry, was>>
        /\ pc[c] = "claim"
    BY <1>6 DEF PlaceName
  <2>2. claims'[n] \in LED
    BY <1>1, <1>4, <1>6
  <2> QED BY <2>1, <2>2 DEF IInv, Handling, Goto, HandlerOK, Labels, Named
<1> QED BY <1>2, <1>3, <1>5, <1>6

LEMMA PlaceDirectStep ==
  ASSUME IInv, NEW c \in Clients, PlaceDirect(c)
  PROVE  /\ [Claims!Next]_claimVars /\ UNCHANGED <<caps, pending, engineVars, freed>> /\ Handling'
<1> DEFINE l == req[c].addr.n
           n == owners[l]
<1>1. l \in LED
  BY RequestAddress DEF PlaceDirect, IInv, Handling, HandlerOK, Named
<1>2. /\ Claims!MarkDirectDisplacing(l) \/ UNCHANGED claimVars
      /\ UNCHANGED <<engineVars, req, carry, freed>>
      /\ target' = [target EXCEPT ![c] = l]
      /\ pc[c] = "claim"
  BY DEF PlaceDirect
<1>3. [Claims!Next]_claimVars /\ UNCHANGED <<caps, pending>>
  BY <1>1, <1>2 DEF Claims!Next, Claims!MarkDirectDisplacing, claimVars
<1>4. claims' \in [Names -> LED \cup {NoKey}]
  <2>1. ClaimsOK'
    BY <1>3, ClaimsStep DEF IInv
  <2> QED BY <2>1 DEF ClaimsOK, ClaimProofs!IInv, ClaimProofs!TypeOK
<1>5. ASSUME n \in Names, claims'[n] # NoKey PROVE Handling'
  <2>1. /\ moved' = [moved EXCEPT ![c] = claims'[n]]
        /\ was' = [was EXCEPT ![c] = record[l]]
        /\ Goto(c, "status")
    BY <1>5 DEF PlaceDirect
  <2>2. claims'[n] \in LED /\ record[l] \in Puts \cup {None}
    BY <1>1, <1>4, <1>5 DEF IInv, Recorded
  <2> HIDE DEF l, n
  <2> QED BY <1>1, <1>2, <2>1, <2>2 DEF IInv, Handling, Goto, HandlerOK, Labels, Named
<1>6. ASSUME ~(n \in Names /\ claims'[n] # NoKey) PROVE Handling'
  <2>1. Goto(c, "run") /\ UNCHANGED <<moved, was>>
    BY <1>6 DEF PlaceDirect
  <2> HIDE DEF l, n
  <2> QED BY <1>1, <1>2, <2>1 DEF IInv, Handling, Goto, HandlerOK, Labels, Named
<1> QED BY <1>2, <1>3, <1>5, <1>6

LEMMA ReadStatusStep ==
  ASSUME IInv, NEW c \in Clients, ReadStatus(c)
  PROVE  UNCHANGED <<claimVars, engineVars, freed>> /\ Handling'
<1>1. record[target[c]] \in Puts \cup {None}
  BY DEF ReadStatus, IInv, Recorded, Handling, HandlerOK
<1> QED BY <1>1 DEF ReadStatus, IInv, Handling, Goto, HandlerOK, Labels, Named

LEMMA RunWriteStep ==
  ASSUME IInv, NEW c \in Clients, RunWrite(c) \/ Replay(c)
  PROVE  [Claims!Next]_claimVars /\ Painted' /\ Recorded' /\ Handling' /\ UNCHANGED freed
<1>1. CASE RunWrite(c)
  <2>1. target[c] \in LED /\ req[c] \in Puts /\ Apply(target[c], req[c])
    BY <1>1 DEF RunWrite, IInv, Handling, HandlerOK
  <2>2. Handling'
    <3>1. CASE carry[c] = None
      BY <1>1, <3>1, DoneKeeps DEF RunWrite, IInv
    <3>2. CASE carry[c] # None
      BY <1>1, <3>2 DEF RunWrite, IInv, Handling, Goto, HandlerOK, Labels, Named
    <3> QED BY <3>1, <3>2
  <2> QED BY <1>1, <2>1, <2>2, ApplyKeeps DEF RunWrite, IInv
<1>2. CASE Replay(c)
  <2>1. moved[c] \in LED /\ carry[c] \in Puts /\ Apply(moved[c], carry[c])
    BY <1>2 DEF Replay, IInv, Handling, HandlerOK
  <2>2. Handling'
    BY <1>2, DoneKeeps DEF Replay, IInv
  <2> QED BY <1>2, <2>1, <2>2, ApplyKeeps DEF Replay, IInv
<1> QED BY <1>1, <1>2

LEMMA LookupStep ==
  ASSUME IInv, NEW c \in Clients, Lookup(c)
  PROVE  UNCHANGED <<claimVars, engineVars, freed>> /\ Handling'
<1> DEFINE l == IF ~Named(c) THEN req[c].addr.n ELSE claims[req[c].addr.name]
<1>1. l # NoKey => l \in LED
  BY RequestAddress, ClaimFacts DEF Lookup, IInv, Handling, HandlerOK, Named
<1>2. CASE Done(c)
  BY <1>2, DoneKeeps DEF Lookup, IInv
<1>3. CASE l # NoKey /\ target' = [target EXCEPT ![c] = l] /\ Goto(c, "clear")
           /\ UNCHANGED <<req, moved, carry, was>> /\ pc[c] = "lookup"
  <2> HIDE DEF l
  <2> QED BY <1>1, <1>3 DEF Lookup, IInv, Handling, Goto, HandlerOK, Labels, Named
<1> QED BY <1>2, <1>3 DEF Lookup

LEMMA ClearStep ==
  ASSUME IInv, NEW c \in Clients, Clear(c)
  PROVE  [Claims!Next]_claimVars /\ Painted' /\ Recorded' /\ Handling' /\ UNCHANGED freed
<1>0. target[c] \in LED
  BY DEF Clear, IInv, Handling, HandlerOK
<1>1. CASE Blank(target[c])
  <2>1. Handling'
    <3>1. CASE Done(c)
      BY <3>1, DoneKeeps DEF IInv
    <3>2. CASE pc[c] = "clear" /\ Named(c) /\ Goto(c, "release") /\ UNCHANGED <<req, target, moved, carry, was>>
      BY <3>2 DEF IInv, Handling, Goto, HandlerOK, Labels, Named
    <3> QED BY <3>1, <3>2 DEF Clear
  <2> QED BY <1>0, <1>1, <2>1, BlankKeeps DEF Clear, IInv
<1>2. CASE Done(c) /\ UNCHANGED <<claimVars, engineVars>>
  BY <1>2, DoneKeeps, PaintFrame DEF Clear, IInv, claimVars
<1> QED BY <1>1, <1>2 DEF Clear

LEMMA ReleaseStep ==
  ASSUME IInv, NEW c \in Clients, Release(c)
  PROVE  /\ [Claims!Next]_claimVars /\ UNCHANGED <<caps, pending, engineVars, freed>> /\ Handling'
<1>1. req[c].addr.name \in Names
  BY RequestAddress DEF Release, IInv, Handling, HandlerOK, Named
<1>2. [Claims!Next]_claimVars /\ UNCHANGED <<caps, pending>>
  BY <1>1 DEF Release, Claims!Next, Claims!ReleaseClaim, claimVars
<1> QED BY <1>2, DoneKeeps DEF Release, IInv

LEMMA HandlerStep ==
  ASSUME IInv, NEW c \in Clients, Handler(c)
  PROVE  [Claims!Next]_claimVars /\ Painted' /\ Recorded' /\ Handling' /\ UNCHANGED freed
<1>1. ASSUME [Claims!Next]_claimVars, UNCHANGED <<caps, pending, engineVars>>
      PROVE  Painted' /\ Recorded'
  BY <1>1, PaintFrame DEF IInv
<1>2. CASE GetCaps(c) \/ GetCapsFails(c) \/ PlaceNameFails(c) \/ ReadStatus(c) \/ Lookup(c)
  BY <1>1, <1>2, GetCapsStep, ReadStatusStep, LookupStep DEF claimVars
<1>3. CASE PlaceName(c) \/ PlaceDirect(c) \/ Release(c)
  BY <1>1, <1>3, PlaceNameStep, PlaceDirectStep, ReleaseStep
<1>4. CASE RunWrite(c) \/ Replay(c) \/ Clear(c)
  BY <1>4, RunWriteStep, ClearStep
<1> QED BY <1>2, <1>3, <1>4 DEF Handler

------------------------------------------------------------------------------
LEMMA InitIInv == Init => IInv
<1> SUFFICES ASSUME Init PROVE IInv
  OBVIOUS
<1>1. ClaimsOK
  BY ClaimsStart DEF Init
<1>2. Painted /\ Recorded
  BY DEF Init, Painted, Recorded, LitKeysAreRecorded
<1>3. Handling
  BY DEF Init, Handling, HandlerOK, Labels
<1> QED BY <1>1, <1>2, <1>3 DEF Init, IInv

\* Every step of the service is a step of the claim tables, or none.
LEMMA StepIInv == IInv /\ [Next]_vars => [Claims!Next]_claimVars /\ IInv'
<1> SUFFICES ASSUME IInv, [Next]_vars PROVE [Claims!Next]_claimVars /\ IInv'
  OBVIOUS
<1> DEFINE Kept == Painted' /\ Recorded' /\ Handling' /\ (freed \in SUBSET LED)'
<1> SUFFICES [Claims!Next]_claimVars /\ Kept
  BY ClaimsStep DEF IInv
<1>F. ASSUME UNCHANGED clientVars PROVE Handling'
  BY <1>F DEF IInv, Handling, HandlerOK, Named, clientVars
<1>E. ASSUME UNCHANGED <<caps, pending, engineVars>> PROVE Painted' /\ Recorded'
  BY <1>E, PaintFrame DEF IInv
<1>1. ASSUME NEW c \in Clients, Start(c) PROVE [Claims!Next]_claimVars /\ Kept
  BY <1>1, <1>E, StartKeeps DEF Start, IInv, claimVars
<1>2. ASSUME NEW c \in Clients, Handler(c) PROVE [Claims!Next]_claimVars /\ Kept
  BY <1>2, HandlerStep DEF IInv
<1>3. ASSUME NEW l \in LED, TickFrame(l) \/ TickEnds(l) \/ TickFails(l)
      PROVE  [Claims!Next]_claimVars /\ Kept
  BY <1>3, <1>F, TickKeeps DEF TickFrame, TickEnds, TickFails, IInv
<1>4. CASE Sweep
  <2>1. {claims[n] : n \in Claims!Expired} \subseteq LED
    BY ClaimFacts DEF Claims!Expired, IInv
  <2> QED BY <1>4, <1>E, <1>F, <2>1 DEF Sweep, Claims!SweepIdleClaims, Claims!Next
<1>5. ASSUME NEW l \in LED, SweepBlank(l) PROVE [Claims!Next]_claimVars /\ Kept
  BY <1>5, <1>F, BlankKeeps DEF SweepBlank, IInv
<1>6. CASE Age
  BY <1>6, <1>E, <1>F DEF Age, Claims!Tick, Claims!Next, IInv
<1>7. CASE SlotAdded
  BY <1>7, <1>E, <1>F DEF SlotAdded, Claims!SlotAdded, Claims!Next, IInv
<1>8. CASE SlotEvicted
  <2>1. Painted' /\ Recorded'
    BY <1>8 DEF SlotEvicted, IInv, Painted, Recorded, LitKeysAreRecorded
  <2> QED BY <1>8, <1>F, <2>1 DEF SlotEvicted, Claims!Next, IInv
<1>9. CASE SetCaps
  <2>1. Claims!SetCaps(Board) /\ UNCHANGED <<engineVars, clientVars, freed>>
    BY <1>9 DEF SetCaps
  <2>2. caps' # NoCaps /\ UNCHANGED pending
    BY <2>1, NoCapsIsNoBoard DEF Claims!SetCaps
  <2>3. Painted' /\ Recorded'
    BY <2>1, <2>2 DEF IInv, Painted, Recorded, LitKeysAreRecorded, engineVars
  <2> QED BY <1>F, <2>1, <2>3 DEF Claims!Next, IInv
<1>10. CASE ResolvePending
  BY <1>10, <1>F, ResolveKeeps DEF ResolvePending, Claims!Next, IInv
<1>11. CASE SetCapsDone
  BY <1>11, <1>E, <1>F DEF SetCapsDone, Claims!SetCapsDone, Claims!Next, IInv
<1>12. CASE UNCHANGED vars
  BY <1>12, <1>E, <1>F DEF vars, claimVars, IInv
<1> QED BY <1>1, <1>2, <1>3, <1>4, <1>5, <1>6, <1>7, <1>8, <1>9, <1>10, <1>11, <1>12 DEF Next

LEMMA IInvHolds == Spec => []IInv
<1>1. IInv /\ [Next]_vars => IInv'
  BY StepIInv
<1> QED BY <1>1, InitIInv, PTL DEF Spec

\* What a key shows, will show or has waiting is what is on record for it,
\* however handlers, ticks, the sweep, evictions and SetCaps interleave: every
\* call that paints a key records it under the same hold of e.mu.
THEOREM LitKeysAlwaysRecorded == Spec => []LitKeysAreRecorded
BY IInvHolds, PTL DEF IInv, Recorded

\* The registry's calls in handlers, sweep and poll loop act on one slot's
\* tables as KeyClaims says, so that everything proved of KeyClaims holds of
\* the service.
THEOREM ServiceRunsClaims == Spec => Claims!Spec
<1>1. Init => Claims!Init
  BY DEF Init
<1>2. IInv /\ [Next]_vars => [Claims!Next]_Claims!vars
  BY StepIInv DEF claimVars, Claims!vars
<1> QED BY <1>1, <1>2, IInvHolds, PTL DEF Spec, Claims!Spec

\* While SetCaps resolves what waits, no name has a claim: none had one
\* before, and only addresses wait.
UnclaimedMeanwhile == settling => \A n \in Names : claims[n] = NoKey

LEMMA StepUnclaimed ==
  ASSUME ClaimsOK, UnclaimedMeanwhile, [Claims!Next]_claimVars
  PROVE  UnclaimedMeanwhile'
<1> SUFFICES ASSUME settling', NEW n \in Names PROVE claims'[n] = NoKey
  BY DEF UnclaimedMeanwhile
<1>1. ASSUME UNCHANGED <<settling, claims>> PROVE claims'[n] = NoKey
  BY <1>1 DEF UnclaimedMeanwhile
<1>2. ASSUME NEW c \in {Board}, Claims!SetCaps(c) PROVE claims'[n] = NoKey
  BY <1>2, ClaimFacts, NoCapsIsNoBoard DEF Claims!SetCaps
<1>3. CASE Claims!ResolvePending
  <2>1. settling /\ pending # <<>> /\ pending \in Seq({LedAddr(l) : l \in LED})
    BY <1>3, ClaimFacts DEF Claims!ResolvePending
  <2>2. Head(pending) \in {LedAddr(l) : l \in LED}
    BY <2>1
  <2>3. Head(pending).kind # "name"
    <3>1. PICK l \in LED : Head(pending) = LedAddr(l)
      BY <2>2
    <3>2. Head(pending).kind = "led"
      BY <3>1 DEF LedAddr
    <3> QED BY <3>2
  <2>4. (\E l : Claims!MarkDirectLocked(l)) \/ UNCHANGED claims
    BY <1>3, <2>3 DEF Claims!ResolvePending
  <2>5. claims[n] = NoKey
    BY <2>1 DEF UnclaimedMeanwhile
  <2> QED BY <2>4, <2>5 DEF Claims!MarkDirectLocked
<1>4. CASE \/ \E m \in Names : Claims!ClaimOrGet(m) \/ Claims!ReleaseClaim(m)
           \/ \E l \in LED : Claims!MarkDirectDisplacing(l)
           \/ Claims!SweepIdleClaims \/ Claims!SlotEvicted \/ Claims!SetCapsDone
  BY <1>4 DEF Claims!ClaimOrGet, Claims!ReleaseClaim, Claims!Ready, Claims!MarkDirectDisplacing,
              Claims!SweepIdleClaims, Claims!SlotEvicted, Claims!SetCapsDone
<1>5. CASE \/ Claims!Tick \/ Claims!SlotAdded \/ UNCHANGED claimVars
           \/ \E a \in {LedAddr(l) : l \in LED} : Claims!CapsOrPend(a)
  BY <1>1, <1>5 DEF Claims!Tick, Claims!SlotAdded, Claims!CapsOrPend, claimVars
<1> QED BY <1>2, <1>3, <1>4, <1>5 DEF Claims!Next

\* Under the displace policy a direct write of any request drops a name's claim
\* only when the pool has no free key: PlaceDirect moves it otherwise, and the
\* writes SetCaps resolves find no claim to drop.
THEOREM DisplacementLosesNothing == Spec => DisplaceLosesNothing
<1> DEFINE Lost(n) == /\ layout.displace
                      /\ claims[n] # NoKey /\ claims'[n] = NoKey /\ owners'[claims[n]] = Direct
           Rule == \A n \in Names : Lost(n) => Claims!FreePool = {}
<1>1. Init => UnclaimedMeanwhile
  BY DEF Init, Claims!Init, UnclaimedMeanwhile
<1>2. IInv /\ UnclaimedMeanwhile /\ [Next]_vars => UnclaimedMeanwhile'
  BY StepIInv, StepUnclaimed DEF IInv
<1>3. IInv /\ UnclaimedMeanwhile /\ [Next]_vars => [Rule]_vars
  <2> SUFFICES ASSUME IInv, UnclaimedMeanwhile, [Next]_vars, NEW n \in Names, Lost(n)
               PROVE  Claims!FreePool = {}
    OBVIOUS
  <2>1. [ClaimProofs!Next]_ClaimProofs!vars
    BY StepIInv, SameNext
  <2>2. ~settling
    BY DEF UnclaimedMeanwhile
  <2>3. ClaimProofs!FreePool = {}
    BY <2>1, <2>2, ClaimProofs!OnlyFullPoolsLose, BoardMeetsAssumptions DEF IInv, ClaimsOK
  <2> QED BY <2>3, SameOrder DEF Claims!FreePool, ClaimProofs!FreePool
<1> QED BY <1>1, <1>2, <1>3, IInvHolds, PTL DEF Spec, DisplaceLosesNothing

\* A handler is moved on by its own steps only.
LEMMA OnlyItsSteps ==
  ASSUME IInv, [Next]_vars, NEW c \in Clients, pc'[c] # pc[c]
  PROVE  Start(c) \/ Handler(c)
<1>1. pc \in [Clients -> Labels]
  BY DEF IInv, Handling
<1>2. ASSUME NEW d \in Clients \ {c}, Start(d) \/ Handler(d) PROVE FALSE
  BY <1>1, <1>2
     DEF Start, Handler, GetCaps, GetCapsFails, PlaceName, PlaceNameFails, PlaceDirect,
         ReadStatus, RunWrite, Replay, Lookup, Clear, Release, Goto, Done
<1>3. ASSUME UNCHANGED clientVars PROVE FALSE
  BY <1>3 DEF clientVars
<1>4. ASSUME NEW l \in LED, TickFrame(l) \/ TickEnds(l) \/ TickFails(l) \/ SweepBlank(l) PROVE FALSE
  BY <1>3, <1>4 DEF TickFrame, TickEnds, TickFails, SweepBlank
<1>5. CASE Sweep \/ Age \/ SlotAdded \/ SlotEvicted \/ SetCaps \/ ResolvePending \/ SetCapsDone
           \/ UNCHANGED vars
  BY <1>3, <1>5 DEF Sweep, Age, SlotAdded, SlotEvicted, SetCaps, ResolvePending, SetCapsDone, vars
<1> QED BY <1>2, <1>4, <1>5 DEF Next

\* A conditional clear (?owner=TAG) darkens only a key whose last request
\* carried TAG, whatever else goes on: ClearIfOwner looks at the record, and
\* the record is of the request that painted the key.
THEOREM TaggedClearsSpareOthers == Spec => TaggedClearSparesOthers
<1> DEFINE Cleared(c, l) == /\ pc[c] = "clear" /\ pc'[c] # "clear"
                            /\ req[c].tag # NoTag
                            /\ shown[l] # Dark /\ shown'[l] = Dark
           Spares == \A c \in Clients, l \in LED : Cleared(c, l) => shown[l].tag = req[c].tag
<1>1. IInv /\ [Next]_vars => [Spares]_vars
  <2> SUFFICES ASSUME IInv, [Next]_vars, NEW c \in Clients, NEW l \in LED, Cleared(c, l)
               PROVE  shown[l].tag = req[c].tag
    OBVIOUS
  <2>1. Clear(c)
    BY OnlyItsSteps
       DEF Start, Handler, GetCaps, GetCapsFails, PlaceName, PlaceNameFails, PlaceDirect,
           ReadStatus, RunWrite, Replay, Lookup, Release
  <2>2. MayClear(target[c], req[c].tag) /\ Blank(target[c])
    <3>1. shown' # shown
      OBVIOUS
    <3> QED BY <2>1, <3>1 DEF Clear, engineVars
  <2>3. target[c] \in LED
    BY DEF IInv, Handling, HandlerOK
  <2>4. l = target[c]
    BY <2>2, <2>3, WriteEffect DEF Blank, WriteFails, IInv
  <2>5. record[l] = shown[l] /\ shown[l] \in Puts
    <3>1. shown[l] \in Puts
      BY DEF IInv, Painted
    <3>2. shown[l] # None
      BY <3>1, NotRequests DEF Puts
    <3> QED BY <3>1, <3>2 DEF IInv, Recorded, LitKeysAreRecorded
  <2>6. record[l] \in {None} \cup {r \in Puts : r.tag = req[c].tag}
    BY <2>2, <2>4 DEF MayClear
  <2>7. shown[l] # None
    BY <2>5, NotRequests DEF Puts
  <2> QED BY <2>5, <2>6, <2>7
<1> QED BY <1>1, IInvHolds, PTL DEF Spec, TaggedClearSparesOthers

------------------------------------------------------------------------------
(***************************************************************************)
(* Requests served one at a time, on a device that stays (Alone): the      *)
(* effects' ticks fall anywhere, the sweep between two requests.           *)
(***************************************************************************)
Alone == MaxInFlight = 1 /\ ~SweepOverlaps /\ ~MayEvict

Open == present /\ ~settling /\ caps # NoCaps

\* One request at a time, and the sweep between two; nothing is written, and
\* nothing waits, before the capabilities are known.
OneAtATime ==
  /\ \A c, d \in Clients : pc[c] # "idle" /\ pc[d] # "idle" => c = d
  /\ freed # {} => \A c \in Clients : pc[c] = "idle"
  /\ pending = <<>>
  /\ ~Open => /\ freed = {}
              /\ \A l \in LED : record[l] = None /\ running[l] = None
              /\ \A c \in Clients : pc[c] \in {"idle", "place", "lookup"}

\* What is recorded for l was asked for by its owner.
Entitled(l) ==
  record[l] # None =>
    \/ owners[l] \in Names /\ record[l].addr = NameAddr(owners[l])
    \/ owners[l] = Direct /\ record[l].addr = LedAddr(l)

\* The key a direct request has taken and not painted yet.
Taking(c, l) == pc[c] \in {"status", "run"} /\ ~Named(c) /\ target[c] = l

AllEntitled ==
  \A l \in LED : Entitled(l) \/ l \in freed \/ \E c \in Clients : Taking(c, l)

\* What a handler knows at each of its steps.
Knows(c) ==
  /\ pc[c] \in {"idle", "place", "claim", "lookup", "clear", "release"}
       => carry[c] = None /\ was[c] = None
  /\ pc[c] \in {"run", "carry"} => carry[c] = was[c]
  /\ pc[c] = "run" /\ Named(c) => owners[target[c]] = req[c].addr.name /\ was[c] = None
  /\ pc[c] \in {"status", "run"} /\ ~Named(c)
       => owners[target[c]] = Direct /\ target[c] = req[c].addr.n
  /\ pc[c] = "status" => ~Named(c) /\ was[c] = record[target[c]]
  /\ pc[c] \in {"status", "run", "carry"} /\ was[c] # None
       => owners[moved[c]] \in Names /\ was[c].addr = NameAddr(owners[moved[c]])
  /\ pc[c] \in {"clear", "release"} /\ Named(c) => claims[req[c].addr.name] = target[c]
  /\ pc[c] = "release" => record[target[c]] = None

Serving == OneAtATime /\ AllEntitled /\ \A c \in Clients : Knows(c)

\* A request starts when no other is served and nothing is left to blank.
LEMMA StartsAlone ==
  ASSUME Alone, IInv, NEW c \in Clients, Start(c)
  PROVE  freed = {} /\ \A d \in Clients : pc[d] = "idle"
<1>1. Cardinality(InFlight) < 1 /\ freed = {}
  BY DEF Alone, Start
<1>2. IsFiniteSet(InFlight)
  BY ClientsFinite, FS_Subset DEF InFlight
<1>3. Cardinality(InFlight) = 0
  BY <1>1, <1>2, FS_CardinalityType
<1>4. InFlight = {}
  BY <1>2, <1>3, FS_EmptySet
<1> QED BY <1>1, <1>4 DEF InFlight

\* While a handler runs, the others are idle and the sweep has finished; past
\* its first step the capabilities are known.
LEMMA RunsAlone ==
  ASSUME Serving, NEW c \in Clients, pc[c] # "idle"
  PROVE  /\ freed = {}
         /\ \A d \in Clients \ {c} : pc[d] = "idle" /\ carry[d] = None /\ was[d] = None
         /\ pc[c] \notin {"place", "lookup"} => Open
         /\ \A l \in LED : Entitled(l) \/ Taking(c, l)
BY DEF Serving, OneAtATime, AllEntitled, Taking, Knows

\* A handler's step leaves the other handlers' locals alone.
LEMMA HandlerLocals ==
  ASSUME Handling, NEW c \in Clients, Handler(c), NEW d \in Clients \ {c}
  PROVE  pc'[d] = pc[d] /\ carry'[d] = carry[d] /\ was'[d] = was[d]
BY DEF Handling, Handler, GetCaps, GetCapsFails, PlaceName, PlaceNameFails, PlaceDirect,
       ReadStatus, RunWrite, Replay, Lookup, Clear, Release, Goto, Done, claimVars, engineVars

\* A handler acts, and what it knows at its next step is right: then all is.
LEMMA ServedOn ==
  ASSUME IInv, Serving, NEW c \in Clients, pc[c] # "idle", Handler(c),
         UNCHANGED <<present, settling, caps, pending, freed>>,
         ~Open => UNCHANGED <<running, record>> /\ pc'[c] \in {"idle", "place", "lookup"},
         \A l \in LED : Entitled(l)' \/ Taking(c, l)',
         Knows(c)'
  PROVE  Serving'
<1>1. \A d \in Clients \ {c} : pc'[d] = "idle" /\ carry'[d] = None /\ was'[d] = None
  BY RunsAlone, HandlerLocals DEF IInv
<1>2. \A d \in Clients \ {c} : Knows(d)'
  BY <1>1 DEF Knows
<1>3. OneAtATime'
  BY <1>1, RunsAlone DEF Serving, OneAtATime, Open
<1>4. AllEntitled'
  BY DEF AllEntitled
<1> QED BY <1>2, <1>3, <1>4 DEF Serving

\* On a slot with capabilities a write reaches the frame buffer.
LEMMA WriteOpen ==
  ASSUME Open, NEW l, NEW p
  PROVE  /\ Write(l, p) => UNCHANGED claimVars
         /\ ~WriteFails
BY DEF Open, Write, WriteFails, Claims!CapsOrPend

\* What the registry's calls do to the owners.
LEMMA ClaimOwners ==
  ASSUME ClaimsOK, ClaimsOK', NEW n \in Names, Claims!ClaimOrGet(n)
  PROVE  /\ UNCHANGED <<present, settling, caps, pending>>
         /\ claims'[n] # NoKey => claims'[n] \in LED /\ owners'[claims'[n]] = n
         /\ \A l \in LED : owners'[l] # owners[l] => owners[l] = Unowned
<1>1. UNCHANGED <<present, settling, caps, pending>> /\ caps = Board
  BY ClaimFacts DEF Claims!ClaimOrGet, Claims!Ready
<1>2. claims'[n] # NoKey => claims'[n] \in LED /\ owners'[claims'[n]] = n
  BY DEF ClaimsOK, ClaimProofs!IInv, ClaimProofs!TypeOK, ClaimProofs!MapsAgree
<1>3. \A l \in LED : owners'[l] # owners[l] => owners[l] = Unowned
  BY <1>1, ClaimFacts, SearchFindsFree DEF Claims!ClaimOrGet, Claims!ClaimOrGetLocked
<1> QED BY <1>1, <1>2, <1>3

LEMMA MarkOwners ==
  ASSUME ClaimsOK, ClaimsOK', NEW l \in LED, Claims!MarkDirectDisplacing(l)
  PROVE  /\ UNCHANGED <<present, settling, caps, pending>>
         /\ owners'[l] = Direct
         /\ \A k \in LED \ {l} : owners'[k] # owners[k] => owners[k] = Unowned
         /\ \A n \in Names : claims'[n] # NoKey => claims'[n] \in LED /\ owners'[claims'[n]] = n
<1>1. UNCHANGED <<present, settling, caps, pending>>
  BY DEF Claims!MarkDirectDisplacing
<1>2. \A n \in Names : claims'[n] # NoKey => claims'[n] \in LED /\ owners'[claims'[n]] = n
  BY DEF ClaimsOK, ClaimProofs!IInv, ClaimProofs!TypeOK, ClaimProofs!MapsAgree
<1>3. owners'[l] = Direct /\ \A k \in LED \ {l} : owners'[k] # owners[k] => owners[k] = Unowned
  <2>1. CASE Claims!MarkDirectLocked(l)
    BY <2>1, ClaimFacts DEF Claims!MarkDirectLocked
  <2>2. ASSUME NEW to \in LED, Claims!MoveClaim(l, to)
        PROVE  owners'[l] = Direct /\ \A k \in LED \ {l} : owners'[k] # owners[k] => owners[k] = Unowned
    <3>1. caps = Board
      <4>1. owners[l] \in Names
        BY <2>2 DEF Claims!MoveClaim
      <4>2. claims[owners[l]] = l
        BY <4>1, ClaimFacts
      <4> QED BY <4>1, <4>2, ClaimFacts, NoKeyIsNoLED
    <3>2. owners[to] = Unowned
      BY <2>2, <3>1, SearchFindsFree DEF Claims!MoveClaim
    <3> QED BY <2>2, <3>2, ClaimFacts DEF Claims!MoveClaim
  <2> QED BY <2>1, <2>2 DEF Claims!MarkDirectDisplacing
<1> QED BY <1>1, <1>2, <1>3

LEMMA ServeStart ==
  ASSUME Alone, IInv, Serving, NEW c \in Clients, Start(c)
  PROVE  Serving'
<1>1. freed = {} /\ \A d \in Clients : pc[d] = "idle"
  BY StartsAlone
<1>2. UNCHANGED <<claimVars, engineVars, target, moved, carry, was, freed>>
  BY DEF Start
<1>3. /\ pc'[c] \in {"place", "lookup"}
      /\ \A d \in Clients \ {c} : pc'[d] = "idle"
  BY <1>1 DEF Start, Goto, IInv, Handling
<1>4. OneAtATime'
  BY <1>1, <1>2, <1>3 DEF Serving, OneAtATime, Open, claimVars, engineVars
<1>5. AllEntitled'
  BY <1>1, <1>2 DEF Serving, AllEntitled, Taking, Entitled, claimVars, engineVars
<1>6. \A d \in Clients : Knows(d)'
  BY <1>1, <1>2, <1>3 DEF Serving, Knows
<1> QED BY <1>4, <1>5, <1>6 DEF Serving

LEMMA ServeGetCaps ==
  ASSUME Alone, IInv, Serving, NEW c \in Clients, GetCaps(c) \/ GetCapsFails(c) \/ PlaceNameFails(c)
  PROVE  Serving'
<1>1. Handler(c) /\ pc[c] \in {"place", "claim"} /\ UNCHANGED <<claimVars, engineVars, freed>>
  BY DEF Handler, GetCaps, GetCapsFails, PlaceNameFails
<1>2. pc'[c] \in {"idle", "claim"} /\ carry'[c] = None /\ was'[c] = None
  BY <1>1 DEF GetCaps, GetCapsFails, PlaceNameFails, Goto, Done, IInv, Handling, Serving, Knows
<1>3. ~Open => pc'[c] = "idle"
  BY <1>1, RunsAlone DEF GetCaps, GetCapsFails, PlaceNameFails, Goto, Done, Claims!Ready, Open, IInv, Handling
<1>4. \A l \in LED : Entitled(l)' \/ Taking(c, l)'
  BY <1>1, RunsAlone DEF Taking, Entitled, claimVars, engineVars
<1>5. Knows(c)'
  BY <1>2 DEF Knows
<1> QED BY <1>1, <1>3, <1>4, <1>5, ServedOn DEF claimVars, engineVars

LEMMA ServePlaceName ==
  ASSUME Alone, IInv, IInv', Serving, NEW c \in Clients, PlaceName(c)
  PROVE  Serving'
<1> DEFINE n == req[c].addr.name
<1>1. Handler(c) /\ pc[c] = "claim" /\ Named(c) /\ Claims!ClaimOrGet(n)
      /\ UNCHANGED <<engineVars, freed>>
  BY DEF Handler, PlaceName
<1>2. n \in Names
  BY <1>1, RequestAddress DEF IInv, Handling, HandlerOK, Named
<1>3. /\ UNCHANGED <<present, settling, caps, pending>>
      /\ claims'[n] # NoKey => claims'[n] \in LED /\ owners'[claims'[n]] = n
      /\ \A l \in LED : owners'[l] # owners[l] => owners[l] = Unowned
  BY <1>1, <1>2, ClaimOwners DEF IInv
<1>4. Open /\ carry[c] = None /\ was[c] = None
  BY <1>1, RunsAlone DEF Serving, Knows
<1>5. \A l \in LED : Entitled(l)'
  <2>1. \A l \in LED : Entitled(l)
    BY <1>1, RunsAlone DEF Taking
  <2>2. Unowned \notin Names /\ Unowned # Direct
    BY OwnersDistinct
  <2> QED BY <1>1, <1>3, <2>1, <2>2 DEF Entitled, engineVars
<1>6. Knows(c)'
  <2>1. CASE claims'[n] = NoKey
    <3>1. Done(c)
      BY <2>1 DEF PlaceName
    <3> QED BY <3>1 DEF Done, Goto, Knows, IInv, Handling
  <2>2. CASE claims'[n] # NoKey
    <3>1. /\ target'[c] = claims'[n] /\ pc'[c] = "run"
          /\ UNCHANGED <<req, moved, carry, was>>
      BY <2>2 DEF PlaceName, Goto, IInv, Handling
    <3> QED BY <1>1, <1>3, <1>4, <2>2, <3>1 DEF Knows, Named
  <2> QED BY <2>1, <2>2
<1> QED BY <1>1, <1>3, <1>4, <1>5, <1>6, ServedOn

LEMMA ServePlaceDirect ==
  ASSUME Alone, IInv, IInv', Serving, NEW c \in Clients, PlaceDirect(c)
  PROVE  Serving'
<1>0. PICK l : l = req[c].addr.n
  OBVIOUS
<1> DEFINE n == owners[l]
<1>1. /\ Handler(c) /\ pc[c] = "claim" /\ ~Named(c)
      /\ UNCHANGED <<engineVars, req, carry, freed>>
      /\ target' = [target EXCEPT ![c] = l]
      /\ Claims!MarkDirectDisplacing(l) \/ ~present
  BY <1>0 DEF Handler, PlaceDirect
<1>2. l \in LED
  BY <1>0, <1>1, RequestAddress DEF IInv, Handling, HandlerOK, Named
<1>3. Open /\ carry[c] = None /\ was[c] = None
  BY <1>1, RunsAlone DEF Serving, Knows
<1>4. Claims!MarkDirectDisplacing(l)
  BY <1>1, <1>3 DEF Open
<1>5. /\ UNCHANGED <<present, settling, caps, pending>>
      /\ owners'[l] = Direct
      /\ \A k \in LED \ {l} : owners'[k] # owners[k] => owners[k] = Unowned
      /\ \A m \in Names : claims'[m] # NoKey => claims'[m] \in LED /\ owners'[claims'[m]] = m
  BY <1>2, <1>4, MarkOwners DEF IInv
<1>6. \A k \in LED : Entitled(k)
  BY <1>1, RunsAlone DEF Taking
<1>7. target'[c] = l /\ ~Named(c)' /\ req'[c].addr.n = l
  BY <1>0, <1>1 DEF Named, IInv, Handling
<1>8. pc'[c] \in {"status", "run"} /\ carry'[c] = None
  BY <1>1, <1>3 DEF PlaceDirect, Goto, IInv, Handling
<1>9. \A k \in LED : Entitled(k)' \/ Taking(c, k)'
  <2>1. \A k \in LED \ {l} : Entitled(k)'
    <3>1. Unowned \notin Names /\ Unowned # Direct
      BY OwnersDistinct
    <3> QED BY <1>1, <1>5, <1>6, <3>1 DEF Entitled, engineVars
  <2>2. Taking(c, l)'
    BY <1>7, <1>8 DEF Taking
  <2> QED BY <2>1, <2>2
<1>10. Knows(c)'
  <2>1. CASE n \in Names /\ claims'[n] # NoKey
    <3>1. pc'[c] = "status" /\ moved'[c] = claims'[n] /\ was'[c] = record[l] /\ UNCHANGED record
      BY <1>0, <2>1 DEF PlaceDirect, Goto, IInv, Handling, engineVars
    <3>2. owners'[moved'[c]] = n
      BY <1>5, <2>1, <3>1
    <3>3. record[l] # None => record[l].addr = NameAddr(n)
      BY <1>2, <1>6, <2>1, OwnersDistinct DEF Entitled
    <3> HIDE DEF n
    <3> QED BY <1>5, <1>7, <1>8, <2>1, <3>1, <3>2, <3>3 DEF Knows
  <2>2. CASE ~(n \in Names /\ claims'[n] # NoKey)
    <3>1. pc'[c] = "run" /\ was'[c] = None
      BY <1>0, <1>3, <2>2 DEF PlaceDirect, Goto, IInv, Handling
    <3> HIDE DEF n
    <3> QED BY <1>5, <1>7, <1>8, <3>1 DEF Knows
  <2> QED BY <2>1, <2>2
<1> QED BY <1>1, <1>3, <1>5, <1>9, <1>10, ServedOn

LEMMA ServeReadStatus ==
  ASSUME Alone, IInv, Serving, NEW c \in Clients, ReadStatus(c)
  PROVE  Serving'
<1>1. /\ Handler(c) /\ pc[c] = "status" /\ pc'[c] = "run"
      /\ UNCHANGED <<claimVars, engineVars, req, target, moved, was, freed>>
      /\ carry'[c] = record[target[c]]
  BY DEF Handler, ReadStatus, Goto, IInv, Handling
<1>2. Open
  BY <1>1, RunsAlone
<1>3. \A l \in LED : Entitled(l)' \/ Taking(c, l)'
  BY <1>1, RunsAlone DEF Taking, Entitled, Named, claimVars, engineVars
<1>4. Knows(c)'
  BY <1>1 DEF Serving, Knows, Named, claimVars, engineVars
<1> QED BY <1>1, <1>2, <1>3, <1>4, ServedOn DEF claimVars

\* SetColorFrom and StartFrom on a slot with capabilities.
LEMMA ApplyOpen ==
  ASSUME IInv, Open, NEW l \in LED, NEW r, Apply(l, r)
  PROVE  UNCHANGED claimVars /\ record' = [record EXCEPT ![l] = r]
BY WriteOpen DEF Apply

LEMMA ServeRunWrite ==
  ASSUME Alone, IInv, Serving, NEW c \in Clients, RunWrite(c)
  PROVE  Serving'
<1>1. Handler(c) /\ pc[c] = "run" /\ UNCHANGED freed
  BY DEF Handler, RunWrite
<1>2. Open
  BY <1>1, RunsAlone
<1>3. target[c] \in LED /\ req[c] \in Requests
  BY <1>1 DEF IInv, Handling, HandlerOK
<1>T. PICK t \in LED : t = target[c]
  BY <1>3
<1>4. UNCHANGED claimVars /\ record' = [record EXCEPT ![target[c]] = req[c]]
  BY <1>2, <1>3, ApplyOpen DEF RunWrite
<1>5. record'[t] = req[c] /\ \A l \in LED \ {t} : record'[l] = record[l]
  BY <1>3, <1>4, <1>T DEF IInv, Recorded
<1>6. UNCHANGED <<present, settling, caps, pending, owners, claims>>
  BY <1>4 DEF claimVars
<1>7. Entitled(t)'
  <2>1. CASE Named(c)
    <3>1. req[c].addr = NameAddr(owners[t]) /\ owners[t] \in Names
      BY <1>1, <1>3, <1>T, <2>1, RequestAddress DEF Serving, Knows, Named
    <3> QED BY <1>5, <1>6, <3>1 DEF Entitled
  <2>2. CASE ~Named(c)
    <3>1. req[c].addr = LedAddr(t) /\ owners[t] = Direct
      BY <1>1, <1>3, <1>T, <2>2, RequestAddress DEF Serving, Knows, Named
    <3> QED BY <1>5, <1>6, <3>1 DEF Entitled
  <2> QED BY <2>1, <2>2
<1>8. \A l \in LED : Entitled(l)'
  <2>1. \A l \in LED \ {t} : Entitled(l)
    BY <1>1, <1>T, RunsAlone DEF Taking
  <2> QED BY <1>5, <1>6, <1>7, <2>1 DEF Entitled
<1>9. Knows(c)'
  <2>1. CASE carry[c] = None
    BY <1>1, <2>1 DEF RunWrite, Done, Goto, Knows, IInv, Handling
  <2>2. CASE carry[c] # None
    <3>1. pc'[c] = "carry" /\ UNCHANGED <<req, target, moved, carry, was>>
      BY <2>2 DEF RunWrite, Goto, IInv, Handling
    <3> QED BY <1>1, <1>6, <3>1 DEF Serving, Knows
  <2> QED BY <2>1, <2>2
<1> QED BY <1>1, <1>2, <1>6, <1>8, <1>9, ServedOn

LEMMA ServeReplay ==
  ASSUME Alone, IInv, Serving, NEW c \in Clients, Replay(c)
  PROVE  /\ Serving'
         /\ record'[moved[c]] = was[c]
<1>1. Handler(c) /\ pc[c] = "carry" /\ UNCHANGED freed /\ Done(c)
  BY DEF Handler, Replay
<1>2. Open
  BY <1>1, RunsAlone
<1>3. moved[c] \in LED /\ carry[c] # None
  BY <1>1 DEF IInv, Handling, HandlerOK
<1>4. UNCHANGED claimVars /\ record' = [record EXCEPT ![moved[c]] = carry[c]]
  BY <1>2, <1>3, ApplyOpen DEF Replay
<1>5. record'[moved[c]] = carry[c] /\ \A l \in LED \ {moved[c]} : record'[l] = record[l]
  BY <1>3, <1>4 DEF IInv, Recorded
<1>6. UNCHANGED <<present, settling, caps, pending, owners, claims>>
  BY <1>4 DEF claimVars
<1>7. /\ carry[c] = was[c]
      /\ owners[moved[c]] \in Names /\ carry[c].addr = NameAddr(owners[moved[c]])
  BY <1>1, <1>3 DEF Serving, Knows
<1>8. \A l \in LED : Entitled(l)'
  <2>1. \A l \in LED : Entitled(l)
    BY <1>1, RunsAlone DEF Taking
  <2> QED BY <1>5, <1>6, <1>7, <2>1 DEF Entitled
<1>9. Knows(c)'
  BY <1>1 DEF Done, Goto, Knows, IInv, Handling
<1> QED BY <1>1, <1>2, <1>5, <1>6, <1>7, <1>8, <1>9, ServedOn

LEMMA ServeLookup ==
  ASSUME Alone, IInv, Serving, NEW c \in Clients, Lookup(c)
  PROVE  Serving'
<1>1. Handler(c) /\ pc[c] = "lookup" /\ UNCHANGED <<claimVars, engineVars, freed>>
  BY DEF Handler, Lookup
<1>2. \A l \in LED : Entitled(l)' \/ Taking(c, l)'
  BY <1>1, RunsAlone DEF Taking, Entitled, claimVars, engineVars
<1>3. CASE Done(c)
  <2>1. pc'[c] = "idle" /\ Knows(c)'
    BY <1>3 DEF Done, Goto, Knows, IInv, Handling
  <2> QED BY <1>1, <1>2, <2>1, ServedOn DEF claimVars, engineVars
<1>4. CASE ~Done(c)
  <2> DEFINE l == IF ~Named(c) THEN req[c].addr.n ELSE claims[req[c].addr.name]
  <2>1. /\ present /\ ~settling /\ l # NoKey /\ (~Named(c) => caps # NoCaps)
        /\ target' = [target EXCEPT ![c] = l]
        /\ Goto(c, "clear")
        /\ UNCHANGED <<req, moved, carry, was>>
    BY <1>4 DEF Lookup
  <2>2. Open
    <3>1. CASE Named(c)
      <4>1. req[c].addr.name \in Names
        BY <1>1, <3>1, RequestAddress DEF IInv, Handling, HandlerOK, Named
      <4> QED BY <2>1, <3>1, <4>1, ClaimFacts, NoCapsIsNoBoard DEF IInv, Open
    <3>2. CASE ~Named(c)
      BY <2>1, <3>2 DEF Open
    <3> QED BY <3>1, <3>2
  <2>3. pc'[c] = "clear" /\ target'[c] = l
    BY <1>1, <2>1 DEF Goto, IInv, Handling
  <2>4. Knows(c)'
    BY <1>1, <2>1, <2>3 DEF Serving, Knows, Named, claimVars
  <2> QED BY <1>1, <1>2, <2>2, <2>4, ServedOn DEF claimVars
<1> QED BY <1>3, <1>4

\* The blanking path on a slot with capabilities.
LEMMA BlankOpen ==
  ASSUME IInv, Open, NEW l \in LED, Blank(l)
  PROVE  /\ UNCHANGED claimVars
         /\ record' = [record EXCEPT ![l] = None]
         /\ running' = [running EXCEPT ![l] = None]
BY WriteOpen DEF Blank

LEMMA ServeClear ==
  ASSUME Alone, IInv, Serving, NEW c \in Clients, Clear(c)
  PROVE  Serving'
<1>1. Handler(c) /\ pc[c] = "clear" /\ UNCHANGED freed
  BY DEF Handler, Clear
<1>2. Open /\ target[c] \in LED
  BY <1>1, RunsAlone DEF IInv, Handling, HandlerOK
<1>3. \A l \in LED : Entitled(l)
  BY <1>1, RunsAlone DEF Taking
<1>4. CASE Done(c) /\ UNCHANGED <<claimVars, engineVars>>
  <2>1. Knows(c)' /\ pc'[c] = "idle"
    BY <1>4 DEF Done, Goto, Knows, IInv, Handling
  <2> QED BY <1>1, <1>2, <1>3, <1>4, <2>1, ServedOn DEF claimVars, engineVars, Entitled
<1>5. CASE Blank(target[c])
  <2>1. UNCHANGED <<present, settling, caps, pending, owners, claims>>
    BY <1>2, <1>5, BlankOpen DEF claimVars
  <2>2. record'[target[c]] = None /\ \A l \in LED \ {target[c]} : record'[l] = record[l]
    BY <1>2, <1>5, BlankOpen DEF IInv, Recorded
  <2>3. \A l \in LED : Entitled(l)'
    BY <1>3, <2>1, <2>2 DEF Entitled
  <2>4. Knows(c)'
    <3>1. CASE Done(c)
      BY <3>1 DEF Done, Goto, Knows, IInv, Handling
    <3>2. CASE ~Done(c)
      <4>1. pc'[c] = "release" /\ UNCHANGED <<req, target, moved, carry, was>>
        BY <1>1, <3>2 DEF Clear, Goto, IInv, Handling
      <4> QED BY <1>1, <2>1, <2>2, <4>1 DEF Serving, Knows, Named
    <3> QED BY <3>1, <3>2
  <2> QED BY <1>1, <1>2, <2>1, <2>3, <2>4, ServedOn
<1> QED BY <1>4, <1>5 DEF Clear

LEMMA ServeRelease ==
  ASSUME Alone, IInv, Serving, NEW c \in Clients, Release(c)
  PROVE  Serving'
<1> DEFINE n == req[c].addr.name
<1>1. Handler(c) /\ pc[c] = "release" /\ Done(c) /\ UNCHANGED <<engineVars, freed>>
  BY DEF Handler, Release
<1>2. Open /\ Named(c)
  BY <1>1, RunsAlone DEF IInv, Handling, HandlerOK
<1>3. claims[n] = target[c] /\ record[target[c]] = None
  BY <1>1, <1>2 DEF Serving, Knows
<1>4. /\ UNCHANGED <<present, settling, caps, pending>>
      /\ \A l \in LED : owners'[l] # owners[l] => claims[n] = l
  BY DEF Release, Claims!ReleaseClaim, Claims!ReleaseAll, claimVars
<1>5. \A l \in LED : Entitled(l)'
  <2>1. \A l \in LED : Entitled(l)
    BY <1>1, RunsAlone DEF Taking
  <2> QED BY <1>1, <1>3, <1>4, <2>1 DEF Entitled, engineVars
<1>6. Knows(c)'
  BY <1>1 DEF Done, Goto, Knows, IInv, Handling
<1> QED BY <1>1, <1>2, <1>4, <1>5, <1>6, ServedOn

\* Handlers are where they were, and so is what they rely on.
LEMMA ServedMeanwhile ==
  ASSUME Serving, UNCHANGED <<clientVars, owners, claims, record>>
  PROVE  \A c \in Clients : Knows(c)'
<1>1. UNCHANGED <<pc, req, target, moved, carry, was>>
  BY DEF clientVars
<1>2. \A c \in Clients : Named(c)' = Named(c)
  BY <1>1 DEF Named
<1> QED BY <1>1, <1>2 DEF Serving, Knows

LEMMA ServeTick ==
  ASSUME Alone, IInv, Serving, NEW l \in LED, TickFrame(l) \/ TickEnds(l) \/ TickFails(l)
  PROVE  Serving'
<1>1. running[l] # None /\ UNCHANGED <<record, clientVars, freed>>
  BY DEF TickFrame, TickEnds, TickFails
<1>2. Open
  BY <1>1 DEF Serving, OneAtATime
<1>3. UNCHANGED claimVars
  BY <1>2, WriteOpen DEF TickFrame, TickEnds, TickFails
<1>4. \A c \in Clients : Knows(c)'
  BY <1>1, <1>3, ServedMeanwhile DEF claimVars
<1>5. OneAtATime'
  BY <1>1, <1>2, <1>3 DEF Serving, OneAtATime, Open, claimVars, clientVars
<1>6. AllEntitled'
  BY <1>1, <1>3 DEF Serving, AllEntitled, Taking, Entitled, Named, claimVars, clientVars
<1> QED BY <1>4, <1>5, <1>6 DEF Serving

LEMMA ServeSweep ==
  ASSUME Alone, IInv, Serving, Sweep
  PROVE  Serving'
<1>1. /\ \A c \in Clients : pc[c] = "idle"
      /\ freed = {} /\ freed' = {claims[n] : n \in Claims!Expired}
      /\ UNCHANGED <<engineVars, clientVars>>
      /\ Claims!SweepIdleClaims
  BY DEF Alone, Sweep, BetweenRequests, InFlight
<1>2. /\ UNCHANGED <<present, settling, caps, pending>>
      /\ present /\ ~settling
      /\ \A l \in LED : owners'[l] # owners[l] => l \in freed'
  BY <1>1 DEF Claims!SweepIdleClaims, Claims!ReleaseAll
<1>3. Open
  <2>1. PICK n \in Names : claims[n] # NoKey
    BY <1>1 DEF Claims!SweepIdleClaims, Claims!Expired
  <2> QED BY <1>2, <2>1, ClaimFacts, NoCapsIsNoBoard DEF IInv, Open
<1>4. OneAtATime'
  BY <1>1, <1>2, <1>3 DEF Serving, OneAtATime, Open, clientVars
<1>5. AllEntitled'
  <2>1. \A l \in LED : Entitled(l)
    BY <1>1 DEF Serving, AllEntitled, Taking
  <2> QED BY <1>1, <1>2, <2>1 DEF AllEntitled, Entitled, engineVars
<1>6. \A c \in Clients : Knows(c)'
  BY <1>1 DEF Serving, Knows, clientVars
<1> QED BY <1>4, <1>5, <1>6 DEF Serving

LEMMA ServeSweepBlank ==
  ASSUME Alone, IInv, Serving, NEW l \in LED, SweepBlank(l)
  PROVE  Serving'
<1>1. /\ l \in freed /\ freed' = freed \ {l} /\ Blank(l)
      /\ UNCHANGED clientVars
  BY DEF SweepBlank
<1>2. Open /\ \A c \in Clients : pc[c] = "idle"
  BY <1>1 DEF Serving, OneAtATime
<1>3. UNCHANGED claimVars /\ record' = [record EXCEPT ![l] = None]
  BY <1>1, <1>2, BlankOpen
<1>4. OneAtATime'
  BY <1>1, <1>2, <1>3 DEF Serving, OneAtATime, Open, clientVars, claimVars
<1>5. AllEntitled'
  <2>1. \A k \in LED : Entitled(k) \/ k \in freed
    BY <1>2 DEF Serving, AllEntitled, Taking
  <2>2. record'[l] = None /\ \A k \in LED \ {l} : record'[k] = record[k]
    BY <1>3 DEF IInv, Recorded
  <2>3. Entitled(l)'
    BY <2>2 DEF Entitled
  <2>4. \A k \in LED \ {l} : Entitled(k)' \/ k \in freed'
    BY <1>1, <1>3, <2>1, <2>2 DEF Entitled, claimVars
  <2> QED BY <2>3, <2>4 DEF AllEntitled
<1>6. \A c \in Clients : Knows(c)'
  BY <1>1, <1>2 DEF Serving, Knows, clientVars
<1> QED BY <1>4, <1>5, <1>6 DEF Serving

\* Steps that touch neither the owners nor the engine.
LEMMA ServeSlot ==
  ASSUME Alone, IInv, Serving, Age \/ SlotAdded \/ SetCaps \/ SetCapsDone \/ UNCHANGED vars
  PROVE  Serving'
<1>1. UNCHANGED <<owners, claims, pending, engineVars, clientVars, freed>>
  BY DEF Age, Claims!Tick, SlotAdded, Claims!SlotAdded, SetCaps, Claims!SetCaps,
         SetCapsDone, Claims!SetCapsDone, vars, claimVars
<1>2. Open => Open'
  BY DEF Open, Age, Claims!Tick, SlotAdded, Claims!SlotAdded, SetCaps, Claims!SetCaps,
         SetCapsDone, Claims!SetCapsDone, vars, claimVars
<1>3. OneAtATime'
  BY <1>1, <1>2 DEF Serving, OneAtATime, engineVars, clientVars
<1>4. AllEntitled'
  BY <1>1 DEF Serving, AllEntitled, Taking, Entitled, Named, engineVars, clientVars
<1>5. \A c \in Clients : Knows(c)'
  BY <1>1, ServedMeanwhile DEF engineVars
<1> QED BY <1>3, <1>4, <1>5 DEF Serving

LEMMA InitServing == Init => Serving
<1> SUFFICES ASSUME Init PROVE Serving
  OBVIOUS
<1>1. OneAtATime
  BY DEF Init, Claims!Init, OneAtATime
<1>2. AllEntitled /\ \A c \in Clients : Knows(c)
  BY DEF Init, AllEntitled, Entitled, Knows
<1> QED BY <1>1, <1>2 DEF Serving

LEMMA StepServing ==
  ASSUME Alone
  PROVE  IInv /\ Serving /\ [Next]_vars => Serving'
<1> SUFFICES ASSUME IInv, Serving, [Next]_vars PROVE Serving'
  OBVIOUS
<1>0. IInv'
  BY StepIInv
<1>1. ASSUME NEW c \in Clients, Handler(c) PROVE Serving'
  BY <1>0, <1>1, ServeGetCaps, ServePlaceName, ServePlaceDirect, ServeReadStatus, ServeRunWrite,
     ServeReplay, ServeLookup, ServeClear, ServeRelease DEF Handler
<1>2. CASE SlotEvicted
  BY <1>2 DEF SlotEvicted, Alone
<1>3. CASE ResolvePending
  BY <1>3 DEF ResolvePending, Claims!ResolvePending, Serving, OneAtATime
<1> QED BY <1>1, <1>2, <1>3, ServeStart, ServeTick, ServeSweep, ServeSweepBlank, ServeSlot DEF Next

LEMMA ServingHolds ==
  ASSUME Alone PROVE Spec => [](IInv /\ Serving)
<1>1. IInv /\ Serving /\ [Next]_vars => (IInv /\ Serving)'
  BY StepIInv, StepServing
<1> QED BY <1>1, InitIInv, InitServing, PTL DEF Spec

\* Requests served one at a time: once a request is done and the sweep has
\* blanked what it freed, whatever is on record for a key was asked for by its
\* owner.  Claims move, expire and are displaced along with their pictures.
THEOREM KeysAlwaysShowTheirOwners ==
  ASSUME Alone PROVE Spec => []KeysShowTheirOwners
<1>1. Serving => KeysShowTheirOwners
  BY DEF Serving, AllEntitled, Entitled, Taking, KeysShowTheirOwners, Quiet, InFlight
<1> QED BY <1>1, ServingHolds, PTL

\* Requests served one at a time: the request displaced by a direct write is
\* replayed on the key its claim moved to.  The status is read before the key
\* is overwritten, and nothing changes the claim between the two.
THEOREM DisplacedRequestsFollow ==
  ASSUME Alone PROVE Spec => DisplacedRequestFollows
<1> DEFINE Ends(c) == pc[c] \in {"run", "carry"} /\ pc'[c] = "idle" /\ was[c] # None
           Follows == \A c \in Clients : Ends(c) => record'[moved[c]] = was[c]
<1>1. IInv /\ Serving /\ [Next]_vars => [Follows]_vars
  <2> SUFFICES ASSUME IInv, Serving, [Next]_vars, NEW c \in Clients, Ends(c)
               PROVE  record'[moved[c]] = was[c]
    OBVIOUS
  <2>P. pc \in [Clients -> Labels]
    BY DEF IInv, Handling
  <2>1. RunWrite(c) \/ Replay(c)
    BY <2>P, OnlyItsSteps
       DEF Start, Handler, GetCaps, GetCapsFails, PlaceName, PlaceNameFails, PlaceDirect,
           ReadStatus, Lookup, Clear, Release, Goto
  <2>2. CASE RunWrite(c)
    <3>1. carry[c] = was[c]
      BY <2>2 DEF RunWrite, Serving, Knows
    <3>2. pc'[c] = "carry"
      BY <2>2, <2>P, <3>1 DEF RunWrite, Goto
    <3> QED BY <3>2
  <2>3. CASE Replay(c)
    BY <2>3, ServeReplay
  <2> QED BY <2>1, <2>2, <2>3
<1> QED BY <1>1, ServingHolds, PTL DEF Spec, DisplacedRequestFollows
==============================================================================

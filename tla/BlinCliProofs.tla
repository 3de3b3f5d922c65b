---------------------------- MODULE BlinCliProofs ----------------------------
(***************************************************************************)
(* Proofs about BlinCli for every set of sessions and their invocations,   *)
(* every board, layout and idle timeout.                                   *)
(*                                                                         *)
(* First what holds whoever calls: the daemon's claim tables keep          *)
(* KeyClaims' invariant, and each request does to the keys what its lemma  *)
(* says.  Then, for sessions whose owner tags tell them apart (Told):      *)
(* where the color of a session's last set is (Lasting).                   *)
(***************************************************************************)
EXTENDS BlinCli, SequenceTheorems, TLAPS

(***************************************************************************)
(* The claim tables are KeyClaims', and what is proved of KeyClaims holds  *)
(* of them.  ClaimProofs names the theorems; its definitions are those of  *)
(* Claims once more.                                                       *)
(***************************************************************************)
ClaimProofs == INSTANCE KeyClaimsProofs WITH Matrices <- {Board}, PendAddrs <- {}

\* This board meets what KeyClaims assumes of every board.
LEMMA BoardMeetsAssumptions ==
  /\ ClaimProofs!OwnersDistinct /\ ClaimProofs!NoKeyIsNoLED
  /\ ClaimProofs!NoCapsDistinct /\ ClaimProofs!MaxAgeIsNat
  /\ ClaimProofs!MatricesFit /\ ClaimProofs!MatricesValid
  /\ ClaimProofs!LayoutsValid /\ ClaimProofs!PendAddrsForm
<1>1. /\ ClaimProofs!OwnersDistinct /\ ClaimProofs!NoKeyIsNoLED
      /\ ClaimProofs!NoCapsDistinct /\ ClaimProofs!MaxAgeIsNat
  BY OwnersDistinct, NoKeyIsNoLED, NoCapsIsNoBoard, MaxAgeIsNat
     DEF ClaimProofs!OwnersDistinct, ClaimProofs!NoKeyIsNoLED,
         ClaimProofs!NoCapsDistinct, ClaimProofs!MaxAgeIsNat
<1>2. ClaimProofs!MatricesFit /\ ClaimProofs!MatricesValid
  BY BoardValid
     DEF ClaimProofs!MatricesFit, ClaimProofs!MatricesValid,
         ClaimProofs!LEDsOf, ClaimProofs!ValidCaps, ClaimProofs!Keyed, ClaimProofs!NoKeyRowCol,
         LEDsOf, ValidCaps, Keyed, NoKeyRowCol
<1>3. ClaimProofs!LayoutsValid
  BY LayoutsValid DEF ClaimProofs!LayoutsValid, ClaimProofs!ValidLayout, ValidLayout
<1>4. ClaimProofs!PendAddrsForm
  BY DEF ClaimProofs!PendAddrsForm
<1> QED BY <1>1, <1>2, <1>3, <1>4

LEMMA SameOrder ==
  ASSUME NEW lay, NEW c
  PROVE  /\ Claims!Pool(lay, c) = ClaimProofs!Pool(lay, c)
         /\ \A l, m : Claims!PoolBefore(lay, c, l, m) = ClaimProofs!PoolBefore(lay, c, l, m)
         /\ \A a : Claims!Resolve(a, c) = ClaimProofs!Resolve(a, c)
<1>1. \A S : Claims!Cardinality(S) = ClaimProofs!Cardinality(S)
  BY DEF Claims!Cardinality, ClaimProofs!Cardinality
<1>2. Claims!LEDsOf(c) = ClaimProofs!LEDsOf(c) /\ Claims!Keyed(c) = ClaimProofs!Keyed(c)
  BY DEF Claims!LEDsOf, ClaimProofs!LEDsOf, Claims!Keyed, ClaimProofs!Keyed,
         Claims!NoKeyRowCol, ClaimProofs!NoKeyRowCol
<1>3. \A l, m : Claims!ReadsBefore(c, l, m) = ClaimProofs!ReadsBefore(c, l, m)
  BY DEF Claims!ReadsBefore, ClaimProofs!ReadsBefore
<1>4. \A l : Claims!IdxOf(c, l) = ClaimProofs!IdxOf(c, l)
  BY <1>1, <1>2, <1>3 DEF Claims!IdxOf, ClaimProofs!IdxOf
<1>5. \A a : Claims!Resolve(a, c) = ClaimProofs!Resolve(a, c)
  BY <1>2, <1>4 DEF Claims!Resolve, ClaimProofs!Resolve
<1>6. \A i : Claims!IdxAddr(i) = ClaimProofs!IdxAddr(i)
  BY DEF Claims!IdxAddr, ClaimProofs!IdxAddr
<1>7. \A s : Claims!LedsOfIdx(c, s) = ClaimProofs!LedsOfIdx(c, s)
  BY <1>5, <1>6 DEF Claims!LedsOfIdx, ClaimProofs!LedsOfIdx
<1>8. Claims!Pool(lay, c) = ClaimProofs!Pool(lay, c)
  BY <1>2, <1>7 DEF Claims!Pool, ClaimProofs!Pool, Claims!NoKeyRowCol, ClaimProofs!NoKeyRowCol
<1>9. \A l, m : Claims!PoolBefore(lay, c, l, m) = ClaimProofs!PoolBefore(lay, c, l, m)
  BY <1>3, <1>5, <1>6 DEF Claims!PoolBefore, ClaimProofs!PoolBefore
<1> QED BY <1>5, <1>8, <1>9

LEMMA SameSearch == Claims!nextUnclaimed = ClaimProofs!nextUnclaimed
BY SameOrder DEF Claims!nextUnclaimed, ClaimProofs!nextUnclaimed, Claims!FreePool, ClaimProofs!FreePool

LEMMA SameClaimOrGet ==
  ASSUME NEW n, Claims!ClaimOrGet(n) PROVE ClaimProofs!ClaimOrGet(n)
BY SameSearch DEF Claims!ClaimOrGet, ClaimProofs!ClaimOrGet, Claims!Ready, ClaimProofs!Ready,
                  Claims!ClaimOrGetLocked, ClaimProofs!ClaimOrGetLocked

LEMMA SameMark ==
  ASSUME NEW l, Claims!MarkDirectDisplacing(l) PROVE ClaimProofs!MarkDirectDisplacing(l)
BY SameSearch DEF Claims!MarkDirectDisplacing, ClaimProofs!MarkDirectDisplacing,
                  Claims!MoveClaim, ClaimProofs!MoveClaim,
                  Claims!MarkDirectLocked, ClaimProofs!MarkDirectLocked

LEMMA SameRelease ==
  ASSUME NEW n, Claims!ReleaseClaim(n) PROVE ClaimProofs!ReleaseClaim(n)
BY DEF Claims!ReleaseClaim, ClaimProofs!ReleaseClaim, Claims!Ready, ClaimProofs!Ready,
       Claims!ReleaseAll, ClaimProofs!ReleaseAll

LEMMA SameSweep == Claims!SweepIdleClaims => ClaimProofs!SweepIdleClaims
BY DEF Claims!SweepIdleClaims, ClaimProofs!SweepIdleClaims, Claims!Expired, ClaimProofs!Expired,
       Claims!ReleaseAll, ClaimProofs!ReleaseAll

LEMMA SameTick == Claims!Tick => ClaimProofs!Tick
BY DEF Claims!Tick, ClaimProofs!Tick

(***************************************************************************)
(* The daemon's slot: KeyClaims' invariant, on a board that stays.         *)
(***************************************************************************)
SlotOK ==
  /\ ClaimProofs!IInv
  /\ layout \in Layouts /\ present = TRUE /\ caps = Board /\ settling = FALSE /\ pending = <<>>

LEMMA SlotFacts ==
  ASSUME SlotOK
  PROVE  /\ claims \in [Names -> LED \cup {NoKey}]
         /\ owners \in [LED -> Names \cup {Unowned, Direct}]
         /\ \A n \in Names, l \in LED : claims[n] = l <=> owners[l] = n
         /\ \A a : Resolve(a, caps) \subseteq LED
<1>1. \A a : Resolve(a, caps) \subseteq LED
  BY BoardValid DEF SlotOK, Resolve
<1> QED BY <1>1 DEF SlotOK, ClaimProofs!IInv, ClaimProofs!TypeOK, ClaimProofs!MapsAgree

LEMMA SlotInitially == Init => SlotOK
<1> SUFFICES ASSUME Init PROVE SlotOK
  OBVIOUS
<1>1. 0 \in 0 .. MaxAge + 1 /\ <<>> \in Seq({})
  BY MaxAgeIsNat
<1>2. ClaimProofs!TypeOK
  BY <1>1 DEF Init, ClaimProofs!TypeOK
<1>3. ClaimProofs!MapsAgree /\ ClaimProofs!ClaimsInPool /\ ClaimProofs!WaitingOnlyForCaps
  BY OwnersDistinct, NoKeyIsNoLED
     DEF Init, ClaimProofs!MapsAgree, ClaimProofs!ClaimsInPool, ClaimProofs!WaitingOnlyForCaps
<1> QED BY <1>2, <1>3 DEF Init, SlotOK, ClaimProofs!IInv

\* A step of the claim tables that a request or the sweep takes keeps the slot.
LEMMA SlotStep ==
  ASSUME SlotOK,
         \/ \E n \in Names : Claims!ClaimOrGet(n) \/ Claims!ReleaseClaim(n)
         \/ \E l \in LED : Claims!MarkDirectDisplacing(l)
         \/ Claims!SweepIdleClaims
         \/ Claims!Tick
         \/ UNCHANGED claimVars
  PROVE  SlotOK'
<1>1. ClaimProofs!Next \/ UNCHANGED ClaimProofs!vars
  BY SameClaimOrGet, SameRelease, SameMark, SameSweep, SameTick
     DEF ClaimProofs!Next, claimVars, ClaimProofs!vars
<1>2. ClaimProofs!IInv'
  BY <1>1, ClaimProofs!StepIInv, BoardMeetsAssumptions DEF SlotOK
<1>3. UNCHANGED <<layout, present, caps, settling, pending>>
  BY DEF Claims!ClaimOrGet, Claims!ReleaseClaim, Claims!MarkDirectDisplacing,
         Claims!SweepIdleClaims, Claims!Tick, claimVars
<1> QED BY <1>2, <1>3 DEF SlotOK

\* A key found by the search is an unowned LED.
LEMMA SearchFindsFree ==
  ASSUME SlotOK, NEW l \in Claims!nextUnclaimed
  PROVE  l \in LED /\ owners[l] = Unowned
<1>1. l \in Claims!Pool(layout, caps) /\ owners[l] = Unowned
  BY DEF Claims!nextUnclaimed, Claims!FreePool
<1>2. \A a : Claims!Resolve(a, caps) \subseteq Claims!LEDsOf(caps)
  BY DEF Claims!Resolve
<1>3. Claims!Pool(layout, caps) \subseteq Claims!LEDsOf(caps)
  BY <1>2 DEF Claims!Pool, Claims!LedsOfIdx
<1>4. Claims!LEDsOf(caps) = LEDsOf(Board)
  BY DEF Claims!LEDsOf, LEDsOf, SlotOK
<1> QED BY <1>1, <1>3, <1>4, BoardValid

------------------------------------------------------------------------------
(***************************************************************************)
(* What a key shows.                                                       *)
(***************************************************************************)
\* What a key shows is nothing, or lit.
IsShade(c) ==
  c = Dark \/ (c = [lit |-> TRUE, tag |-> c.tag, latest |-> c.latest] /\ c.latest \in BOOLEAN)

Shades == shown = [l \in LED |-> shown[l]] /\ \A l \in LED : IsShade(shown[l])

CliOK == SlotOK /\ Shades

\* A new request leaves the colors that are there, but the older ones of its
\* owner are the latest no more.
LEMMA AgedKeeps ==
  ASSUME Shades, NEW g, NEW l \in LED
  PROVE  /\ IsShade(Aged(g)[l])
         /\ Aged(g)[l] = Dark <=> shown[l] = Dark
         /\ Aged(g)[l].tag = shown[l].tag
         /\ Aged(g)[l].latest => shown[l].latest /\ shown[l].tag # g
<1> DEFINE c == shown[l]
<1>1. IsShade(c)
  BY DEF Shades
<1>2. Aged(g)[l] = IF c.tag = g THEN [lit |-> c.lit, tag |-> g, latest |-> FALSE] ELSE c
  BY DEF Aged
<1> HIDE DEF c
<1>3. CASE c = Dark
  <2>1. Aged(g)[l] = Dark
    BY <1>2, <1>3 DEF Dark
  <2>2. ~Aged(g)[l].latest
    BY <2>1 DEF Dark
  <2> QED BY <1>3, <2>1, <2>2 DEF IsShade, c
<1>4. CASE c # Dark
  <2>1. c = [lit |-> TRUE, tag |-> c.tag, latest |-> c.latest] /\ c.latest \in BOOLEAN
    BY <1>1, <1>4 DEF IsShade
  <2>2. CASE c.tag = g
    <3>1. c.lit
      BY <2>1
    <3>3. Aged(g)[l] = [lit |-> TRUE, tag |-> g, latest |-> FALSE]
      BY <1>2, <2>1, <2>2, <3>1
    <3>4. IsShade(Aged(g)[l]) /\ Aged(g)[l] # Dark /\ ~Aged(g)[l].latest /\ Aged(g)[l].tag = g
      BY <3>3 DEF IsShade, Dark
    <3> QED BY <1>4, <2>2, <3>4 DEF c
  <2>3. CASE c.tag # g
    BY <1>1, <1>2, <2>3 DEF c
  <2> QED BY <2>2, <2>3
<1> QED BY <1>3, <1>4

\* A direct write on l: the key is direct, and a claim on it, with its color if
\* it has one, went to a key that was nobody's, or is gone.
Lands(l, g) ==
  /\ owners'[l] = Direct /\ shown'[l] = Color(g)
  /\ \A k \in LED \ {l} :
       \/ owners'[k] = owners[k] /\ shown'[k] = Aged(g)[k]
       \/ /\ owners[k] = Unowned /\ owners[l] \in Names
          /\ owners'[k] = owners[l] /\ shown'[k] \in {Aged(g)[l], Aged(g)[k]}

LEMMA DirectOutcome ==
  ASSUME CliOK, NEW a, NEW g, PutDirect(a, g)
  PROVE  /\ SlotOK' /\ layout' = layout /\ shown' = [l \in LED |-> shown'[l]]
         /\ \/ \E l \in Resolve(a, caps) : Lands(l, g)
            \/ Resolve(a, caps) = {} /\ UNCHANGED <<claimVars, shown>>
<1>1. Resolve(a, caps) \subseteq LED /\ SlotOK /\ Shades
  BY SlotFacts DEF CliOK
<1>2. CASE Resolve(a, caps) = {} /\ UNCHANGED <<claimVars, shown>>
  BY <1>1, <1>2, SlotStep DEF claimVars, Shades
<1>3. ASSUME NEW l \in Resolve(a, caps),
             Claims!MarkDirectDisplacing(l),
             LET n == owners[l]
             IN shown' = IF n \in Names /\ claims'[n] # NoKey /\ shown[l].lit
                         THEN [Aged(g) EXCEPT ![l] = Color(g), ![claims'[n]] = Aged(g)[l]]
                         ELSE [Aged(g) EXCEPT ![l] = Color(g)]
      PROVE  /\ SlotOK' /\ layout' = layout /\ shown' = [k \in LED |-> shown'[k]]
             /\ Lands(l, g)
  <2>1. l \in LED /\ SlotOK' /\ layout' = layout
    BY <1>1, <1>3, SlotStep DEF Claims!MarkDirectDisplacing
  <2>2. /\ claims \in [Names -> LED \cup {NoKey}]
        /\ owners \in [LED -> Names \cup {Unowned, Direct}]
        /\ \A n \in Names, k \in LED : claims[n] = k <=> owners[k] = n
    BY <1>1, SlotFacts
  <2>3. Aged(g) = [k \in LED |-> Aged(g)[k]]
    BY DEF Aged
  <2>4. ASSUME NEW to \in LED, Claims!MoveClaim(l, to)
        PROVE  shown' = [k \in LED |-> shown'[k]] /\ Lands(l, g)
    <3> DEFINE n == owners[l]
    <3>1. /\ n \in Names /\ to \in Claims!nextUnclaimed
          /\ claims' = [claims EXCEPT ![n] = to]
          /\ owners' = [owners EXCEPT ![to] = n, ![l] = Direct]
      BY <2>4 DEF Claims!MoveClaim
    <3>2. owners[to] = Unowned /\ to # l /\ claims'[n] = to /\ to # NoKey
      BY <1>1, <2>2, <3>1, SearchFindsFree, OwnersDistinct, NoKeyIsNoLED
    <3>4. \/ shown' = [Aged(g) EXCEPT ![l] = Color(g), ![to] = Aged(g)[l]]
          \/ shown' = [Aged(g) EXCEPT ![l] = Color(g)]
      BY <1>3, <3>1, <3>2
    <3> HIDE DEF n
    <3>5. \A k \in LED \ {l} : \/ owners'[k] = owners[k] /\ shown'[k] = Aged(g)[k]
                               \/ k = to /\ owners'[k] = n /\ shown'[k] \in {Aged(g)[l], Aged(g)[k]}
      BY <2>1, <2>2, <2>3, <3>1, <3>2, <3>4
    <3>6. owners'[l] = Direct /\ shown'[l] = Color(g) /\ shown' = [k \in LED |-> shown'[k]]
      BY <2>1, <2>2, <2>3, <3>1, <3>2, <3>4
    <3> QED BY <3>1, <3>2, <3>5, <3>6 DEF Lands, n
  <2>5. CASE Claims!MarkDirectLocked(l)
    <3>1. /\ claims' = [n \in Names |-> IF owners[l] = n THEN NoKey ELSE claims[n]]
          /\ owners' = [owners EXCEPT ![l] = Direct]
      BY <2>5 DEF Claims!MarkDirectLocked
    <3>2. owners[l] \in Names => claims'[owners[l]] = NoKey
      BY <3>1
    <3>3. shown' = [Aged(g) EXCEPT ![l] = Color(g)]
      BY <1>3, <3>2
    <3> QED BY <2>1, <2>2, <2>3, <3>1, <3>3 DEF Lands
  <2> QED BY <1>3, <2>1, <2>4, <2>5 DEF Claims!MarkDirectDisplacing
<1> QED BY <1>2, <1>3 DEF PutDirect

\* A write under a name: the name has a key, its own or one that was nobody's,
\* which shows it; or there is none left and nothing changes.
Claimed(n, l) ==
  /\ owners'[l] = n /\ shown'[l] = Color(n) /\ owners[l] \in {n, Unowned}
  /\ \A k \in LED \ {l} : owners'[k] = owners[k] /\ shown'[k] = Aged(n)[k]

LEMMA NameOutcome ==
  ASSUME CliOK, NEW n \in Names, PutName(n)
  PROVE  /\ SlotOK' /\ layout' = layout /\ shown' = [l \in LED |-> shown'[l]]
         /\ \/ claims'[n] # NoKey /\ \E l \in LED : Claimed(n, l)
            \/ claims'[n] = NoKey /\ UNCHANGED <<claims, owners, shown>>
<1>1. SlotOK /\ Shades /\ Claims!ClaimOrGet(n)
  BY DEF CliOK, PutName
<1>2. SlotOK' /\ layout' = layout
  BY <1>1, SlotStep DEF Claims!ClaimOrGet
<1>3. /\ claims \in [Names -> LED \cup {NoKey}]
      /\ owners \in [LED -> Names \cup {Unowned, Direct}]
      /\ \A m \in Names, k \in LED : claims[m] = k <=> owners[k] = m
  BY <1>1, SlotFacts
<1>4. Aged(n) = [k \in LED |-> Aged(n)[k]]
  BY DEF Aged
<1>5. shown' = IF claims'[n] = NoKey THEN shown ELSE [Aged(n) EXCEPT ![claims'[n]] = Color(n)]
  BY DEF PutName
<1>6. CASE claims[n] # NoKey /\ UNCHANGED <<claims, owners>>
  <2>1. PICK l \in LED : l = claims[n]
    BY <1>3, <1>6
  <2>2. claims'[n] # NoKey /\ owners'[l] = n /\ owners[l] = n
    BY <1>3, <1>6, <2>1
  <2>3. shown' = [Aged(n) EXCEPT ![l] = Color(n)]
    BY <1>5, <1>6, <2>1
  <2> QED BY <1>2, <1>4, <1>6, <2>2, <2>3 DEF Claimed
<1>7. ASSUME NEW l \in Claims!nextUnclaimed, claims[n] = NoKey,
             claims' = [claims EXCEPT ![n] = l], owners' = [owners EXCEPT ![l] = n]
      PROVE  claims'[n] # NoKey /\ l \in LED /\ Claimed(n, l) /\ shown' = [k \in LED |-> shown'[k]]
  <2>1. l \in LED /\ owners[l] = Unowned /\ l # NoKey
    BY <1>1, SearchFindsFree, NoKeyIsNoLED
  <2>2. claims'[n] = l
    BY <1>3, <1>7
  <2>3. shown' = [Aged(n) EXCEPT ![l] = Color(n)]
    BY <1>5, <2>1, <2>2
  <2> QED BY <1>3, <1>4, <1>7, <2>1, <2>2, <2>3 DEF Claimed
<1>8. CASE claims[n] = NoKey /\ UNCHANGED <<claims, owners>>
  <2>1. claims'[n] = NoKey /\ shown' = shown
    BY <1>5, <1>8
  <2> QED BY <1>1, <1>2, <1>8, <2>1 DEF Shades
<1> QED BY <1>1, <1>2, <1>6, <1>7, <1>8 DEF Claims!ClaimOrGet, Claims!ClaimOrGetLocked

\* A clear by address, the blank of a name's, or the sweep: a key is as it was,
\* or dark, and only a dark one is freed.
Darkens ==
  \A l \in LED : \/ owners'[l] = owners[l] /\ shown'[l] \in {shown[l], Dark}
                 \/ owners'[l] = Unowned /\ shown'[l] = Dark

LEMMA DeleteDirectOutcome ==
  ASSUME CliOK, NEW a, NEW g, DeleteDirect(a, g)
  PROVE  /\ SlotOK' /\ UNCHANGED claimVars /\ shown' = [l \in LED |-> shown'[l]] /\ Darkens
         /\ \A l \in LED : IF l \in Resolve(a, caps) /\ ~Spared(l, g) THEN shown'[l] = Dark
                           ELSE shown'[l] = shown[l]
<1>1. SlotOK'
  BY SlotStep DEF CliOK, DeleteDirect
<1> QED BY <1>1 DEF DeleteDirect, Darkens, claimVars

\* The blank of a DELETE by name.
Blanks(k) == shown' = [shown EXCEPT ![k] = Dark] /\ UNCHANGED claimVars

LEMMA BlankOutcome ==
  ASSUME CliOK, NEW k, Blanks(k)
  PROVE  /\ SlotOK' /\ UNCHANGED claimVars /\ shown' = [l \in LED |-> shown'[l]] /\ Darkens
         /\ \A l \in LED : shown'[l] = IF l = k THEN Dark ELSE shown[l]
<1>1. SlotOK'
  BY SlotStep DEF CliOK, Blanks
<1>2. shown = [l \in LED |-> shown[l]]
  BY DEF CliOK, Shades
<1> QED BY <1>1, <1>2 DEF Blanks, Darkens, claimVars

\* Its release: the key of n is nobody's, and shows what it showed.
Releases(n) == Claims!ReleaseClaim(n) /\ UNCHANGED shown

Frees(n) ==
  /\ UNCHANGED shown
  /\ \A l \in LED : owners'[l] = IF owners[l] = n THEN Unowned ELSE owners[l]

LEMMA ReleaseOutcome ==
  ASSUME CliOK, NEW n \in Names, Releases(n)
  PROVE  SlotOK' /\ layout' = layout /\ claims[n] # NoKey /\ Frees(n)
<1>1. SlotOK' /\ layout' = layout /\ claims[n] # NoKey
  BY SlotStep DEF CliOK, Releases, Claims!ReleaseClaim
<1>2. /\ claims \in [Names -> LED \cup {NoKey}]
      /\ owners \in [LED -> Names \cup {Unowned, Direct}]
      /\ \A m \in Names, k \in LED : claims[m] = k <=> owners[k] = m
  BY SlotFacts DEF CliOK
<1>3. owners' = [l \in LED |-> IF claims[n] = l THEN Unowned ELSE owners[l]]
  BY DEF Releases, Claims!ReleaseClaim, Claims!ReleaseAll
<1> QED BY <1>1, <1>2, <1>3 DEF Frees, Releases

LEMMA SweepOutcome ==
  ASSUME CliOK, Sweep
  PROVE  SlotOK' /\ layout' = layout /\ shown' = [l \in LED |-> shown'[l]] /\ Darkens
<1>1. SlotOK' /\ layout' = layout
  BY SlotStep DEF CliOK, Sweep, Claims!SweepIdleClaims
<1> QED BY <1>1 DEF Sweep, Claims!SweepIdleClaims, Claims!ReleaseAll, Darkens

\* Whatever is asked of the daemon, in whatever order, keys are lit or dark.
LEMMA ShowsStep ==
  ASSUME CliOK, SlotOK', shown' = [l \in LED |-> shown'[l]],
         \/ \E l \in LED : \E g : Lands(l, g)
         \/ \E n \in Names, l \in LED : Claimed(n, l)
         \/ Darkens
  PROVE  CliOK'
<1>1. Shades
  BY DEF CliOK
<1>2. \A g : IsShade(Color(g))
  BY DEF IsShade, Color
<1>3. ASSUME NEW l \in LED, NEW g, Lands(l, g), NEW k \in LED
      PROVE  IsShade(shown'[k])
  BY <1>1, <1>2, <1>3, AgedKeeps DEF Lands
<1>4. ASSUME NEW n \in Names, NEW l \in LED, Claimed(n, l), NEW k \in LED
      PROVE  IsShade(shown'[k])
  BY <1>1, <1>2, <1>4, AgedKeeps DEF Claimed
<1>5. ASSUME Darkens, NEW k \in LED
      PROVE  IsShade(shown'[k])
  <2>1. shown'[k] \in {shown[k], Dark}
    BY <1>5 DEF Darkens
  <2> QED BY <1>1, <2>1 DEF Shades, IsShade
<1>6. \A k \in LED : IsShade(shown'[k])
  BY <1>3, <1>4, <1>5
<1> QED BY <1>6 DEF CliOK, Shades, IsShade

LEMMA CliInitially == Init => CliOK
<1> SUFFICES ASSUME Init PROVE CliOK
  OBVIOUS
<1>1. SlotOK
  BY SlotInitially
<1>2. Shades
  BY DEF Init, Shades, IsShade
<1> QED BY <1>1, <1>2 DEF CliOK

\* What a session's own request, or the sweep, does to the daemon.
Request ==
  \/ \E a, g : PutDirect(a, g) \/ DeleteDirect(a, g)
  \/ \E n \in Names : PutName(n) \/ Releases(n)
  \/ \E k : Blanks(k)
  \/ Sweep
  \/ Tick
  \/ UNCHANGED <<claimVars, shown>>

LEMMA RequestKeeps == ASSUME CliOK, Request PROVE CliOK' /\ layout' = layout
<1>1. SlotOK /\ Shades /\ shown = [l \in LED |-> shown[l]]
  BY DEF CliOK, Shades
<1>S. ASSUME SlotOK', UNCHANGED shown PROVE CliOK'
  BY <1>1, <1>S DEF CliOK, Shades, IsShade
<1>2. ASSUME NEW a, NEW g, PutDirect(a, g)
      PROVE  CliOK' /\ layout' = layout
  <2>1. CASE Resolve(a, caps) = {} /\ UNCHANGED <<claimVars, shown>>
    BY <1>S, <1>2, <2>1, DirectOutcome
  <2>2. ASSUME NEW l \in Resolve(a, caps), Lands(l, g)
        PROVE  CliOK' /\ layout' = layout
    BY <1>1, <1>2, <2>2, DirectOutcome, ShowsStep, SlotFacts
  <2> QED BY <1>2, <2>1, <2>2, DirectOutcome
<1>3. ASSUME NEW a, NEW g, DeleteDirect(a, g)
      PROVE  CliOK' /\ layout' = layout
  BY <1>3, DeleteDirectOutcome, ShowsStep DEF claimVars
<1>4. ASSUME NEW n \in Names, PutName(n)
      PROVE  CliOK' /\ layout' = layout
  <2>1. CASE UNCHANGED <<claims, owners, shown>>
    BY <1>S, <1>4, <2>1, NameOutcome
  <2>2. ASSUME NEW l \in LED, Claimed(n, l)
        PROVE  CliOK' /\ layout' = layout
    BY <1>4, <2>2, NameOutcome, ShowsStep
  <2> QED BY <1>4, <2>1, <2>2, NameOutcome
<1>5. ASSUME NEW n \in Names, Releases(n)
      PROVE  CliOK' /\ layout' = layout
  BY <1>S, <1>5, ReleaseOutcome DEF Releases
<1>6. ASSUME NEW k, Blanks(k)
      PROVE  CliOK' /\ layout' = layout
  BY <1>6, BlankOutcome, ShowsStep DEF claimVars
<1>7. CASE Sweep
  BY <1>7, SweepOutcome, ShowsStep
<1>8. CASE Tick \/ UNCHANGED <<claimVars, shown>>
  <2>1. SlotOK' /\ UNCHANGED <<layout, shown>>
    BY <1>1, <1>8, SlotStep DEF Tick, Claims!Tick, claimVars
  <2> QED BY <1>S, <2>1
<1> QED BY <1>2, <1>3, <1>4, <1>5, <1>6, <1>7, <1>8 DEF Request

\* A name's plan names one of the daemon's names.
LEMMA PlansName ==
  ASSUME NEW s \in Sessions, NEW plan \in Plans[s], plan.mode # "explicit"
  PROVE  plan.owner # <<>> /\ (plan.mode = "named" => plan.owner \in Names)
BY OwnersAreNames

\* What a DELETE by name does, step by step.
LEMMA NamedDelete ==
  ASSUME NEW s \in Sessions
  PROVE  /\ \A op, plan : LookupName(s, op, plan) => UNCHANGED <<claimVars, shown>>
         /\ BlankName(s) => Blanks(cmd[s].key)
         /\ ReleaseName(s) => \/ Releases(cmd[s].plan.owner)
                             \/ UNCHANGED <<claimVars, shown>>
BY DEF LookupName, Shares, Goes, BlankName, Blanks, ReleaseName, Releases

------------------------------------------------------------------------------
(***************************************************************************)
(* Where a session's last set is, for sessions known by one owner each.    *)
(***************************************************************************)
\* The plans with an owner, which name a tab slot or a name.
Own(s) == {plan \in Plans[s] : plan.mode # "explicit"}

\* Whatever the helpers answer, a session's plans have one owner, and no other
\* session's have it.
Told == \A s, t \in Sessions : \A p \in Own(s), q \in Own(t) : p.owner = q.owner <=> s = t

\* The key l is where the last set of s put its color: on its tab slot, on the
\* key its name claims, or, with no claim, on its shared slot.
Found(s, l) ==
  /\ last[s] # NoPlan
  /\ \/ /\ last[s].mode = "slot"
        /\ owners[l] = Direct /\ l \in Resolve(SlotAddr(s, last[s]), caps)
     \/ /\ last[s].mode = "named"
        /\ owners[l] = last[s].owner
     \/ /\ last[s].mode = "named" /\ claims[last[s].owner] = NoKey
        /\ owners[l] = Direct /\ l \in Resolve(SharedAddr(s, last[s]), caps)

\* What a session set last: a plan of its own, nothing any more, or one that is
\* lost and had the session's owner.
Keeps(s) ==
  \/ last[s] \in Own(s) \cup {NoPlan}
  \/ last[s].mode = "lost" /\ \E plan \in Own(s) : last[s].owner = plan.owner

\* The latest color a session set is where its last set put it.
ColorFound(s) ==
  last[s].mode # "lost" =>
    \A plan \in Own(s), l \in LED :
      shown[l].latest /\ shown[l].tag = plan.owner => Found(s, l)

\* A command under way is for a name; one at the shared slot has no claim, nor
\* has one whose key is blanked, if that is where the last set still is.
OnItsWay(s) ==
  cmd[s] # Idle =>
    LET c == cmd[s]
    IN /\ c = [at |-> c.at, op |-> c.op, plan |-> c.plan, key |-> c.key]
       /\ c.plan \in Own(s) /\ c.plan.mode = "named"
       /\ \/ c.at = "shared"
          \/ c.at = "release" /\ last[s].mode = "named"
          => claims[c.plan.owner] = NoKey

\* What holds of each session.
Lasts(s) == Keeps(s) /\ OnItsWay(s) /\ ColorFound(s)

Lasting ==
  /\ cmd = [s \in Sessions |-> cmd[s]]
  /\ last = [s \in Sessions |-> last[s]]
  /\ \A s \in Sessions : Lasts(s)

\* What others do to the daemon, or a session's own clear: no new color is g's.
Others(g) ==
  \/ \E l \in LED : \E h : h # g /\ Lands(l, h)
  \/ \E n \in Names, l \in LED : n # g /\ Claimed(n, l)
  \/ \E n \in Names : n # g /\ Frees(n)
  \/ Darkens
  \/ UNCHANGED <<owners, shown>>

\* Plans are records of one of three modes.
LEMMA PlanForm ==
  ASSUME NEW s \in Sessions, NEW plan \in Plans[s]
  PROVE  /\ plan.mode \in {"explicit", "slot", "named"} /\ plan # NoPlan
         /\ plan = [mode |-> plan.mode, key |-> plan.key, tab |-> plan.tab,
                    owner |-> plan.owner, given |-> plan.given]
<1>1. PICK inv \in Invocations[s] : plan = Qualify(PlanKey(inv), Host[s]) /\ plan # NoPlan
  BY DEF Plans
<1> DEFINE p == PlanKey(inv)
<1>2. /\ p = NoPlan \/ p.mode \in {"explicit", "slot", "named"}
      /\ p = [mode |-> p.mode, key |-> p.key, tab |-> p.tab, owner |-> p.owner, given |-> p.given]
  BY DEF PlanKey, Explicit, Named, Slot, NoPlan
<1> HIDE DEF p
<1>3. plan = p \/ plan = [p EXCEPT !.owner = <<Host[s]>> \o @]
  BY <1>1 DEF Qualify, p
<1>4. p # NoPlan
  <2>1. SUFFICES ASSUME p = NoPlan PROVE FALSE
    OBVIOUS
  <2>2. p.mode = "none"
    BY <2>1 DEF NoPlan
  <2>3. plan = p
    BY <1>1, <2>2 DEF Qualify, p
  <2> QED BY <1>1, <2>1, <2>3
<1>5. CASE plan = p
  BY <1>1, <1>2, <1>4, <1>5
<1>6. CASE plan = [p EXCEPT !.owner = <<Host[s]>> \o @]
  <2>1. plan = [mode |-> p.mode, key |-> p.key, tab |-> p.tab,
                owner |-> <<Host[s]>> \o p.owner, given |-> p.given]
    BY <1>2, <1>6
  <2> QED BY <1>1, <1>2, <1>4, <2>1
<1> QED BY <1>3, <1>5, <1>6

LEMMA OwnPlans ==
  ASSUME NEW s \in Sessions, NEW plan \in Own(s)
  PROVE  /\ plan \in Plans[s] /\ plan # NoPlan /\ plan.owner # <<>>
         /\ plan.mode = "named" => plan.owner \in Names
BY OwnersAreNames DEF Own, Plans

\* A name without a key stays without, unless it asks for one.
LEMMA NoKeyStays ==
  ASSUME CliOK, CliOK', NEW n \in Names, Others(n), claims[n] = NoKey
  PROVE  claims'[n] = NoKey
<1>1. /\ claims \in [Names -> LED \cup {NoKey}]
      /\ owners \in [LED -> Names \cup {Unowned, Direct}]
      /\ \A m \in Names, k \in LED : claims[m] = k <=> owners[k] = m
  BY SlotFacts DEF CliOK
<1>2. /\ claims' \in [Names -> LED \cup {NoKey}]
      /\ \A m \in Names, k \in LED : claims'[m] = k <=> owners'[k] = m
  BY DEF CliOK, SlotOK, ClaimProofs!IInv, ClaimProofs!TypeOK, ClaimProofs!MapsAgree
<1>3. \A k \in LED : owners[k] # n
  BY <1>1, NoKeyIsNoLED
<1>4. ASSUME NEW k \in LED, owners'[k] = n
      PROVE  FALSE
  <2>1. ASSUME NEW l \in LED, NEW h, h # n, Lands(l, h)
        PROVE  FALSE
    BY <1>3, <1>4, <2>1, OwnersDistinct DEF Lands
  <2>2. ASSUME NEW m \in Names, NEW l \in LED, m # n, Claimed(m, l)
        PROVE  FALSE
    BY <1>3, <1>4, <2>2 DEF Claimed
  <2>3. CASE Darkens \/ UNCHANGED <<owners, shown>>
    BY <1>3, <1>4, <2>3, OwnersDistinct DEF Darkens
  <2>4. ASSUME NEW m \in Names, Frees(m)
        PROVE  FALSE
    BY <1>3, <1>4, <2>4, OwnersDistinct DEF Frees
  <2> QED BY <2>1, <2>2, <2>3, <2>4 DEF Others
<1> QED BY <1>2, <1>4

\* Whatever others ask for, a session's latest color is where it was, or moved
\* with its claim, or gone, if it was on a direct key or its own.
LEMMA ColorsMove ==
  ASSUME CliOK, CliOK', NEW g, Others(g), g # <<>>,
         \A l \in LED : shown[l].latest /\ shown[l].tag = g => owners[l] = Direct \/ (owners[l] \in Names /\ owners[l] = g),
         NEW k \in LED, shown'[k].latest, shown'[k].tag = g
  PROVE  \E l \in LED :
           /\ shown[l].latest /\ shown[l].tag = g
           /\ owners'[k] = owners[l]
           /\ l = k \/ owners[l] \in Names
<1>1. Shades
  BY DEF CliOK
<1>2. ASSUME NEW l \in LED, NEW h, h # g, Lands(l, h)
      PROVE  \E j \in LED : /\ shown[j].latest /\ shown[j].tag = g
                            /\ owners'[k] = owners[j]
                            /\ j = k \/ owners[j] \in Names
  <2>1. k # l
    BY <1>2 DEF Lands, Color
  <2>2. CASE owners'[k] = owners[k] /\ shown'[k] = Aged(h)[k]
    BY <1>1, <2>2, AgedKeeps
  <2>3. CASE owners[l] \in Names /\ owners'[k] = owners[l] /\ shown'[k] = Aged(h)[l]
    BY <1>1, <2>3, AgedKeeps
  <2>4. CASE owners[k] = Unowned /\ owners[l] \in Names /\ owners'[k] = owners[l]
             /\ shown'[k] = Aged(h)[k]
    <3>1. shown[k].latest /\ shown[k].tag = g
      BY <1>1, <2>4, AgedKeeps
    <3> QED BY <2>4, <3>1, OwnersDistinct
  <2> QED BY <1>2, <2>1, <2>2, <2>3, <2>4 DEF Lands
<1>3. ASSUME NEW n \in Names, NEW l \in LED, n # g, Claimed(n, l)
      PROVE  shown[k].latest /\ shown[k].tag = g /\ owners'[k] = owners[k]
  <2>1. k # l
    BY <1>3 DEF Claimed, Color
  <2> QED BY <1>1, <1>3, <2>1, AgedKeeps DEF Claimed
<1>4. ASSUME Darkens
      PROVE  shown[k].latest /\ shown[k].tag = g /\ owners'[k] = owners[k]
  <2>1. shown'[k] # Dark
    BY DEF Dark
  <2> QED BY <1>4, <2>1 DEF Darkens
<1>5. ASSUME UNCHANGED <<owners, shown>>
      PROVE  shown[k].latest /\ shown[k].tag = g /\ owners'[k] = owners[k]
  BY <1>5
<1>6. ASSUME NEW n \in Names, n # g, Frees(n)
      PROVE  shown[k].latest /\ shown[k].tag = g /\ owners'[k] = owners[k]
  <2>1. shown[k].latest /\ shown[k].tag = g
    BY <1>6 DEF Frees
  <2>2. owners[k] # n
    BY <1>6, <2>1, OwnersDistinct
  <2> QED BY <1>6, <2>1, <2>2 DEF Frees
<1> QED BY <1>2, <1>3, <1>4, <1>5, <1>6 DEF Others

LEMMA BoardStays == ASSUME CliOK, CliOK' PROVE caps' = caps
BY DEF CliOK, SlotOK

\* The latest color of a session is found where it was looked for before.
LEMMA FoundStays ==
  ASSUME Told, Lasting, CliOK, CliOK', layout' = layout,
         NEW s \in Sessions, NEW plan \in Own(s), Others(plan.owner),
         last'[s] = last[s], last[s].mode # "lost",
         NEW k \in LED, shown'[k].latest, shown'[k].tag = plan.owner
  PROVE  Found(s, k)'
<1>1. ASSUME NEW l \in LED, shown[l].latest, shown[l].tag = plan.owner
      PROVE  Found(s, l) /\ last[s] \in Own(s) /\ last[s].owner = plan.owner
  <2>1. Found(s, l)
    BY <1>1 DEF Lasting, Lasts, ColorFound
  <2>2. last[s] \in Own(s)
    BY <2>1 DEF Lasting, Lasts, Keeps, Found
  <2> QED BY <2>1, <2>2 DEF Told
<1>2. \A l \in LED : shown[l].latest /\ shown[l].tag = plan.owner
                       => owners[l] = Direct \/ (owners[l] \in Names /\ owners[l] = plan.owner)
  BY <1>1, OwnPlans DEF Found
<1>3. plan.owner # <<>>
  BY OwnPlans
<1>4. PICK l \in LED : /\ shown[l].latest /\ shown[l].tag = plan.owner
                       /\ owners'[k] = owners[l]
                       /\ l = k \/ owners[l] \in Names
  BY <1>2, <1>3, ColorsMove
<1>5. Found(s, l) /\ last[s] \in Own(s) /\ last[s].owner = plan.owner
  BY <1>1, <1>4
<1>6. caps' = caps
  BY BoardStays
<1>7. SlotAddr(s, last[s])' = SlotAddr(s, last[s]) /\ SharedAddr(s, last[s])' = SharedAddr(s, last[s])
  BY DEF SlotAddr, SharedAddr, tabs
<1>8. last[s].mode = "named" /\ claims[last[s].owner] = NoKey => claims'[last[s].owner] = NoKey
  BY <1>5, NoKeyStays, OwnPlans
<1>9. owners[l] = Direct => l = k
  BY <1>4, OwnersDistinct
<1> QED BY <1>4, <1>5, <1>6, <1>7, <1>8, <1>9 DEF Found

\* Requests that set no color of g.
LEMMA RequestsOfOthers ==
  ASSUME CliOK, NEW g,
         \/ \E a, h : h # g /\ PutDirect(a, h)
         \/ \E n \in Names : n # g /\ PutName(n)
         \/ \E a, h : DeleteDirect(a, h)
         \/ \E n \in Names : n # g /\ Releases(n)
         \/ \E k : Blanks(k)
         \/ Sweep
         \/ Tick
         \/ UNCHANGED <<claimVars, shown>>
  PROVE  Others(g)
<1>1. \A a : Resolve(a, caps) \subseteq LED
  BY SlotFacts DEF CliOK
<1>2. ASSUME NEW a, NEW h, h # g, PutDirect(a, h)
      PROVE  Others(g)
  <2>1. CASE UNCHANGED <<claimVars, shown>>
    BY <2>1 DEF Others, claimVars
  <2>2. ASSUME NEW l \in Resolve(a, caps), Lands(l, h)
        PROVE  Others(g)
    BY <1>1, <1>2, <2>2 DEF Others
  <2> QED BY <1>2, <2>1, <2>2, DirectOutcome
<1>3. ASSUME NEW n \in Names, n # g, PutName(n)
      PROVE  Others(g)
  BY <1>3, NameOutcome DEF Others
<1>4. ASSUME NEW a, NEW h, DeleteDirect(a, h)
      PROVE  Others(g)
  BY <1>4, DeleteDirectOutcome DEF Others
<1>5. ASSUME NEW n \in Names, n # g, Releases(n)
      PROVE  Others(g)
  BY <1>5, ReleaseOutcome DEF Others
<1>6. ASSUME NEW k, Blanks(k)
      PROVE  Others(g)
  BY <1>6, BlankOutcome DEF Others
<1>7. CASE Sweep
  BY <1>7, SweepOutcome DEF Others
<1>8. CASE Tick \/ UNCHANGED <<claimVars, shown>>
  BY <1>8 DEF Others, Tick, Claims!Tick, claimVars
<1> QED BY <1>2, <1>3, <1>4, <1>5, <1>6, <1>7, <1>8

\* A session that asks for nothing itself, or whose command ends there.
LEMMA LastsOn ==
  ASSUME Told, Lasting, CliOK, CliOK', layout' = layout,
         NEW s \in Sessions, last'[s] = last[s], cmd'[s] = cmd[s] \/ cmd'[s] = Idle,
         \A plan \in Own(s) : Others(plan.owner)
  PROVE  Lasts(s)'
<1>1. Keeps(s)'
  BY DEF Lasting, Lasts, Keeps, Own
<1>2. OnItsWay(s)'
  <2>1. SUFFICES ASSUME cmd'[s] # Idle PROVE OnItsWay(s)'
    BY DEF OnItsWay
  <2>2. cmd'[s] = cmd[s] /\ OnItsWay(s)
    BY <2>1 DEF Lasting, Lasts
  <2>3. cmd[s].plan \in Own(s) /\ cmd[s].plan.mode = "named"
    BY <2>1, <2>2 DEF OnItsWay
  <2>4. claims[cmd[s].plan.owner] = NoKey => claims'[cmd[s].plan.owner] = NoKey
    BY <2>3, NoKeyStays, OwnPlans
  <2> QED BY <2>1, <2>2, <2>4 DEF OnItsWay, Own
<1>3. ColorFound(s)'
  BY FoundStays DEF ColorFound, Own
<1> QED BY <1>1, <1>2, <1>3 DEF Lasts

\* A write of a session's own key.
LEMMA PutsLasts ==
  ASSUME Told, Lasting, CliOK, CliOK', layout' = layout,
         NEW s \in Sessions, NEW plan \in Own(s), NEW a, Puts(s, plan, a),
         \/ plan.mode = "slot" /\ a = SlotAddr(s, plan)
         \/ plan.mode = "named" /\ a = SharedAddr(s, plan) /\ claims[plan.owner] = NoKey
  PROVE  Lasting'
<1>1. /\ PutDirect(a, plan.owner)
      /\ cmd' = [cmd EXCEPT ![s] = Idle]
      /\ last' = IF Resolve(a, caps) = {} THEN last ELSE [last EXCEPT ![s] = plan]
      /\ cmd = [t \in Sessions |-> cmd[t]] /\ last = [t \in Sessions |-> last[t]]
  BY DEF Puts, Ends, Lasting
<1>2. cmd' = [t \in Sessions |-> cmd'[t]] /\ last' = [t \in Sessions |-> last'[t]]
  BY <1>1
<1>3. ASSUME NEW t \in Sessions, t # s
      PROVE  Lasts(t)'
  <2>1. \A p \in Own(t) : Others(p.owner)
    BY <1>1, <1>3, RequestsOfOthers DEF Told
  <2> QED BY <1>1, <1>3, <2>1, LastsOn
<1>4. Lasts(s)'
  <2>1. CASE Resolve(a, caps) = {} /\ UNCHANGED <<claimVars, shown>>
    <3>1. \A p \in Own(s) : Others(p.owner)
      BY <2>1, RequestsOfOthers
    <3> QED BY <1>1, <2>1, <3>1, LastsOn
  <2>2. ASSUME NEW l \in Resolve(a, caps), Lands(l, plan.owner)
        PROVE  Lasts(s)'
    <3>1. last'[s] = plan /\ cmd'[s] = Idle /\ caps' = caps
      BY <1>1, <2>2, BoardStays
    <3>2. a' = a /\ SlotAddr(s, plan)' = SlotAddr(s, plan) /\ SharedAddr(s, plan)' = SharedAddr(s, plan)
      BY DEF SlotAddr, SharedAddr, tabs
    <3>3. plan.mode = "named" => claims'[plan.owner] = NoKey
      <4>1. SUFFICES ASSUME plan.mode = "named" PROVE claims'[plan.owner] = NoKey
        OBVIOUS
      <4>2. plan.owner \in Names /\ claims[plan.owner] = NoKey
        BY <4>1, OwnPlans
      <4>3. /\ claims \in [Names -> LED \cup {NoKey}]
            /\ owners \in [LED -> Names \cup {Unowned, Direct}]
            /\ \A m \in Names, k \in LED : claims[m] = k <=> owners[k] = m
        BY SlotFacts DEF CliOK
      <4>4. /\ claims' \in [Names -> LED \cup {NoKey}]
            /\ \A m \in Names, k \in LED : claims'[m] = k <=> owners'[k] = m
        BY DEF CliOK, SlotOK, ClaimProofs!IInv, ClaimProofs!TypeOK, ClaimProofs!MapsAgree
      <4>5. \A k \in LED : owners[k] # plan.owner
        BY <4>2, <4>3, NoKeyIsNoLED
      <4>6. l \in LED
        BY SlotFacts DEF CliOK
      <4>7. \A k \in LED : owners'[k] # plan.owner
        BY <2>2, <4>2, <4>5, <4>6, OwnersDistinct DEF Lands
      <4> QED BY <4>2, <4>4, <4>7
    <3>4. ASSUME NEW p \in Own(s), NEW k \in LED, shown'[k].latest, shown'[k].tag = p.owner
          PROVE  Found(s, k)'
      <4>1. p.owner = plan.owner
        BY DEF Told
      <4>2. k = l
        <5>1. l \in LED /\ Shades
          BY SlotFacts DEF CliOK
        <5>2. SUFFICES ASSUME k # l PROVE FALSE
          OBVIOUS
        <5>3. shown'[k] = Aged(plan.owner)[k] \/ shown'[k] = Aged(plan.owner)[l]
          BY <2>2, <5>2 DEF Lands
        <5> QED BY <3>4, <4>1, <5>1, <5>3, AgedKeeps
      <4>3. owners'[k] = Direct
        BY <2>2, <4>2 DEF Lands
      <4> QED BY <2>2, <3>1, <3>2, <3>3, <4>2, <4>3, OwnPlans DEF Found
    <3> QED BY <3>1, <3>4 DEF Lasts, Keeps, OnItsWay, ColorFound, Own
  <2> QED BY <1>1, <2>1, <2>2, DirectOutcome
<1> QED BY <1>2, <1>3, <1>4 DEF Lasting, Lasts

\* A write under a session's own name.
LEMMA NameLasts ==
  ASSUME Told, Lasting, CliOK, CliOK', layout' = layout,
         NEW s \in Sessions, NEW plan \in Own(s), doSet(s, plan), plan.mode = "named"
  PROVE  Lasting'
<1>1. /\ PutName(plan.owner) /\ plan.owner \in Names /\ cmd[s] = Idle
      /\ cmd = [t \in Sessions |-> cmd[t]] /\ last = [t \in Sessions |-> last[t]]
  BY OwnPlans DEF doSet, Lasting
<1>2. ASSUME NEW t \in Sessions, t # s, last'[t] = last[t], cmd'[t] = cmd[t]
      PROVE  Lasts(t)'
  <2>1. \A p \in Own(t) : Others(p.owner)
    BY <1>1, <1>2, RequestsOfOthers DEF Told
  <2> QED BY <1>2, <2>1, LastsOn
<1>3. CASE claims'[plan.owner] = NoKey
  <2>1. /\ cmd' = [cmd EXCEPT ![s] = [at |-> "shared", op |-> "set", plan |-> plan, key |-> NoKey]]
        /\ UNCHANGED <<claimVars, shown, last>>
    BY <1>3 DEF doSet, Shares, Goes
  <2>2. cmd' = [t \in Sessions |-> cmd'[t]] /\ last' = [t \in Sessions |-> last'[t]]
    BY <1>1, <2>1
  <2>3. OnItsWay(s)'
    BY <1>1, <1>3, <2>1 DEF OnItsWay, Own
  <2>4. Keeps(s)'
    BY <2>1 DEF Lasting, Lasts, Keeps, Own
  <2>5. ColorFound(s)'
    <3>1. \A p \in Own(s) : Others(p.owner)
      BY <2>1, RequestsOfOthers
    <3> QED BY <2>1, <3>1, FoundStays DEF ColorFound, Own
  <2> QED BY <1>1, <1>2, <2>1, <2>2, <2>3, <2>4, <2>5 DEF Lasting, Lasts
<1>4. CASE claims'[plan.owner] # NoKey
  <2>1. UNCHANGED cmd /\ last' = [last EXCEPT ![s] = plan]
    BY <1>4 DEF doSet
  <2>2. cmd' = [t \in Sessions |-> cmd'[t]] /\ last' = [t \in Sessions |-> last'[t]]
    BY <1>1, <2>1
  <2>3. PICK l \in LED : Claimed(plan.owner, l)
    BY <1>1, <1>4, NameOutcome
  <2>4. last'[s] = plan /\ cmd'[s] = Idle
    BY <1>1, <2>1
  <2>5. ASSUME NEW p \in Own(s), NEW k \in LED, shown'[k].latest, shown'[k].tag = p.owner
        PROVE  Found(s, k)'
    <3>1. p.owner = plan.owner
      BY DEF Told
    <3>2. k = l
      <4>1. SUFFICES ASSUME k # l PROVE FALSE
        OBVIOUS
      <4>2. shown'[k] = Aged(plan.owner)[k]
        BY <2>3, <4>1 DEF Claimed
      <4> QED BY <2>5, <3>1, <4>2, AgedKeeps DEF CliOK
    <3>3. owners'[k] = plan.owner
      BY <2>3, <3>2 DEF Claimed
    <3> QED BY <2>4, <3>3, OwnPlans DEF Found
  <2> QED BY <1>1, <1>2, <2>1, <2>2, <2>4, <2>5 DEF Lasting, Lasts, Keeps, OnItsWay, ColorFound, Own
<1> QED BY <1>3, <1>4

\* A clear whose last request darkens the keys on which the plan's color can be.
LEMMA ClearedLasts ==
  ASSUME Told, Lasting, CliOK, CliOK', layout' = layout,
         NEW s \in Sessions, NEW plan \in Plans[s], Cleared(s, plan),
         \E a, g : DeleteDirect(a, g),
         plan.mode # "explicit" =>
           \A k \in LED :
             /\ shown[k].latest /\ shown[k].tag = plan.owner
             /\ Found(s, k) /\ last[s] = plan
             => shown'[k] = Dark
  PROVE  Lasting'
<1>1. /\ cmd' = [cmd EXCEPT ![s] = Idle]
      /\ last' = IF last[s] = plan THEN [last EXCEPT ![s] = NoPlan] ELSE last
      /\ cmd = [t \in Sessions |-> cmd[t]] /\ last = [t \in Sessions |-> last[t]]
  BY DEF Cleared, Ends, Lasting
<1>2. cmd' = [t \in Sessions |-> cmd'[t]] /\ last' = [t \in Sessions |-> last'[t]]
  BY <1>1
<1>3. \A g : Others(g)
  BY RequestsOfOthers
<1>4. \A t \in Sessions : last'[t] = last[t] => Lasts(t)'
  BY <1>1, <1>3, LastsOn
<1>5. CASE last[s] = plan
  <2>1. plan.mode # "lost" /\ plan # NoPlan
    BY PlanForm
  <2>2. plan \in Own(s) /\ last'[s] = NoPlan /\ cmd'[s] = Idle
    BY <1>1, <1>5, <2>1 DEF Lasting, Lasts, Keeps
  <2>3. ASSUME NEW p \in Own(s), NEW k \in LED, shown'[k].latest, shown'[k].tag = p.owner
        PROVE  FALSE
    <3>1. p.owner = plan.owner /\ plan.mode # "explicit"
      BY <2>2 DEF Told, Own
    <3>2. Darkens
      BY DeleteDirectOutcome
    <3>3. shown'[k] # Dark
      BY <2>3 DEF Dark
    <3>4. shown[k].latest /\ shown[k].tag = p.owner
      BY <2>3, <3>2, <3>3 DEF Darkens
    <3>5. Found(s, k)
      BY <1>5, <2>1, <3>4 DEF Lasting, Lasts, ColorFound
    <3> QED BY <1>5, <3>1, <3>3, <3>4, <3>5
  <2>4. Keeps(s)' /\ OnItsWay(s)'
    BY <2>2 DEF Keeps, OnItsWay
  <2>5. ColorFound(s)'
    BY <2>3 DEF ColorFound, Own
  <2>6. \A t \in Sessions : t # s => last'[t] = last[t]
    BY <1>1
  <2> QED BY <1>2, <1>4, <2>4, <2>5, <2>6 DEF Lasting, Lasts
<1>6. CASE last[s] # plan
  <2>1. \A t \in Sessions : last'[t] = last[t]
    BY <1>1, <1>6
  <2> QED BY <1>2, <1>4, <2>1 DEF Lasting
<1> QED BY <1>5, <1>6

\* A clear of the address where a session's color is, unasked or if the owner
\* matches.
LEMMA OwnerMatches ==
  ASSUME CliOK, NEW a, NEW op, NEW plan, DeleteDirect(a, Owner(op, plan)),
         NEW k \in LED, k \in Resolve(a, caps), shown[k].tag = plan.owner
  PROVE  shown'[k] = Dark
BY DeleteDirectOutcome DEF Owner, Spared

LEMMA ClearLasts ==
  ASSUME Told, Lasting, CliOK, CliOK', layout' = layout,
         NEW s \in Sessions, NEW plan \in Plans[s], NEW op \in {"clear", "force"},
         doClear(s, op, plan)
  PROVE  Lasting'
<1>1. plan.mode = "named" /\ plan \in Plans[s] => plan.owner \in Names /\ plan \in Own(s)
  BY PlansName DEF Own
<1>2. CASE plan.mode = "explicit" /\ DeleteDirect(ExplicitAddr[plan.key], <<>>) /\ Cleared(s, plan)
  BY <1>2, ClearedLasts
<1>3. CASE /\ plan.mode = "slot" /\ DeleteDirect(SlotAddr(s, plan), Owner(op, plan))
           /\ Cleared(s, plan)
  <2>1. ASSUME NEW k \in LED, shown[k].tag = plan.owner, Found(s, k), last[s] = plan
        PROVE  shown'[k] = Dark
    BY <1>3, <2>1, OwnerMatches DEF Found
  <2> QED BY <1>3, <2>1, ClearedLasts
<1>4. CASE plan.mode = "named" /\ LookupName(s, op, plan)
  <2>1. PICK at, key : /\ Goes(s, at, op, plan, key)
                       /\ at = "blank" \/ (at = "shared" /\ claims[plan.owner] = NoKey)
    <3>1. CASE Goes(s, "blank", op, plan, claims[plan.owner])
      BY <3>1
    <3>2. CASE claims[plan.owner] = NoKey /\ Goes(s, "shared", op, plan, NoKey)
      BY <3>2
    <3> QED BY <1>4, <3>1, <3>2 DEF LookupName, Shares
  <2>2. /\ cmd' = [cmd EXCEPT ![s] = [at |-> at, op |-> op, plan |-> plan, key |-> key]]
        /\ UNCHANGED <<claimVars, shown, last>>
        /\ cmd = [t \in Sessions |-> cmd[t]] /\ last = [t \in Sessions |-> last[t]]
    BY <2>1 DEF Goes, Lasting
  <2>3. cmd' = [t \in Sessions |-> cmd'[t]] /\ last' = [t \in Sessions |-> last'[t]]
    BY <2>2
  <2>4. \A g : Others(g)
    BY <2>2, RequestsOfOthers
  <2>5. \A t \in Sessions : t # s => Lasts(t)'
    BY <2>2, <2>4, LastsOn
  <2>6. OnItsWay(s)'
    <3>1. cmd'[s] = [at |-> at, op |-> op, plan |-> plan, key |-> key] /\ claims' = claims
      BY <2>2 DEF claimVars
    <3> QED BY <1>1, <1>4, <2>1, <3>1 DEF OnItsWay, Own
  <2>7. Keeps(s)'
    BY <2>2 DEF Lasting, Lasts, Keeps, Own
  <2>8. ColorFound(s)'
    BY <2>2, <2>4, FoundStays DEF ColorFound, Own
  <2> QED BY <2>3, <2>5, <2>6, <2>7, <2>8 DEF Lasting, Lasts
<1> QED BY <1>2, <1>3, <1>4 DEF doClear

\* The blank of a DELETE: the last set is cleared if its key is the one looked
\* up, and lost if its claim has moved on to another.
LEMMA BlankLasts ==
  ASSUME Told, Lasting, CliOK, CliOK', layout' = layout, NEW s \in Sessions, BlankName(s)
  PROVE  Lasting'
<1> DEFINE plan == cmd[s].plan
<1> DEFINE key == cmd[s].key
<1>1. /\ cmd[s] # Idle /\ cmd' = [cmd EXCEPT ![s].at = "release"]
      /\ last' = IF last[s].mode # "named" \/ claims[plan.owner] = NoKey THEN last
                 ELSE IF claims[plan.owner] = key THEN [last EXCEPT ![s] = NoPlan]
                 ELSE [last EXCEPT ![s].mode = "lost"]
      /\ cmd = [t \in Sessions |-> cmd[t]] /\ last = [t \in Sessions |-> last[t]]
  BY DEF BlankName, At, Lasting
<1>2. /\ cmd[s] = [at |-> cmd[s].at, op |-> cmd[s].op, plan |-> plan, key |-> key]
      /\ plan \in Own(s) /\ plan.mode = "named"
  BY <1>1 DEF Lasting, Lasts, OnItsWay
<1>3. Blanks(key) /\ claims' = claims
  BY NamedDelete DEF Blanks, claimVars
<1> HIDE DEF plan, key
<1>4. cmd'[s] = [at |-> "release", op |-> cmd[s].op, plan |-> plan, key |-> key]
  BY <1>1, <1>2
<1>5. cmd' = [t \in Sessions |-> cmd'[t]] /\ last' = [t \in Sessions |-> last'[t]]
  BY <1>1
<1>6. \A g : Others(g)
  BY <1>3, RequestsOfOthers
<1>7. \A t \in Sessions : t # s => last'[t] = last[t] /\ cmd'[t] = cmd[t]
  BY <1>1
<1>8. \A t \in Sessions : t # s => Lasts(t)'
  BY <1>6, <1>7, LastsOn
<1>9. last[s].mode = "named" => last[s] \in Own(s) /\ last[s].owner = plan.owner
  <2>1. NoPlan.mode # "named"
    BY DEF NoPlan
  <2> QED BY <1>2, <2>1 DEF Lasting, Lasts, Keeps, Told
<1>10. CASE last[s].mode # "named" \/ claims[plan.owner] = NoKey
  <2>1. last'[s] = last[s]
    BY <1>1, <1>10
  <2>2. OnItsWay(s)'
    BY <1>2, <1>3, <1>4, <1>10, <2>1 DEF OnItsWay, Own
  <2>3. Keeps(s)'
    BY <2>1 DEF Lasting, Lasts, Keeps, Own
  <2>4. ColorFound(s)'
    BY <1>6, <2>1, FoundStays DEF ColorFound, Own
  <2> QED BY <1>5, <1>8, <2>2, <2>3, <2>4 DEF Lasting, Lasts
<1>11. CASE last[s].mode = "named" /\ claims[plan.owner] # NoKey /\ claims[plan.owner] = key
  <2>1. last'[s] = NoPlan /\ NoPlan.mode = "none"
    BY <1>1, <1>11 DEF NoPlan
  <2>2. OnItsWay(s)'
    BY <1>2, <1>4, <2>1 DEF OnItsWay, Own
  <2>3. Keeps(s)'
    BY <2>1 DEF Keeps
  <2>4. ASSUME NEW p \in Own(s), NEW k \in LED, shown'[k].latest, shown'[k].tag = p.owner
        PROVE  FALSE
    <3>1. \A l \in LED : shown'[l] = IF l = key THEN Dark ELSE shown[l]
      BY <1>3, BlankOutcome
    <3>2. k # key
      BY <2>4, <3>1 DEF Dark
    <3>3. Found(s, k)
      BY <1>11, <2>4, <3>1, <3>2 DEF Lasting, Lasts, ColorFound
    <3>4. owners[k] = plan.owner
      BY <1>9, <1>11, <3>3 DEF Found
    <3>5. plan.owner \in Names
      BY <1>2, OwnPlans
    <3> QED BY <1>11, <3>2, <3>4, <3>5, SlotFacts DEF CliOK
  <2>5. ColorFound(s)'
    BY <2>4 DEF ColorFound, Own
  <2> QED BY <1>5, <1>8, <2>2, <2>3, <2>5 DEF Lasting, Lasts
<1>12. CASE last[s].mode = "named" /\ claims[plan.owner] # NoKey /\ claims[plan.owner] # key
  <2>1. last' = [last EXCEPT ![s].mode = "lost"]
    BY <1>1, <1>12
  <2>2. last[s] = [mode |-> last[s].mode, key |-> last[s].key, tab |-> last[s].tab,
                   owner |-> last[s].owner, given |-> last[s].given]
    BY <1>9, <1>12, OwnPlans, PlanForm
  <2>3. last'[s] = [last[s] EXCEPT !.mode = "lost"]
    BY <1>1, <2>1
  <2>4. last'[s].mode = "lost" /\ last'[s].owner = last[s].owner
    BY <2>2, <2>3
  <2>5. OnItsWay(s)'
    BY <1>2, <1>4, <2>4 DEF OnItsWay, Own
  <2>6. Keeps(s)'
    BY <1>9, <1>12, <2>4 DEF Keeps, Own
  <2>7. ColorFound(s)'
    BY <2>4 DEF ColorFound
  <2> QED BY <1>5, <1>8, <2>5, <2>6, <2>7 DEF Lasting, Lasts
<1> QED BY <1>10, <1>11, <1>12

\* The release of a DELETE: a color still looked for is not on the claim's key.
LEMMA ReleaseLasts ==
  ASSUME Told, Lasting, CliOK, CliOK', layout' = layout, NEW s \in Sessions, ReleaseName(s)
  PROVE  Lasting'
<1> DEFINE plan == cmd[s].plan
<1>1. /\ cmd[s] # Idle /\ cmd[s].at = "release"
      /\ cmd = [t \in Sessions |-> cmd[t]] /\ last = [t \in Sessions |-> last[t]]
  BY DEF ReleaseName, At, Lasting
<1>2. /\ plan \in Own(s) /\ plan.mode = "named"
      /\ last[s].mode = "named" => claims[plan.owner] = NoKey
  BY <1>1 DEF Lasting, Lasts, OnItsWay
<1>3. plan.owner \in Names
  BY <1>2, OwnPlans
<1>4. CASE Releases(plan.owner) /\ Ends(s) /\ UNCHANGED last
  <2>1. /\ Frees(plan.owner) /\ claims[plan.owner] # NoKey
        /\ cmd' = [cmd EXCEPT ![s] = Idle]
    BY <1>3, <1>4, ReleaseOutcome DEF Ends
  <2> HIDE DEF plan
  <2>2. cmd' = [t \in Sessions |-> cmd'[t]] /\ last' = [t \in Sessions |-> last'[t]]
    BY <1>1, <1>4, <2>1
  <2>3. ASSUME NEW t \in Sessions, t # s
        PROVE  Lasts(t)'
    <3>1. \A p \in Own(t) : p.owner # plan.owner
      BY <1>2, <2>3 DEF Told
    <3>2. \A p \in Own(t) : Others(p.owner)
      BY <1>3, <2>1, <3>1 DEF Others
    <3>3. last'[t] = last[t] /\ cmd'[t] = cmd[t]
      BY <1>1, <1>4, <2>1, <2>3
    <3> QED BY <3>2, <3>3, LastsOn
  <2>4. cmd'[s] = Idle /\ last'[s] = last[s]
    BY <1>1, <1>4, <2>1
  <2>5. ASSUME NEW p \in Own(s), NEW k \in LED, shown'[k].latest, shown'[k].tag = p.owner,
               last[s].mode # "lost"
        PROVE  Found(s, k)'
    <3>1. shown[k].latest /\ shown[k].tag = p.owner
      BY <2>1, <2>5 DEF Frees
    <3>2. Found(s, k)
      BY <2>5, <3>1 DEF Lasting, Lasts, ColorFound
    <3>3. /\ last[s] # NoPlan /\ last[s].mode = "slot"
          /\ owners[k] = Direct /\ k \in Resolve(SlotAddr(s, last[s]), caps)
      BY <1>2, <2>1, <3>2 DEF Found
    <3>4. owners'[k] = Direct
      BY <1>3, <2>1, <3>3, OwnersDistinct DEF Frees
    <3>5. caps' = caps /\ SlotAddr(s, last[s])' = SlotAddr(s, last[s])
      BY <2>4, BoardStays DEF SlotAddr, tabs
    <3> QED BY <2>4, <3>3, <3>4, <3>5 DEF Found
  <2>6. Keeps(s)' /\ OnItsWay(s)'
    BY <2>4 DEF Lasting, Lasts, Keeps, OnItsWay, Own
  <2>7. ColorFound(s)'
    BY <2>4, <2>5 DEF ColorFound, Own
  <2> QED BY <2>2, <2>3, <2>6, <2>7 DEF Lasting, Lasts
<1>5. CASE claims[plan.owner] = NoKey /\ Shares(s, cmd[s].op, plan)
  <2>1. /\ cmd' = [cmd EXCEPT ![s] = [at |-> "shared", op |-> cmd[s].op, plan |-> plan, key |-> NoKey]]
        /\ UNCHANGED <<claimVars, shown, last>>
    BY <1>5 DEF Shares, Goes
  <2> HIDE DEF plan
  <2>2. cmd' = [t \in Sessions |-> cmd'[t]] /\ last' = [t \in Sessions |-> last'[t]]
    BY <1>1, <2>1
  <2>3. \A g : Others(g)
    BY <2>1, RequestsOfOthers
  <2>4. \A t \in Sessions : t # s => Lasts(t)'
    BY <1>1, <2>1, <2>3, LastsOn
  <2>5. OnItsWay(s)'
    <3>1. /\ cmd'[s] = [at |-> "shared", op |-> cmd[s].op, plan |-> plan, key |-> NoKey]
          /\ claims' = claims
      BY <1>1, <2>1 DEF claimVars
    <3> QED BY <1>2, <1>5, <3>1 DEF OnItsWay, Own
  <2>6. Keeps(s)'
    BY <2>1 DEF Lasting, Lasts, Keeps, Own
  <2>7. ColorFound(s)'
    BY <2>1, <2>3, FoundStays DEF ColorFound, Own
  <2> QED BY <2>2, <2>4, <2>5, <2>6, <2>7 DEF Lasting, Lasts
<1> QED BY <1>4, <1>5 DEF ReleaseName, Releases

LEMMA ClearSharedLasts ==
  ASSUME Told, Lasting, CliOK, CliOK', layout' = layout, NEW s \in Sessions, doClearShared(s)
  PROVE  Lasting'
<1> DEFINE plan == cmd[s].plan
<1>1. /\ DeleteDirect(SharedAddr(s, plan), Owner(cmd[s].op, plan)) /\ Cleared(s, plan)
      /\ plan \in Own(s) /\ plan.mode = "named" /\ claims[plan.owner] = NoKey
  BY DEF doClearShared, At, Lasting, Lasts, OnItsWay
<1>2. plan \in Plans[s] /\ plan.owner \in Names
  BY <1>1, OwnPlans
<1> HIDE DEF plan
<1>3. ASSUME NEW k \in LED, shown[k].tag = plan.owner, Found(s, k), last[s] = plan
      PROVE  shown'[k] = Dark
  <2>1. owners[k] # plan.owner
    BY <1>1, <1>2, SlotFacts, NoKeyIsNoLED DEF CliOK
  <2>2. k \in Resolve(SharedAddr(s, plan), caps)
    BY <1>1, <1>3, <2>1 DEF Found
  <2> QED BY <1>1, <1>3, <2>2, OwnerMatches
<1>4. \E p \in Plans[s] : p = plan
  BY <1>2
<1> QED BY <1>1, <1>3, <1>4, ClearedLasts

\* Every step asks the daemon for one thing at most.
LEMMA StepIsRequest ==
  ASSUME Lasting, [Next]_vars
  PROVE  Request
<1>1. ASSUME NEW s \in Sessions, NEW plan \in Plans[s], doSet(s, plan)
      PROVE  Request
  BY <1>1, PlansName DEF doSet, Puts, Request
<1>2. ASSUME NEW s \in Sessions, NEW plan \in Plans[s], NEW op, doClear(s, op, plan)
      PROVE  Request
  BY <1>2, NamedDelete DEF doClear, Request
<1>3. ASSUME NEW s \in Sessions, BlankName(s) \/ ReleaseName(s)
      PROVE  Request
  <2>1. cmd[s] # Idle
    BY <1>3 DEF BlankName, ReleaseName, At
  <2>2. cmd[s].plan.owner \in Names
    BY <2>1, OwnPlans DEF Lasting, Lasts, OnItsWay
  <2> QED BY <1>3, <2>2, NamedDelete DEF Request
<1>4. ASSUME NEW s \in Sessions, doSetShared(s) \/ doClearShared(s) \/ Unreachable(s)
      PROVE  Request
  BY <1>4 DEF doSetShared, Puts, doClearShared, Unreachable, Request
<1>5. CASE Sweep \/ Tick \/ UNCHANGED vars
  BY <1>5 DEF Request, vars
<1> QED BY <1>1, <1>2, <1>3, <1>4, <1>5 DEF Next, Invoke

LEMMA LastingStep ==
  ASSUME Told, Lasting, CliOK, [Next]_vars
  PROVE  CliOK' /\ Lasting'
<1>1. CliOK' /\ layout' = layout
  BY StepIsRequest, RequestKeeps
<1>2. ASSUME UNCHANGED last,
             \A t \in Sessions : cmd'[t] = cmd[t] \/ cmd'[t] = Idle,
             cmd' = [t \in Sessions |-> cmd'[t]],
             \A t \in Sessions : \A plan \in Own(t) : Others(plan.owner)
      PROVE  Lasting'
  <2>1. \A t \in Sessions : Lasts(t)'
    BY <1>1, <1>2, LastsOn
  <2> QED BY <1>2, <2>1 DEF Lasting
<1>3. ASSUME NEW s \in Sessions, NEW plan \in Plans[s], doSet(s, plan)
      PROVE  Lasting'
  <2>1. CASE /\ plan.mode = "explicit" /\ PutDirect(ExplicitAddr[plan.key], <<>>)
             /\ UNCHANGED <<cmd, last>>
    <3>1. \A t \in Sessions : \A p \in Own(t) : Others(p.owner)
      BY <2>1, OwnPlans, RequestsOfOthers
    <3> QED BY <1>2, <2>1, <3>1 DEF Lasting
  <2>2. CASE plan.mode = "slot" /\ Puts(s, plan, SlotAddr(s, plan))
    <3>1. plan \in Own(s)
      BY <2>2 DEF Own
    <3> QED BY <1>1, <2>2, <3>1, PutsLasts
  <2>3. CASE plan.mode = "named"
    <3>1. plan \in Own(s)
      BY <2>3 DEF Own
    <3> QED BY <1>1, <1>3, <2>3, <3>1, NameLasts
  <2> QED BY <1>3, <2>1, <2>2, <2>3 DEF doSet
<1>4. ASSUME NEW s \in Sessions, doSetShared(s)
      PROVE  Lasting'
  <2>1. PICK plan \in Own(s) : /\ plan = cmd[s].plan /\ plan.mode = "named"
                               /\ claims[plan.owner] = NoKey
    BY <1>4 DEF doSetShared, At, Lasting, Lasts, OnItsWay
  <2>2. Puts(s, plan, SharedAddr(s, plan))
    BY <1>4, <2>1 DEF doSetShared
  <2> QED BY <1>1, <2>1, <2>2, PutsLasts
<1>5. ASSUME NEW s \in Sessions, NEW plan \in Plans[s], NEW op \in {"clear", "force"},
             doClear(s, op, plan)
      PROVE  Lasting'
  BY <1>1, <1>5, ClearLasts
<1>6. ASSUME NEW s \in Sessions, doClearShared(s)
      PROVE  Lasting'
  BY <1>1, <1>6, ClearSharedLasts
<1>7. ASSUME NEW s \in Sessions, BlankName(s) \/ ReleaseName(s)
      PROVE  Lasting'
  BY <1>1, <1>7, BlankLasts, ReleaseLasts
<1>8. ASSUME NEW s \in Sessions, Unreachable(s)
      PROVE  Lasting'
  <2>1. cmd' = [cmd EXCEPT ![s] = Idle] /\ UNCHANGED <<claimVars, shown, last>>
    BY <1>8 DEF Unreachable, Ends
  <2>2. \A t \in Sessions : \A p \in Own(t) : Others(p.owner)
    BY <2>1, RequestsOfOthers
  <2>3. cmd = [t \in Sessions |-> cmd[t]]
    BY DEF Lasting
  <2> QED BY <1>2, <2>1, <2>2, <2>3
<1>9. CASE Sweep \/ Tick \/ UNCHANGED vars
  <2>1. UNCHANGED <<cmd, last>>
    BY <1>9 DEF Sweep, Tick, vars
  <2>2. \A g : Others(g)
    BY <1>9, RequestsOfOthers DEF vars
  <2>3. cmd' = [t \in Sessions |-> cmd'[t]]
    BY <2>1 DEF Lasting
  <2>4. \A t \in Sessions : cmd'[t] = cmd[t] \/ cmd'[t] = Idle
    BY <2>1
  <2>5. \A t \in Sessions : \A p \in Own(t) : Others(p.owner)
    BY <2>2
  <2>6. UNCHANGED last
    BY <2>1
  <2> QED BY <1>1, <1>2, <2>3, <2>4, <2>5, <2>6
<1> QED BY <1>1, <1>3, <1>4, <1>5, <1>6, <1>7, <1>8, <1>9 DEF Next, Invoke

LEMMA LastingInitially == Init => Lasting
<1>1. Dark.latest = FALSE
  BY DEF Dark
<1> QED BY <1>1 DEF Init, Lasting, Lasts, Keeps, OnItsWay, ColorFound

LEMMA HostInFront == ASSUME NEW h, NEW a, NEW b PROVE <<h>> \o <<a, b>> = <<h, a, b>>
<1> DEFINE S == {h, a, b}
<1>1. <<h>> \in Seq(S) /\ <<a, b>> \in Seq(S) /\ <<h, a, b>> \in Seq(S) /\ Len(<<h, a, b>>) = 3
  OBVIOUS
<1> HIDE DEF S
<1>2. <<h>> \o <<a, b>> \in Seq(S) /\ Len(<<h>> \o <<a, b>>) = 3
  BY <1>1, ConcatProperties
<1>3. ASSUME NEW i \in 1 .. 3
      PROVE  (<<h>> \o <<a, b>>)[i] = <<h, a, b>>[i]
  <2>1. (<<h>> \o <<a, b>>)[i] = IF i <= 1 THEN <<h>>[i] ELSE <<a, b>>[i - 1]
    BY <1>1, ConcatProperties
  <2>2. i = 1 \/ i = 2 \/ i = 3
    OBVIOUS
  <2> QED BY <2>1, <2>2
<1> QED BY <1>1, <1>2, <1>3, SeqEqual

\* Panes that are apart have owners of their own.
LEMMA PanesTell == PanesApart => Told
<1> SUFFICES ASSUME PanesApart, NEW s \in Sessions, NEW t \in Sessions,
                    NEW p \in Own(s), NEW q \in Own(t)
             PROVE  p.owner = q.owner <=> s = t
  BY DEF Told
<1> DEFINE owner(inv, host) ==
             IF host = "" THEN NameOf(Detect(inv)) ELSE <<host>> \o NameOf(Detect(inv))
<1>1. ASSUME NEW r \in Sessions, NEW o \in Own(r)
      PROVE  \E inv \in Invocations[r] : InPane(inv) /\ o.owner = owner(inv, Host[r])
  <2>1. PICK inv \in Invocations[r] : o = Qualify(PlanKey(inv), Host[r]) /\ o # NoPlan
    BY DEF Own, Plans
  <2>2. o.mode # "explicit"
    BY DEF Own
  <2>3. InPane(inv)
    <3>1. CASE PlanKey(inv).mode \in {"explicit", "none"}
      <4>1. o = PlanKey(inv)
        BY <2>1, <3>1 DEF Qualify
      <4>2. PlanKey(inv).mode = "none" => PlanKey(inv) = NoPlan
        BY DEF PlanKey, Explicit, Named, Slot
      <4> QED BY <2>1, <2>2, <3>1, <4>1, <4>2
    <3> QED BY <3>1 DEF PanesApart
  <2>4. /\ PlanKey(inv).owner = NameOf(Detect(inv))
        /\ PlanKey(inv).mode \in {"slot", "named"} /\ PlanKey(inv).given = FALSE
    BY <2>3 DEF InPane, PlanKey, Slot, Named, NameOf
  <2>5. o.owner = owner(inv, Host[r])
    <3>1. CASE Host[r] = ""
      BY <2>1, <2>4, <3>1 DEF Qualify
    <3>2. CASE Host[r] # ""
      <4>1. o = [PlanKey(inv) EXCEPT !.owner = <<Host[r]>> \o PlanKey(inv).owner]
        BY <2>1, <2>4, <3>2 DEF Qualify
      <4>2. PlanKey(inv) \in {Slot(Detect(inv).tab, NameOf(Detect(inv))), Named(NameOf(Detect(inv)))}
        BY <2>3 DEF InPane, PlanKey, NameOf
      <4>3. o.owner = <<Host[r]>> \o PlanKey(inv).owner
        BY <4>1, <4>2 DEF Slot, Named
      <4> QED BY <2>4, <3>2, <4>3
    <3> QED BY <3>1, <3>2
  <2> QED BY <2>3, <2>5
<1>2. PICK inv \in Invocations[s] : InPane(inv) /\ p.owner = owner(inv, Host[s])
  BY <1>1
<1>3. PICK jnv \in Invocations[t] : InPane(jnv) /\ q.owner = owner(jnv, Host[t])
  BY <1>1
<1>4. owner(inv, Host[s]) = owner(jnv, Host[t])
      <=> Host[s] = Host[t] /\ NameOf(Detect(inv)) = NameOf(Detect(jnv))
  <2>1. \A h, a, b : <<h>> \o <<a, b>> = <<h, a, b>>
    BY HostInFront
  <2>2. \A h, a, b, c, d : <<h, a, b>> # <<c, d>>
    OBVIOUS
  <2>3. owner(inv, Host[s]) = IF Host[s] = "" THEN NameOf(Detect(inv))
          ELSE <<Host[s], Detect(inv).terminal, Detect(inv).instance>>
    BY <2>1 DEF NameOf
  <2>4. owner(jnv, Host[t]) = IF Host[t] = "" THEN NameOf(Detect(jnv))
          ELSE <<Host[t], Detect(jnv).terminal, Detect(jnv).instance>>
    BY <2>1 DEF NameOf
  <2> HIDE DEF owner
  <2>5. CASE Host[s] = "" /\ Host[t] = ""
    BY <2>3, <2>4, <2>5
  <2>6. CASE Host[s] = "" /\ Host[t] # ""
    BY <2>2, <2>3, <2>4, <2>6 DEF NameOf
  <2>7. CASE Host[s] # "" /\ Host[t] = ""
    BY <2>2, <2>3, <2>4, <2>7 DEF NameOf
  <2>8. CASE Host[s] # "" /\ Host[t] # ""
    <3>1. /\ owner(inv, Host[s]) = <<Host[s], Detect(inv).terminal, Detect(inv).instance>>
          /\ owner(jnv, Host[t]) = <<Host[t], Detect(jnv).terminal, Detect(jnv).instance>>
      BY <2>3, <2>4, <2>8
    <3> QED BY <3>1 DEF NameOf
  <2> QED BY <2>5, <2>6, <2>7, <2>8
<1>5. (Host[s] = Host[t] /\ NameOf(Detect(inv)) = NameOf(Detect(jnv))) <=> s = t
  <2> HIDE DEF owner
  <2>1. InPane(inv) /\ InPane(jnv)
    BY <1>2, <1>3
  <2> QED BY <2>1 DEF PanesApart
<1> QED BY <1>2, <1>3, <1>4, <1>5

THEOREM LastsAlways == ASSUME PanesApart PROVE Spec => [](CliOK /\ Lasting)
<1>1. Told
  BY PanesTell
<1>2. Init => CliOK /\ Lasting
  BY CliInitially, LastingInitially
<1>3. CliOK /\ Lasting /\ [Next]_vars => CliOK' /\ Lasting'
  BY <1>1, LastingStep
<1> QED BY <1>2, <1>3, PTL DEF Spec

\* A pane that set a key is known by one owner tag, whatever its helpers answer
\* to the next invocation, and by no other pane's on any machine.
THEOREM SessionsAlwaysTold == ASSUME PanesApart PROVE Spec => []SessionsAreTold
<1>1. ASSUME Lasting, NEW s \in Sessions, NEW t \in Sessions, NEW plan \in Plans[t],
             last[s] # NoPlan, plan.mode # "explicit"
      PROVE  last[s].owner = plan.owner <=> s = t
  <2>1. PICK own \in Own(s) : last[s].owner = own.owner
    BY <1>1 DEF Lasting, Lasts, Keeps
  <2>2. plan \in Own(t)
    BY <1>1 DEF Own
  <2> QED BY <2>1, <2>2, PanesTell DEF Told
<1>2. Lasting => SessionsAreTold
  BY <1>1 DEF SessionsAreTold
<1> QED BY <1>2, LastsAlways, PTL

\* After a clear under the plan of its last set, a pane has nothing of that set
\* lit, wherever the color went in between: displaced by direct writes, put on
\* the shared slot by a full pool, or set anew on another strategy.  Only a
\* claim displaced within its own DELETE, before the blank, is not spoken of.
THEOREM ClearAlwaysUndoesSet == ASSUME PanesApart PROVE Spec => []ClearUndoesSet
<1>1. ASSUME Lasting, NEW s \in Sessions, NEW l \in LED, last[s] = NoPlan,
             NEW plan \in Plans[s], plan.mode # "explicit"
      PROVE  ~(shown[l].latest /\ shown[l].tag = plan.owner)
  <2>1. NoPlan.mode # "lost"
    BY DEF NoPlan
  <2>2. plan \in Own(s) /\ ~Found(s, l) /\ last[s].mode # "lost"
    BY <1>1, <2>1 DEF Own, Found
  <2>3. ColorFound(s)
    BY <1>1 DEF Lasting, Lasts
  <2> QED BY <2>2, <2>3 DEF ColorFound
<1>2. Lasting => ClearUndoesSet
  BY <1>1 DEF ClearUndoesSet
<1> QED BY <1>2, LastsAlways, PTL

\* What a pane set last is found by get under the same plan as long as a key
\* shows it; again but for a claim displaced within its own DELETE.
THEOREM GetAlwaysFinds == ASSUME PanesApart PROVE Spec => []GetFindsWhatSetWrote
<1>1. ASSUME CliOK, Lasting, NEW s \in Sessions, NEW l \in LED,
             last[s].mode \notin {"none", "lost"}, shown[l].latest, shown[l].tag = last[s].owner
      PROVE  l \in lookupKey(s, last[s])
  <2>1. last[s] \in Own(s) /\ Found(s, l)
    <3>1. last[s] # NoPlan
      <4>1. NoPlan.mode = "none"
        BY DEF NoPlan
      <4> QED BY <1>1, <4>1
    <3>2. last[s] \in Own(s)
      BY <1>1, <3>1 DEF Lasting, Lasts, Keeps
    <3> QED BY <1>1, <3>2 DEF Lasting, Lasts, ColorFound
  <2>2. \A m \in Names, k \in LED : claims[m] = k <=> owners[k] = m
    BY <1>1, SlotFacts DEF CliOK
  <2>3. last[s].mode = "named" => last[s].owner \in Names
    BY <2>1, OwnPlans
  <2>4. CASE last[s].mode = "slot"
    BY <2>1, <2>4 DEF Found, lookupKey, SlotAddr, getTabs
  <2>5. CASE last[s].mode = "named"
    BY <2>1, <2>2, <2>3, <2>5, NoKeyIsNoLED DEF Found, lookupKey, SharedAddr, getTabs
  <2> QED BY <2>1, <2>4, <2>5 DEF Found
<1>2. CliOK /\ Lasting => GetFindsWhatSetWrote
  BY <1>1 DEF GetFindsWhatSetWrote
<1> QED BY <1>2, LastsAlways, PTL
==============================================================================

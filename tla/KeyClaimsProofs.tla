--------------------------- MODULE KeyClaimsProofs ---------------------------
(***************************************************************************)
(* Proofs about KeyClaims for every set of names, boards, layouts and      *)
(* every idle timeout.                                                     *)
(*                                                                         *)
(* The inductive invariant IInv is the type invariant with the agreement   *)
(* of the two maps, the pool restriction and the rule for waiting writes.  *)
(* None holds alone: an eviction keeps the maps in agreement only because  *)
(* it empties both, a displacement moves a claim to a free key only        *)
(* because a key owned by a name implies known capabilities, and that is   *)
(* the agreement and the pool restriction together.                        *)
(*                                                                         *)
(* It begins with what KeyMatrix promises for boards and layouts of any    *)
(* size: idx: numbers name one key each, and the order in which names are  *)
(* given the keys of a pool has a first element in every nonempty part of  *)
(* the pool.                                                               *)
(***************************************************************************)
EXTENDS KeyClaims, Recursion

(***************************************************************************)
(* Boards and pools.                                                       *)
(***************************************************************************)
\* What the proofs need of a board: numbers, and no matrix key twice.
Regular(c) ==
  /\ c.count \in Nat
  /\ \A l \in LEDsOf(c) : c.pos[l] \in Nat \X Nat
  /\ ValidCaps(c)

\* The LEDs of a board are finitely many.
LEMMA BoardIsFinite ==
  ASSUME NEW c, c.count \in Nat
  PROVE  IsFiniteSet(LEDsOf(c)) /\ IsFiniteSet(Keyed(c))
<1>1. IsFiniteSet(LEDsOf(c))
  BY FS_Interval DEF LEDsOf
<1> QED BY <1>1, FS_Subset DEF Keyed

\* Reading order is a total order of the keyed LEDs.
LEMMA ReadingOrder ==
  ASSUME NEW c, Regular(c), NEW l \in Keyed(c), NEW m \in Keyed(c)
  PROVE  /\ ~ReadsBefore(c, l, l)
         /\ l # m => ReadsBefore(c, l, m) \/ ReadsBefore(c, m, l)
         /\ ~(ReadsBefore(c, l, m) /\ ReadsBefore(c, m, l))
         /\ \A k \in Keyed(c) : ReadsBefore(c, l, m) /\ ReadsBefore(c, m, k)
                                  => ReadsBefore(c, l, k)
<1>1. \A k \in Keyed(c) : c.pos[k] \in Nat \X Nat
  BY DEF Regular, Keyed
<1>2. l # m => c.pos[l] # c.pos[m]
  BY DEF Regular, ValidCaps
<1>3. \A p, q \in Nat \X Nat : p # q => p[1] # q[1] \/ p[2] # q[2]
  OBVIOUS
<1>4. \A k \in Keyed(c) : c.pos[k][1] \in Nat /\ c.pos[k][2] \in Nat
  BY <1>1
<1>5. l # m => c.pos[l][1] # c.pos[m][1] \/ c.pos[l][2] # c.pos[m][2]
  BY <1>1, <1>2, <1>3
<1> QED BY <1>4, <1>5 DEF ReadsBefore

\* A key read earlier has the lower idx: number.
LEMMA IdxFollowsReading ==
  ASSUME NEW c, Regular(c), NEW l \in Keyed(c), NEW m \in Keyed(c), ReadsBefore(c, l, m)
  PROVE  IdxOf(c, l) \in Nat /\ IdxOf(c, m) \in Nat /\ IdxOf(c, l) < IdxOf(c, m)
<1> DEFINE Before(k) == {x \in Keyed(c) : ReadsBefore(c, x, k)}
<1>1. IsFiniteSet(Keyed(c))
  BY BoardIsFinite DEF Regular
<1>2. IsFiniteSet(Before(l)) /\ IsFiniteSet(Before(m))
  BY <1>1, FS_Subset
<1>3. Before(l) \subseteq Before(m)
  BY ReadingOrder
<1>4. l \in Before(m) /\ l \notin Before(l)
  BY ReadingOrder
<1>5. Cardinality(Before(l)) <= Cardinality(Before(m))
      /\ Cardinality(Before(l)) # Cardinality(Before(m))
  BY <1>2, <1>3, <1>4, FS_Subset
<1>6. Cardinality(Before(l)) \in Nat /\ Cardinality(Before(m)) \in Nat
  BY <1>2, FS_CardinalityType
<1>7. IdxOf(c, l) = Cardinality(Before(l)) /\ IdxOf(c, m) = Cardinality(Before(m))
  BY DEF IdxOf
<1> HIDE DEF Before
<1> QED BY <1>5, <1>6, <1>7

\* An idx: number is that of one key at most.
LEMMA IdxNamesAtMostOne ==
  ASSUME NEW c, Regular(c), NEW i, NEW l \in Resolve(IdxAddr(i), c),
         NEW m \in Resolve(IdxAddr(i), c)
  PROVE  l = m
<1>1. /\ l \in Keyed(c) /\ m \in Keyed(c)
      /\ IdxOf(c, l) = i /\ IdxOf(c, m) = i
  BY DEF Resolve, IdxAddr
<1>2. ~ReadsBefore(c, l, m) /\ ~ReadsBefore(c, m, l)
  BY <1>1, IdxFollowsReading
<1> QED BY <1>1, <1>2, ReadingOrder

\* The idx: numbers 0 to n - 1 name the n keys of a board, each one: there is no
\* gap at an unpopulated matrix position or an underglow LED.
THEOREM IdxNamesOneKey ==
  ASSUME NEW c, Regular(c), NEW i \in 0 .. Cardinality(Keyed(c)) - 1
  PROVE  \E l \in Keyed(c) : Resolve(IdxAddr(i), c) = {l}
<1> DEFINE K == Keyed(c)
           N == 0 .. Cardinality(K) - 1
           f == [l \in K |-> IdxOf(c, l)]
<1>1. IsFiniteSet(K) /\ Cardinality(K) \in Nat
  BY BoardIsFinite, FS_CardinalityType DEF Regular
<1>2. IsFiniteSet(N) /\ Cardinality(N) = Cardinality(K)
  BY <1>1, FS_Interval
<1>3. \A l \in K : IdxOf(c, l) \in N
  <2> SUFFICES ASSUME NEW l \in K PROVE IdxOf(c, l) \in N
    OBVIOUS
  <2> DEFINE B == {x \in K : ReadsBefore(c, x, l)}
  <2>1. B \in SUBSET K /\ B # K
    BY ReadingOrder
  <2>2. IsFiniteSet(B) /\ Cardinality(B) <= Cardinality(K) /\ Cardinality(B) # Cardinality(K)
    BY <1>1, <2>1, FS_Subset
  <2>3. Cardinality(B) \in Nat
    BY <2>2, FS_CardinalityType
  <2>4. IdxOf(c, l) = Cardinality(B)
    BY DEF IdxOf
  <2> HIDE DEF B, K
  <2> QED BY <1>1, <2>2, <2>3, <2>4
<1>4. \A l, m \in K : IdxOf(c, l) = IdxOf(c, m) => l = m
  BY IdxFollowsReading, ReadingOrder
<1> HIDE DEF N
<1>5. f \in Injection(K, N)
  BY <1>3, <1>4 DEF Injection, IsInjective
<1>6. f \in Surjection(K, N)
  BY <1>2, <1>5, FS_Injection
<1>7. PICK l \in K : IdxOf(c, l) = i
  BY <1>6 DEF Surjection, N
<1>8. l \in Resolve(IdxAddr(i), c)
  BY <1>7 DEF Resolve, IdxAddr, Keyed
<1> QED BY <1>7, <1>8, IdxNamesAtMostOne

\* A key of the default pool is under a matrix key.
LEMMA DefaultPoolIsKeyed ==
  ASSUME NEW c, NEW lay, lay.defaultPool
  PROVE  Pool(lay, c) \subseteq Keyed(c)
BY DEF Pool, Keyed, NoKeyRowCol

\* What the proofs need of a layout: lists, and no number twice.
ListsApart(lay) ==
  /\ lay.tabs \in Seq(Nat) /\ lay.pool \in Seq(Nat)
  /\ ValidLayout(lay)

\* An explicit pool lists a key once.
LEMMA ListedOnce ==
  ASSUME NEW c, NEW lay, Regular(c), ListsApart(lay), NEW l,
         NEW i \in DOMAIN lay.pool, NEW j \in DOMAIN lay.pool,
         l \in Resolve(IdxAddr(lay.pool[i]), c), l \in Resolve(IdxAddr(lay.pool[j]), c)
  PROVE  i = j
<1>1. lay.pool[i] = lay.pool[j]
  BY DEF Resolve, IdxAddr
<1> DEFINE listed == lay.tabs \o lay.pool
           a == Len(lay.tabs)
<1>2. /\ a \in Nat /\ i \in Nat /\ j \in Nat
      /\ a + i \in DOMAIN listed /\ a + j \in DOMAIN listed
      /\ listed[a + i] = lay.pool[i] /\ listed[a + j] = lay.pool[j]
  <2>1. lay.tabs \in Seq(Nat) /\ lay.pool \in Seq(Nat)
    BY DEF ListsApart
  <2>2. \A s, t \in Seq(Nat) : \A k \in DOMAIN t :
          /\ Len(s) \in Nat /\ k \in Nat
          /\ Len(s) + k \in DOMAIN (s \o t)
          /\ (s \o t)[Len(s) + k] = t[k]
    OBVIOUS
  <2> QED BY <2>1, <2>2
<1>3. a + i = a + j
  BY <1>1, <1>2 DEF ListsApart, ValidLayout
<1> QED BY <1>2, <1>3

\* Two keys of the pool are not each given before the other.
LEMMA PoolOrderIsStrict ==
  ASSUME NEW c, NEW lay, Regular(c), ListsApart(lay),
         NEW l \in Pool(lay, c), NEW m \in Pool(lay, c),
         PoolBefore(lay, c, l, m), PoolBefore(lay, c, m, l)
  PROVE  FALSE
<1>1. CASE lay.defaultPool
  BY <1>1, DefaultPoolIsKeyed, ReadingOrder DEF PoolBefore
<1>2. CASE ~lay.defaultPool
  <2>1. PICK i, j \in DOMAIN lay.pool :
          /\ i < j
          /\ l \in Resolve(IdxAddr(lay.pool[i]), c)
          /\ m \in Resolve(IdxAddr(lay.pool[j]), c)
    BY <1>2 DEF PoolBefore
  <2>2. PICK ii, jj \in DOMAIN lay.pool :
          /\ ii < jj
          /\ m \in Resolve(IdxAddr(lay.pool[ii]), c)
          /\ l \in Resolve(IdxAddr(lay.pool[jj]), c)
    BY <1>2 DEF PoolBefore
  <2>3. i = jj /\ j = ii
    BY <2>1, <2>2, ListedOnce
  <2>4. i \in Nat /\ j \in Nat
    BY DEF ListsApart
  <2> QED BY <2>1, <2>2, <2>3, <2>4
<1> QED BY <1>1, <1>2

\* Every nonempty part of a pool has one key that is given first.
THEOREM PoolHasFirst ==
  ASSUME NEW c, NEW lay, Regular(c), ListsApart(lay),
         NEW S \in SUBSET Pool(lay, c), S # {}
  PROVE  \E l \in S : {k \in S : \A m \in S \ {k} : PoolBefore(lay, c, k, m)} = {l}
<1>1. ASSUME NEW l \in S, \A m \in S \ {l} : PoolBefore(lay, c, l, m)
      PROVE  {k \in S : \A m \in S \ {k} : PoolBefore(lay, c, k, m)} = {l}
  BY <1>1, PoolOrderIsStrict
<1>2. \E l \in S : \A m \in S \ {l} : PoolBefore(lay, c, l, m)
  <2>1. CASE lay.defaultPool
    <3>1. S \subseteq Keyed(c)
      BY <2>1, DefaultPoolIsKeyed
    <3>2. \A l \in S : IdxOf(c, l) \in Nat
      <4> TAKE l \in S
      <4>1. IsFiniteSet({x \in Keyed(c) : ReadsBefore(c, x, l)})
        BY BoardIsFinite, FS_Subset DEF Regular
      <4> QED BY <4>1, FS_CardinalityType DEF IdxOf
    <3> DEFINE T == {IdxOf(c, l) : l \in S}
    <3>3. T \in SUBSET Nat /\ T # {}
      BY <3>2
    <3>4. PICK t \in T : \A y \in T : t <= y
      BY <3>3, LeastNat
    <3>5. PICK l \in S : IdxOf(c, l) = t
      OBVIOUS
    <3>6. \A m \in S : IdxOf(c, l) <= IdxOf(c, m)
      BY <3>4, <3>5
    <3>7. \A m \in S \ {l} : ~ReadsBefore(c, m, l)
      BY <3>1, <3>2, <3>6, IdxFollowsReading
    <3> QED BY <2>1, <3>1, <3>7, ReadingOrder DEF PoolBefore
  <2>2. CASE ~lay.defaultPool
    <3> DEFINE T == {i \in DOMAIN lay.pool :
                       \E l \in S : l \in Resolve(IdxAddr(lay.pool[i]), c)}
    <3>1. \A l \in S : \E i \in DOMAIN lay.pool : l \in Resolve(IdxAddr(lay.pool[i]), c)
      BY <2>2 DEF Pool, LedsOfIdx
    <3>2. T \in SUBSET Nat /\ T # {}
      BY <3>1 DEF ListsApart
    <3>3. PICK i \in T : \A j \in T : i <= j
      BY <3>2, LeastNat
    <3>4. PICK l \in S : l \in Resolve(IdxAddr(lay.pool[i]), c)
      OBVIOUS
    <3>5. ASSUME NEW m \in S \ {l} PROVE PoolBefore(lay, c, l, m)
      <4>1. PICK j \in DOMAIN lay.pool : m \in Resolve(IdxAddr(lay.pool[j]), c)
        BY <3>1
      <4>2. j \in T /\ j # i
        BY <3>4, <4>1, IdxNamesAtMostOne
      <4>3. i < j
        BY <3>2, <3>3, <4>2
      <4> QED BY <2>2, <3>4, <4>1, <4>3 DEF PoolBefore
    <3> QED BY <3>5
  <2> QED BY <2>1, <2>2
<1> QED BY <1>1, <1>2

(***************************************************************************)
(* Claims.                                                                 *)
(***************************************************************************)
USE OwnersDistinct, NoKeyIsNoLED, NoCapsDistinct, MaxAgeIsNat

MapsOK ==
  /\ claims \in [Names -> LED \cup {NoKey}]
  /\ idle \in [Names -> 0 .. MaxAge + 1]
  /\ owners \in [LED -> Names \cup {Unowned, Direct}]
  /\ MapsAgree
  /\ ClaimsInPool

IInv == TypeOK /\ MapsAgree /\ ClaimsInPool /\ WaitingOnlyForCaps

\* Every key of a pool, and every resolved address, is an LED of the board.
LEMMA PoolOnBoard ==
  ASSUME NEW c \in Matrices
  PROVE  /\ LEDsOf(c) \subseteq LED
         /\ \A lay : Pool(lay, c) \subseteq LED
         /\ \A a : Resolve(a, c) \subseteq LED
<1>1. LEDsOf(c) \subseteq LED
  BY MatricesFit DEF LEDsOf
<1>2. \A a : Resolve(a, c) \subseteq LEDsOf(c)
  BY DEF Resolve
<1>3. \A idxs : LedsOfIdx(c, idxs) \subseteq LEDsOf(c)
  BY <1>2 DEF LedsOfIdx
<1>4. \A lay : Pool(lay, c) \subseteq LEDsOf(c)
  BY <1>3 DEF Pool
<1> QED BY <1>1, <1>2, <1>4

\* A key about to be claimed is an unowned LED of the pool.
LEMMA NextUnclaimedIsFree ==
  ASSUME caps \in Matrices, NEW l \in nextUnclaimed
  PROVE  l \in LED /\ owners[l] = Unowned /\ l \in Pool(layout, caps)
BY PoolOnBoard DEF nextUnclaimed, FreePool

\* Claiming or refreshing under a name keeps the maps.
LEMMA ClaimOrGetKeepsMaps ==
  ASSUME MapsOK, caps \in Matrices, UNCHANGED <<layout, caps>>,
         NEW n \in Names, ClaimOrGetLocked(n)
  PROVE  MapsOK'
<1>1. CASE claims[n] # NoKey /\ idle' = [idle EXCEPT ![n] = 0] /\ UNCHANGED <<claims, owners>>
  BY <1>1 DEF MapsOK, MapsAgree, ClaimsInPool
<1>2. ASSUME NEW l \in nextUnclaimed,
             claims[n] = NoKey,
             claims' = [claims EXCEPT ![n] = l],
             idle' = [idle EXCEPT ![n] = 0],
             owners' = [owners EXCEPT ![l] = n]
      PROVE  MapsOK'
  <2>1. l \in LED /\ owners[l] = Unowned /\ l \in Pool(layout, caps)
    BY NextUnclaimedIsFree
  <2>2. MapsAgree'
    BY <1>2, <2>1 DEF MapsOK, MapsAgree
  <2>3. ClaimsInPool'
    BY <1>2, <2>1 DEF MapsOK, ClaimsInPool
  <2> QED BY <1>2, <2>1, <2>2, <2>3 DEF MapsOK
<1>3. CASE UNCHANGED <<claims, idle, owners>>
  BY <1>3 DEF MapsOK, MapsAgree, ClaimsInPool
<1> QED BY <1>1, <1>2, <1>3 DEF ClaimOrGetLocked

\* A direct write on any LED keeps the maps.
LEMMA MarkDirectKeepsMaps ==
  ASSUME MapsOK, UNCHANGED <<layout, caps>>, NEW l \in LED, MarkDirectLocked(l)
  PROVE  MapsOK'
<1>1. MapsAgree'
  BY DEF MapsOK, MapsAgree, MarkDirectLocked
<1>2. ClaimsInPool'
  BY DEF MapsOK, ClaimsInPool, MarkDirectLocked
<1> QED BY <1>1, <1>2 DEF MapsOK, MarkDirectLocked

\* Releasing any set of claims keeps the maps.
LEMMA ReleaseKeepsMaps ==
  ASSUME MapsOK, UNCHANGED <<layout, caps>>, NEW S \in SUBSET Names, ReleaseAll(S)
  PROVE  MapsOK'
<1>1. MapsAgree'
  BY DEF MapsOK, MapsAgree, ReleaseAll
<1>2. ClaimsInPool'
  BY DEF MapsOK, ClaimsInPool, ReleaseAll
<1> QED BY <1>1, <1>2 DEF MapsOK, ReleaseAll

\* Moving a displaced claim keeps the maps.
LEMMA MoveKeepsMaps ==
  ASSUME MapsOK, caps \in Matrices, UNCHANGED <<layout, caps>>,
         NEW l \in LED, NEW to \in LED, MoveClaim(l, to)
  PROVE  MapsOK'
<1>1. owners[to] = Unowned /\ to \in Pool(layout, caps) /\ owners[l] \in Names
  BY NextUnclaimedIsFree DEF MoveClaim
<1>2. MapsAgree'
  BY <1>1 DEF MapsOK, MapsAgree, MoveClaim
<1>3. ClaimsInPool'
  BY <1>1 DEF MapsOK, ClaimsInPool, MoveClaim
<1> QED BY <1>1, <1>2, <1>3 DEF MapsOK, MoveClaim

\* A key is owned by a name only once the capabilities are known.
LEMMA NamedKeyHasCaps ==
  ASSUME IInv, NEW l \in LED, owners[l] \in Names
  PROVE  caps \in Matrices
<1>1. claims[owners[l]] = l
  BY DEF IInv, MapsAgree
<1> QED BY <1>1, NoKeyIsNoLED DEF IInv, TypeOK, ClaimsInPool

\* With a free key in the pool the search finds one key, and only one.
LEMMA SearchFindsOne ==
  ASSUME TypeOK, caps # NoCaps, FreePool # {}
  PROVE  \E l \in LED : nextUnclaimed = {l}
<1>1. caps \in Matrices /\ layout \in Layouts
  BY DEF TypeOK
<1>2. Regular(caps) /\ ListsApart(layout)
  BY <1>1, MatricesFit, MatricesValid, LayoutsValid DEF Regular, ListsApart
<1>3. FreePool \in SUBSET Pool(layout, caps)
  BY DEF FreePool
<1>4. PICK l \in FreePool : nextUnclaimed = {l}
  BY <1>2, <1>3, PoolHasFirst DEF nextUnclaimed
<1>5. l \in LED
  BY <1>1, <1>3, PoolOnBoard
<1> QED BY <1>4, <1>5

LEMMA InitIInv == Init => IInv
<1> SUFFICES ASSUME Init PROVE IInv
  OBVIOUS
<1>1. TypeOK
  <2>1. 0 \in 0 .. MaxAge + 1 /\ <<>> \in Seq(PendAddrs)
    OBVIOUS
  <2> QED BY <2>1 DEF Init, TypeOK, NoClaims, NoOwners, Fresh
<1>2. MapsAgree
  BY DEF Init, MapsAgree, NoClaims, NoOwners
<1>3. ClaimsInPool /\ WaitingOnlyForCaps
  BY DEF Init, ClaimsInPool, WaitingOnlyForCaps, NoClaims, NoOwners
<1> QED BY <1>1, <1>2, <1>3 DEF IInv

LEMMA StepIInv == IInv /\ [Next]_vars => IInv'
<1> SUFFICES ASSUME IInv, [Next]_vars PROVE IInv'
  OBVIOUS
<1>M. MapsOK
  BY DEF IInv, TypeOK, MapsOK
\* The frame of an operation that leaves all but the maps alone.
<1>F. ASSUME MapsOK', present,
             UNCHANGED <<layout, present, caps, pending, settling>>
      PROVE  IInv'
  BY <1>F DEF IInv, TypeOK, MapsOK, WaitingOnlyForCaps
<1>1. ASSUME NEW n \in Names, ClaimOrGet(n) PROVE IInv'
  BY <1>1, <1>M, <1>F, ClaimOrGetKeepsMaps DEF IInv, TypeOK, ClaimOrGet, Ready
<1>2. ASSUME NEW n \in Names, ReleaseClaim(n) PROVE IInv'
  BY <1>2, <1>M, <1>F, ReleaseKeepsMaps DEF ReleaseClaim, Ready
<1>3. ASSUME NEW l \in LED, MarkDirectDisplacing(l) PROVE IInv'
  <2>1. present /\ UNCHANGED <<layout, present, caps, pending, settling>>
    BY <1>3 DEF MarkDirectDisplacing
  <2>2. ASSUME NEW to \in LED, MoveClaim(l, to) PROVE MapsOK'
    <3>1. caps \in Matrices
      BY <2>2, NamedKeyHasCaps DEF MoveClaim
    <3> QED BY <2>1, <2>2, <3>1, <1>M, MoveKeepsMaps
  <2>3. CASE MarkDirectLocked(l)
    BY <2>1, <2>3, <1>M, <1>F, MarkDirectKeepsMaps
  <2> QED BY <1>3, <1>F, <2>1, <2>2, <2>3 DEF MarkDirectDisplacing
<1>4. CASE SweepIdleClaims
  <2>1. Expired \subseteq Names /\ ReleaseAll(Expired)
    BY <1>4 DEF SweepIdleClaims, Expired
  <2>2. MapsOK'
    BY <1>4, <2>1, <1>M, ReleaseKeepsMaps DEF SweepIdleClaims
  <2> QED BY <1>4, <1>F, <2>2 DEF SweepIdleClaims
<1>5. CASE Tick
  BY <1>5 DEF Tick, IInv, TypeOK, MapsAgree, ClaimsInPool, WaitingOnlyForCaps
<1>6. CASE SlotAdded
  BY <1>6 DEF SlotAdded, IInv, TypeOK, MapsAgree, ClaimsInPool, WaitingOnlyForCaps
<1>7. CASE SlotEvicted
  <2>1. 0 \in 0 .. MaxAge + 1 /\ <<>> \in Seq(PendAddrs)
    OBVIOUS
  <2>2. TypeOK'
    BY <1>7, <2>1 DEF SlotEvicted, IInv, TypeOK, NoClaims, NoOwners, Fresh
  <2>3. MapsAgree' /\ ClaimsInPool' /\ WaitingOnlyForCaps'
    BY <1>7 DEF SlotEvicted, IInv, WaitingOnlyForCaps, MapsAgree, ClaimsInPool, NoClaims, NoOwners
  <2> QED BY <2>2, <2>3 DEF IInv
<1>8. ASSUME NEW a \in PendAddrs, CapsOrPend(a) PROVE IInv'
  <2>1. pending \in Seq(PendAddrs)
    BY DEF IInv, TypeOK
  <2>2. pending' \in Seq(PendAddrs)
    <3>1. CASE pending' = Append(pending, a)
      BY <2>1, <3>1
    <3>2. ASSUME NEW i \in DOMAIN pending,
                 pending' = Append(SubSeq(pending, 1, i - 1)
                                     \o SubSeq(pending, i + 1, Len(pending)), a)
          PROVE  pending' \in Seq(PendAddrs)
      <4>1. SubSeq(pending, 1, i - 1) \in Seq(PendAddrs)
        BY <2>1
      <4>2. SubSeq(pending, i + 1, Len(pending)) \in Seq(PendAddrs)
        BY <2>1
      <4> QED BY <3>2, <4>1, <4>2
    <3> QED BY <1>8, <3>1, <3>2 DEF CapsOrPend
  <2> QED BY <1>8, <2>2 DEF CapsOrPend, IInv, TypeOK, MapsAgree, ClaimsInPool, WaitingOnlyForCaps
<1>9. ASSUME NEW c \in Matrices, SetCaps(c) PROVE IInv'
  BY <1>9 DEF SetCaps, IInv, TypeOK, MapsAgree, ClaimsInPool, WaitingOnlyForCaps
<1>10. CASE ResolvePending
  <2>1. /\ caps \in Matrices /\ settling /\ present /\ pending # <<>>
        /\ Head(pending) \in PendAddrs /\ Tail(pending) \in Seq(PendAddrs)
        /\ pending' = Tail(pending)
        /\ UNCHANGED <<layout, present, caps, settling>>
    BY <1>10 DEF ResolvePending, IInv, TypeOK, WaitingOnlyForCaps
  <2> DEFINE a == Head(pending)
  <2>2. ASSUME a.kind = "name", ClaimOrGetLocked(a.name) PROVE MapsOK'
    BY <2>1, <2>2, <1>M, PendAddrsForm, ClaimOrGetKeepsMaps
  <2>3. ASSUME NEW l \in Resolved(a), MarkDirectLocked(l) PROVE MapsOK'
    <3>1. l \in LED
      BY <2>1, PoolOnBoard DEF Resolved
    <3> QED BY <2>1, <2>3, <3>1, <1>M, MarkDirectKeepsMaps
  <2>4. ASSUME UNCHANGED <<claims, idle, owners>> PROVE MapsOK'
    BY <2>1, <2>4, <1>M DEF MapsOK, MapsAgree, ClaimsInPool
  <2>5. MapsOK'
    BY <1>10, <2>2, <2>3, <2>4 DEF ResolvePending
  <2> QED BY <2>1, <2>5 DEF MapsOK, IInv, TypeOK, WaitingOnlyForCaps
<1>11. CASE SetCapsDone
  BY <1>11 DEF SetCapsDone, IInv, TypeOK, MapsAgree, ClaimsInPool, WaitingOnlyForCaps
<1>12. CASE UNCHANGED vars
  BY <1>12 DEF vars, IInv, TypeOK, MapsAgree, ClaimsInPool, WaitingOnlyForCaps
<1> QED BY <1>1, <1>2, <1>3, <1>4, <1>5, <1>6, <1>7, <1>8, <1>9, <1>10, <1>11, <1>12 DEF Next

LEMMA IInvHolds == Spec => []IInv
BY InitIInv, StepIInv, PTL DEF Spec

\* The type invariant, for every value of the constants.
THEOREM TypeCorrect == Spec => []TypeOK
BY IInvHolds, PTL DEF IInv

\* The two maps of a slot never disagree.
THEOREM MapsAlwaysAgree == Spec => []MapsAgree
BY IInvHolds, PTL DEF IInv

\* Named claims sit on pool keys only.
THEOREM ClaimsAlwaysInPool == Spec => []ClaimsInPool
BY IInvHolds, PTL DEF IInv

\* Writes wait only while capabilities are unknown, and on no evicted slot.
THEOREM AlwaysWaitingOnlyForCaps == Spec => []WaitingOnlyForCaps
BY IInvHolds, PTL DEF IInv

------------------------------------------------------------------------------
(***************************************************************************)
(* What a step may do to the owners, operation by operation: the lease     *)
(* table's actions.                                                        *)
(***************************************************************************)

LEMMA ClaimIsLease ==
  ASSUME IInv, caps \in Matrices, NEW n \in Names, ClaimOrGetLocked(n)
  PROVE  [Leases!Next]_owners
<1>1. ASSUME NEW l \in nextUnclaimed, claims[n] = NoKey, owners' = [owners EXCEPT ![l] = n]
      PROVE  Leases!Next
  <2>1. l \in LED /\ owners[l] = Unowned
    BY NextUnclaimedIsFree
  <2>2. \A j \in LED : owners[j] # n
    BY <1>1 DEF IInv, MapsAgree
  <2>3. Leases!Lease(n, l)
    BY <1>1, <2>1, <2>2 DEF Leases!Lease
  <2> QED BY <2>1, <2>3 DEF Leases!Next
<1> QED BY <1>1 DEF ClaimOrGetLocked

LEMMA MarkIsTake ==
  ASSUME NEW l \in LED, MarkDirectLocked(l)
  PROVE  Leases!Next
BY DEF MarkDirectLocked, Leases!Next, Leases!Take

LEMMA ReleaseIsReturn ==
  ASSUME IInv, NEW S \in SUBSET Names, ReleaseAll(S)
  PROVE  Leases!Next
<1> DEFINE K == {l \in LED : \E n \in S : claims[n] = l}
<1>1. \A l \in K : owners[l] \in Names
  BY DEF IInv, MapsAgree
<1>2. owners' = [l \in LED |-> IF l \in K THEN Unowned ELSE owners[l]]
  BY DEF ReleaseAll
<1>3. Leases!Return(K)
  BY <1>1, <1>2 DEF Leases!Return
<1>4. K \in SUBSET LED
  OBVIOUS
<1> QED BY <1>3, <1>4 DEF Leases!Next

LEMMA MoveIsTakeAndMove ==
  ASSUME IInv, NEW l \in LED, NEW to \in LED, MoveClaim(l, to)
  PROVE  Leases!Next
<1>1. Leases!TakeAndMove(l, to)
  BY NextUnclaimedIsFree, NamedKeyHasCaps DEF MoveClaim, Leases!TakeAndMove
<1> QED BY <1>1 DEF Leases!Next

LEMMA StepIsLeaseStep == IInv /\ [Next]_vars => [Leases!Next]_owners
<1> SUFFICES ASSUME IInv, [Next]_vars PROVE [Leases!Next]_owners
  OBVIOUS
<1>1. ASSUME NEW n \in Names, ClaimOrGet(n) PROVE [Leases!Next]_owners
  BY <1>1, ClaimIsLease DEF ClaimOrGet, Ready, IInv, TypeOK
<1>2. ASSUME NEW n \in Names, ReleaseClaim(n) PROVE [Leases!Next]_owners
  BY <1>2, ReleaseIsReturn DEF ReleaseClaim
<1>3. ASSUME NEW l \in LED, MarkDirectDisplacing(l) PROVE [Leases!Next]_owners
  <2> QED BY <1>3, MoveIsTakeAndMove, MarkIsTake DEF MarkDirectDisplacing
<1>4. CASE SweepIdleClaims
  <2>1. Expired \subseteq Names /\ ReleaseAll(Expired)
    BY <1>4 DEF SweepIdleClaims, Expired
  <2> QED BY <2>1, ReleaseIsReturn
<1>5. CASE SlotEvicted
  BY <1>5 DEF SlotEvicted, NoOwners, Leases!Next, Leases!Forget
<1>6. CASE ResolvePending
  <2>1. /\ caps \in Matrices /\ Head(pending) \in PendAddrs
    BY <1>6 DEF ResolvePending, IInv, TypeOK, WaitingOnlyForCaps
  <2> DEFINE a == Head(pending)
  <2>2. ASSUME a.kind = "name", ClaimOrGetLocked(a.name) PROVE [Leases!Next]_owners
    BY <2>1, <2>2, PendAddrsForm, ClaimIsLease
  <2>3. ASSUME NEW l \in Resolved(a), MarkDirectLocked(l) PROVE Leases!Next
    <3>1. l \in LED
      BY <2>1, PoolOnBoard DEF Resolved
    <3> QED BY <2>3, <3>1, MarkIsTake
  <2> QED BY <1>6, <2>2, <2>3 DEF ResolvePending
<1>7. CASE Tick \/ SlotAdded \/ SetCapsDone \/ UNCHANGED vars
  BY <1>7 DEF Tick, SlotAdded, SetCapsDone, vars
<1>8. ASSUME NEW a \in PendAddrs, CapsOrPend(a) PROVE UNCHANGED owners
  BY <1>8 DEF CapsOrPend
<1>9. ASSUME NEW c \in Matrices, SetCaps(c) PROVE UNCHANGED owners
  BY <1>9 DEF SetCaps
<1> QED BY <1>1, <1>2, <1>3, <1>4, <1>5, <1>6, <1>7, <1>8, <1>9 DEF Next

\* The two maps of the slot implement the lease table: a name leases at most
\* one key, leases start and move only on free keys.
THEOREM ClaimsImplementLeases == Spec => ImplementsLeases
<1>1. Init => Leases!Init
  BY DEF Init, NoOwners, Leases!Init
<1> QED BY <1>1, IInvHolds, StepIsLeaseStep, PTL DEF Spec, ImplementsLeases, Leases!Spec

\* A key once written directly stays direct while its slot lives: a release
\* or a sweep frees the key its claim names, and by MapsAgree that key is
\* owned by the name, never Direct.
THEOREM DirectKeysStay == Spec => DirectStays
<1> DEFINE Stays == present' => \A l \in LED : owners[l] = Direct => owners'[l] = Direct
<1>1. IInv /\ [Next]_vars => [Stays]_vars
  <2> SUFFICES ASSUME IInv, [Next]_vars, present', NEW l \in LED, owners[l] = Direct
               PROVE  owners'[l] = Direct
    OBVIOUS
  <2>T. owners \in [LED -> Names \cup {Unowned, Direct}]
    BY DEF IInv, TypeOK
  <2>L. ASSUME caps \in Matrices, NEW n \in Names, ClaimOrGetLocked(n)
        PROVE  owners'[l] = Direct
    BY <2>L, <2>T, NextUnclaimedIsFree DEF ClaimOrGetLocked
  <2>K. ASSUME NEW m \in LED, MarkDirectLocked(m) PROVE owners'[l] = Direct
    BY <2>K, <2>T DEF MarkDirectLocked
  <2>R. ASSUME NEW S \in SUBSET Names, ReleaseAll(S) PROVE owners'[l] = Direct
    BY <2>R DEF ReleaseAll, IInv, MapsAgree
  <2>1. ASSUME NEW n \in Names, ClaimOrGet(n) PROVE owners'[l] = Direct
    BY <2>1, <2>L DEF ClaimOrGet, Ready, IInv, TypeOK
  <2>2. ASSUME NEW n \in Names, ReleaseClaim(n) PROVE owners'[l] = Direct
    BY <2>2, <2>R DEF ReleaseClaim
  <2>3. ASSUME NEW m \in LED, MarkDirectDisplacing(m) PROVE owners'[l] = Direct
    <3>1. ASSUME NEW to \in LED, MoveClaim(m, to) PROVE owners'[l] = Direct
      BY <2>T, <3>1, NextUnclaimedIsFree, NamedKeyHasCaps DEF MoveClaim
    <3> QED BY <2>3, <2>K, <3>1 DEF MarkDirectDisplacing
  <2>4. CASE SweepIdleClaims
    <3>1. Expired \subseteq Names /\ ReleaseAll(Expired)
      BY <2>4 DEF SweepIdleClaims, Expired
    <3> QED BY <2>R, <3>1
  <2>5. CASE SlotEvicted
    BY <2>5 DEF SlotEvicted
  <2>6. CASE ResolvePending
    <3>1. /\ caps \in Matrices /\ Head(pending) \in PendAddrs
      BY <2>6 DEF ResolvePending, IInv, TypeOK, WaitingOnlyForCaps
    <3>2. Resolved(Head(pending)) \subseteq LED
      BY <3>1, PoolOnBoard DEF Resolved
    <3> QED BY <2>6, <2>L, <2>K, <3>1, <3>2, PendAddrsForm DEF ResolvePending
  <2>7. CASE Tick \/ SlotAdded \/ SetCapsDone \/ UNCHANGED vars
    BY <2>7 DEF Tick, SlotAdded, SetCapsDone, vars
  <2>8. ASSUME NEW a \in PendAddrs, CapsOrPend(a) PROVE owners'[l] = Direct
    BY <2>8 DEF CapsOrPend
  <2>9. ASSUME NEW c \in Matrices, SetCaps(c) PROVE owners'[l] = Direct
    BY <2>9 DEF SetCaps
  <2> QED BY <2>1, <2>2, <2>3, <2>4, <2>5, <2>6, <2>7, <2>8, <2>9 DEF Next
<1> QED BY <1>1, IInvHolds, PTL DEF Spec, DirectStays

\* A claim is refused only when every key of the pool is owned: as long as one
\* is free nextUnclaimedLocked finds a key, and which one is determined by
\* the layout.
THEOREM AlwaysRefusedOnlyWhenFull == Spec => []RefusedOnlyWhenFull
<1>1. IInv => RefusedOnlyWhenFull
  BY SearchFindsOne DEF IInv, RefusedOnlyWhenFull, FreePool
<1> QED BY <1>1, IInvHolds, PTL

\* A claim that changes key was moved by a direct write on its key, under the
\* displace policy, to a key nobody owned, and its idle clock ran on.
THEOREM MovesAreDisplacements == Spec => ClaimsMoveOnlyWhenDisplaced
<1> DEFINE Moves(n) == claims[n] # NoKey /\ claims'[n] \notin {NoKey, claims[n]}
           Displaced(n) == /\ layout.displace
                           /\ owners'[claims[n]] = Direct
                           /\ owners[claims'[n]] = Unowned
                           /\ idle'[n] = idle[n]
           Rule == \A n \in Names : Moves(n) => Displaced(n)
<1>1. IInv /\ [Next]_vars => [Rule]_vars
  <2> SUFFICES ASSUME IInv, [Next]_vars, NEW n \in Names, Moves(n)
               PROVE  Displaced(n)
    OBVIOUS
  <2>M. MapsOK
    BY DEF IInv, TypeOK, MapsOK
  <2>L. ASSUME NEW m \in Names, ClaimOrGetLocked(m) PROVE FALSE
    BY <2>L, <2>M DEF ClaimOrGetLocked, MapsOK
  <2>K. ASSUME NEW l \in LED, MarkDirectLocked(l) PROVE FALSE
    BY <2>K DEF MarkDirectLocked
  <2>R. ASSUME NEW S \in SUBSET Names, ReleaseAll(S) PROVE FALSE
    BY <2>R DEF ReleaseAll
  <2>1. ASSUME NEW m \in Names, ClaimOrGet(m) PROVE FALSE
    BY <2>1, <2>L DEF ClaimOrGet
  <2>2. ASSUME NEW m \in Names, ReleaseClaim(m) PROVE FALSE
    BY <2>2, <2>R DEF ReleaseClaim
  <2>3. ASSUME NEW l \in LED, MarkDirectDisplacing(l) PROVE Displaced(n)
    <3>1. ASSUME NEW to \in LED, MoveClaim(l, to) PROVE Displaced(n)
      <4>1. owners[to] = Unowned /\ owners[l] \in Names /\ layout.displace
        BY <3>1, NamedKeyHasCaps, NextUnclaimedIsFree DEF MoveClaim
      <4>2. claims' = [claims EXCEPT ![owners[l]] = to]
            /\ owners' = [owners EXCEPT ![to] = owners[l], ![l] = Direct]
            /\ idle' = idle
        BY <3>1 DEF MoveClaim
      <4>3. owners[l] = n /\ claims'[n] = to
        BY <4>1, <4>2, <2>M DEF MapsOK
      <4>4. claims[n] = l
        BY <4>3 DEF IInv, MapsAgree
      <4> QED BY <4>1, <4>2, <4>3, <4>4, <2>M DEF MapsOK
    <3> QED BY <2>3, <2>K, <3>1 DEF MarkDirectDisplacing
  <2>4. CASE SweepIdleClaims
    <3>1. Expired \subseteq Names /\ ReleaseAll(Expired)
      BY <2>4 DEF SweepIdleClaims, Expired
    <3> QED BY <3>1, <2>R
  <2>5. CASE SlotEvicted
    BY <2>5 DEF SlotEvicted, NoClaims
  <2>6. CASE ResolvePending
    <3>1. /\ caps \in Matrices /\ Head(pending) \in PendAddrs
      BY <2>6 DEF ResolvePending, IInv, TypeOK, WaitingOnlyForCaps
    <3>2. Resolved(Head(pending)) \subseteq LED
      BY <3>1, PoolOnBoard DEF Resolved
    <3> QED BY <2>6, <2>L, <2>K, <3>1, <3>2, PendAddrsForm DEF ResolvePending
  <2>7. CASE Tick \/ SlotAdded \/ SetCapsDone \/ UNCHANGED vars
    BY <2>7 DEF Tick, SlotAdded, SetCapsDone, vars
  <2>8. ASSUME NEW a \in PendAddrs, CapsOrPend(a) PROVE FALSE
    BY <2>8 DEF CapsOrPend
  <2>9. ASSUME NEW c \in Matrices, SetCaps(c) PROVE FALSE
    BY <2>9 DEF SetCaps
  <2> QED BY <2>1, <2>2, <2>3, <2>4, <2>5, <2>6, <2>7, <2>8, <2>9 DEF Next
<1> QED BY <1>1, IInvHolds, PTL DEF Spec, ClaimsMoveOnlyWhenDisplaced

\* Under the displace policy a direct write outside SetCaps that ends a claim
\* found the pool full: MarkDirectDisplacing moves the claim whenever the
\* search finds a key, and the search finds one whenever there is one.  The
\* writes SetCaps resolves (settling) are the last wins of MarkDirectLocked.
LEMMA OnlyFullPoolsLose ==
  ASSUME IInv, [Next]_vars, ~settling, layout.displace, NEW n \in Names,
         claims[n] # NoKey, claims'[n] = NoKey, owners'[claims[n]] = Direct
  PROVE  FreePool = {}
<1>M. MapsOK
  BY DEF IInv, TypeOK, MapsOK
<1>C. claims[n] \in LED /\ owners[claims[n]] = n
  BY <1>M DEF MapsOK, MapsAgree
<1>R. ASSUME NEW S \in SUBSET Names, ReleaseAll(S) PROVE FALSE
  BY <1>C, <1>R, OwnersDistinct DEF ReleaseAll
<1>1. ASSUME NEW m \in Names, ClaimOrGet(m) PROVE FALSE
  <2>1. ClaimOrGetLocked(m) /\ caps \in Matrices
    BY <1>1 DEF ClaimOrGet, Ready, IInv, TypeOK
  <2>2. \A l \in nextUnclaimed : l \in LED
    BY <2>1, NextUnclaimedIsFree
  <2> QED BY <2>1, <2>2, <1>M DEF ClaimOrGetLocked, MapsOK
<1>2. ASSUME NEW m \in Names, ReleaseClaim(m) PROVE FALSE
  BY <1>2, <1>R DEF ReleaseClaim
<1>3. ASSUME NEW l \in LED, MarkDirectDisplacing(l) PROVE FreePool = {}
  <2>1. ASSUME NEW to \in LED, MoveClaim(l, to) PROVE FALSE
    BY <2>1, <1>M DEF MoveClaim, MapsOK
  <2>2. CASE (owners[l] \in Names => ~layout.displace \/ nextUnclaimed = {})
             /\ MarkDirectLocked(l)
    <3>1. owners[l] = n
      BY <2>2 DEF MarkDirectLocked
    <3>2. nextUnclaimed = {}
      BY <2>2, <3>1
    <3>3. caps # NoCaps
      BY <1>C DEF IInv, ClaimsInPool
    <3> QED BY <3>2, <3>3, SearchFindsOne DEF IInv
  <2> QED BY <1>3, <2>1, <2>2 DEF MarkDirectDisplacing
<1>4. CASE SweepIdleClaims
  <2>1. Expired \subseteq Names /\ ReleaseAll(Expired)
    BY <1>4 DEF SweepIdleClaims, Expired
  <2> QED BY <2>1, <1>R
<1>5. CASE SlotEvicted \/ ResolvePending
  BY <1>5, <1>C, OwnersDistinct DEF SlotEvicted, ResolvePending, NoOwners
<1>6. CASE Tick \/ SlotAdded \/ SetCapsDone \/ UNCHANGED vars
  BY <1>6 DEF Tick, SlotAdded, SetCapsDone, vars
<1>7. ASSUME NEW a \in PendAddrs, CapsOrPend(a) PROVE FALSE
  BY <1>7 DEF CapsOrPend
<1>8. ASSUME NEW c \in Matrices, SetCaps(c) PROVE FALSE
  BY <1>8 DEF SetCaps
<1> QED BY <1>1, <1>2, <1>3, <1>4, <1>5, <1>6, <1>7, <1>8 DEF Next
==============================================================================

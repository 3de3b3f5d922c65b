------------------------- MODULE DeviceRegistryProofs -------------------------
(***************************************************************************)
(* Proofs about DeviceRegistry for every set of keyboards, paths and       *)
(* declared names, and every age limit.                                    *)
(*                                                                         *)
(* The invariants rest on what one Reconcile makes of the slots: those     *)
(* taken, the new ones and those left are told apart by their names, since *)
(* a new name is no slot's and two new names of one base differ in their   *)
(* suffix, and a path that takes a slot takes no other.                    *)
(***************************************************************************)
EXTENDS DeviceRegistry, FiniteSetTheorems, WellFoundedInduction, TLAPS

USE PathsAreNumbers, MaxAgeIsNumber, BoundIsNumber, DeclaredAreNames, NoneIsNoBase

\* A name found for a new device is a name, is no slot's, and no other new
\* device has it.
LEMMA NewNamesAreNew ==
  ASSUME TypeOK, NEW D \in SUBSET OpenPaths, NEW fresh \in [D -> 0 .. MaxSuffix], Lowest(fresh)
  PROVE  \A p \in D :
           /\ <<open[p], fresh[p]>> \in Names \ DOMAIN slots
           /\ \A q \in D : <<open[q], fresh[q]>> = <<open[p], fresh[p]>> => q = p
<1> SUFFICES ASSUME NEW p \in D
             PROVE  /\ <<open[p], fresh[p]>> \in Names \ DOMAIN slots
                    /\ \A q \in D : <<open[q], fresh[q]>> = <<open[p], fresh[p]>> => q = p
  OBVIOUS
<1>1. D \subseteq OpenPaths /\ OpenPaths \subseteq Paths /\ open[p] \in Bases
  BY DEF OpenPaths, TypeOK
<1>2. <<open[p], fresh[p]>> \in Names \ DOMAIN slots
  BY <1>1 DEF Lowest, Names
<1>3. ASSUME NEW q \in D, NEW r \in D, q < r, open[q] = open[r], fresh[q] = fresh[r]
      PROVE  FALSE
  <2>1. q \in DOMAIN fresh \cap Peers(r)
    BY <1>1, <1>3 DEF Peers
  <2>2. fresh[r] \in 0 .. MaxSuffix /\ r \in DOMAIN fresh
    OBVIOUS
  <2>3. ~(fresh[r] < fresh[r])
    BY <2>2
  <2>4. ~(\E x \in DOMAIN fresh \cap Peers(r) : x < r /\ fresh[x] = fresh[r])
    BY <2>2, <2>3, Zenon DEF Lowest
  <2> QED BY <2>1, <2>4, <1>3
<1>4. ASSUME NEW q \in D, <<open[q], fresh[q]>> = <<open[p], fresh[p]>>
      PROVE  q = p
  <2>1. q \in Nat /\ p \in Nat /\ open[q] = open[p] /\ fresh[q] = fresh[p]
    BY <1>1, <1>4
  <2>2. ~(q < p) /\ ~(p < q)
    BY <2>1, <1>3
  <2> QED BY <2>1, <2>2
<1> QED BY <1>2, <1>4

\* What Reconcile leaves behind, without its choices of paths: which slots
\* there are, and what each holds.
Kept(m) == {n \in DOMAIN slots : n \in Range(m) \/ ~Expired(slots[n])}

Outcome(m, fresh) ==
  /\ Lowest(fresh)
  /\ DOMAIN slots' = Kept(m) \cup {<<open[p], fresh[p]>> : p \in OpenPaths \ Reusing}
  /\ \A p \in OpenPaths \ Reusing :
       slots'[<<open[p], fresh[p]>>] =
         [base |-> open[p], ctrl |-> p, optional |-> FALSE, age |-> 0]
  /\ \A p \in Reusing : m[p] \in Kept(m) /\ slots'[m[p]] = Taken(slots[m[p]], p)
  /\ \A n \in Kept(m) \ Range(m) : slots'[n] = Left(slots[n])

LEMMA ReconcileOutcome ==
  ASSUME TypeOK, Reconcile
  PROVE  \E m \in Found : \E fresh \in [OpenPaths \ Reusing -> 0 .. MaxSuffix] : Outcome(m, fresh)
<1>1. PICK m \in Found, fresh \in [OpenPaths \ Reusing -> 0 .. MaxSuffix] :
        /\ Lowest(fresh)
        /\ LET taken == Range(m)
               added == {<<open[p], fresh[p]>> : p \in DOMAIN fresh}
               kept  == {n \in DOMAIN slots : n \in taken \/ ~Expired(slots[n])}
               pathOf(n) == CHOOSE p \in Reusing : m[p] = n
               newPathOf(n) == CHOOSE p \in DOMAIN fresh : <<open[p], fresh[p]>> = n
           IN slots' =
                [n \in kept \cup added |->
                   IF n \in added
                   THEN [base |-> n[1], ctrl |-> newPathOf(n), optional |-> FALSE, age |-> 0]
                   ELSE IF n \in taken THEN Taken(slots[n], pathOf(n))
                   ELSE Left(slots[n])]
  BY Zenon DEF Reconcile
<1> DEFINE added == {<<open[p], fresh[p]>> : p \in OpenPaths \ Reusing}
           kept  == {n \in DOMAIN slots : n \in Range(m) \/ ~Expired(slots[n])}
           pathOf(n) == CHOOSE p \in Reusing : m[p] = n
           newPathOf(n) == CHOOSE p \in DOMAIN fresh : <<open[p], fresh[p]>> = n
<1>2. DOMAIN fresh = OpenPaths \ Reusing
  OBVIOUS
<1>3. slots' = [n \in kept \cup added |->
                  IF n \in added
                  THEN [base |-> n[1], ctrl |-> newPathOf(n), optional |-> FALSE, age |-> 0]
                  ELSE IF n \in Range(m) THEN Taken(slots[n], pathOf(n))
                  ELSE Left(slots[n])]
  BY <1>1
<1>4. \A p \in OpenPaths \ Reusing :
        /\ <<open[p], fresh[p]>> \notin DOMAIN slots
        /\ \A q \in OpenPaths \ Reusing : <<open[q], fresh[q]>> = <<open[p], fresh[p]>> => q = p
  BY <1>1, NewNamesAreNew
<1>5. /\ DOMAIN m = Reusing /\ Range(m) \subseteq DOMAIN slots
      /\ \A p, q \in Reusing : m[p] = m[q] => p = q
      /\ \A p \in Reusing : m[p] \in Range(m)
  BY DEF Found, Range, IsInjective
<1> HIDE DEF added, kept, pathOf, newPathOf
<1>6. kept \subseteq DOMAIN slots /\ Range(m) \subseteq kept
  BY <1>5 DEF kept
<1>7. kept \cap added = {}
  BY <1>4, <1>6 DEF added
<1>8. ASSUME NEW p \in OpenPaths \ Reusing
      PROVE  slots'[<<open[p], fresh[p]>>] =
               [base |-> open[p], ctrl |-> p, optional |-> FALSE, age |-> 0]
  <2> DEFINE n == <<open[p], fresh[p]>>
  <2>1. n \in added /\ n[1] = open[p]
    BY DEF added
  <2>2. newPathOf(n) = p
    BY <1>2, <1>4 DEF newPathOf
  <2> HIDE DEF n
  <2>3. slots'[n] = [base |-> n[1], ctrl |-> newPathOf(n), optional |-> FALSE, age |-> 0]
    BY <1>3, <2>1
  <2> QED BY <2>1, <2>2, <2>3 DEF n
<1>9. ASSUME NEW p \in Reusing
      PROVE  m[p] \in kept /\ slots'[m[p]] = Taken(slots[m[p]], p)
  <2>1. m[p] \in kept /\ m[p] \in Range(m) /\ m[p] \notin added
    BY <1>5, <1>6, <1>7
  <2>2. pathOf(m[p]) = p
    BY <1>5 DEF pathOf
  <2> QED BY <1>3, <2>1, <2>2
<1>10. \A n \in kept \ Range(m) : slots'[n] = Left(slots[n])
  BY <1>3, <1>7
<1>11. DOMAIN slots' = kept \cup added
  BY <1>3
<1> QED BY <1>1, <1>8, <1>9, <1>10, <1>11 DEF added, kept, Outcome, Kept

\* BaseName is a base, for a board on its path.
LEMMA BaseNameIsBase ==
  ASSUME TypeOK, NEW p \in Paths, port[p] # None, NEW probed
  PROVE  BaseName(p, probed) \in Bases
<1>1. port[p] \in Boards
  BY DEF TypeOK
<1> QED BY <1>1 DEF BaseName, Bases

\* A slot found or left stays of its kind.
LEMMA KindsKept ==
  ASSUME NEW s \in SlotType
  PROVE  /\ \A p \in Paths : Taken(s, p) \in SlotType
         /\ Left(s) \in SlotType
<1> DEFINE new == 0
<1>2. new \in 0 .. MaxAge /\ new = 0
  OBVIOUS
<1> HIDE DEF new
<1>3. \A p \in Paths : Taken(s, p) \in SlotType
  <2>1. \A p \in Paths : Taken(s, p) = [s EXCEPT !.ctrl = p, !.age = new]
    BY <1>2, Zenon DEF Taken
  <2>2. \A p \in Paths : [s EXCEPT !.ctrl = p, !.age = new] \in SlotType
    BY <1>2 DEF SlotType
  <2> QED BY <2>1, <2>2, Zenon
<1>4. CASE Connected(s)
  <2>1. Left(s) = [s EXCEPT !.ctrl = None, !.age = new]
    BY <1>2, <1>4, Zenon DEF Left
  <2>2. [s EXCEPT !.ctrl = None, !.age = new] \in SlotType
    BY <1>2 DEF SlotType
  <2> QED BY <1>3, <2>1, <2>2, Zenon
<1>5. CASE ~Connected(s)
  <2> DEFINE a == IF s.age >= MaxAge THEN s.age ELSE s.age + 1
  <2>1. a \in 0 .. MaxAge
    BY DEF SlotType
  <2>2. Left(s) = [s EXCEPT !.age = a]
    BY <1>5 DEF Left
  <2> HIDE DEF a
  <2>3. [s EXCEPT !.age = a] \in SlotType
    BY <2>1 DEF SlotType
  <2> QED BY <1>3, <2>2, <2>3
<1> QED BY <1>4, <1>5

\* The type invariant is inductive.
LEMMA TypeInductive == TypeOK /\ [Next]_vars => TypeOK'
<1> SUFFICES ASSUME TypeOK, [Next]_vars PROVE TypeOK'
  OBVIOUS
<1>1. ASSUME NEW x \in Boards, NEW p \in Paths, PlugIn(x, p)
      PROVE  TypeOK'
  BY <1>1 DEF PlugIn, TypeOK
<1>2. ASSUME NEW p \in Paths, Unplug(p)
      PROVE  TypeOK'
  BY <1>2 DEF Unplug, TypeOK
<1>3. CASE refresh
  <2>1. PICK seen \in Enumerate : \E opened \in SUBSET (seen \ OpenPaths) : \E probed \in SUBSET opened :
          open' = [p \in Paths |-> IF p \in seen \cap OpenPaths THEN open[p]
                                   ELSE IF p \in opened THEN BaseName(p, probed)
                                   ELSE None]
    BY <1>3 DEF refresh
  <2>2. \A p \in seen : p \in Paths /\ port[p] # None
    BY DEF Enumerate
  <2>3. open' \in [Paths -> Bases \cup {None}]
    BY <2>1, <2>2, BaseNameIsBase DEF TypeOK
  <2> QED BY <1>3, <2>3 DEF refresh, TypeOK
<1>4. CASE Reconcile
  <2>1. PICK m \in Found, fresh \in [OpenPaths \ Reusing -> 0 .. MaxSuffix] : Outcome(m, fresh)
    BY <1>4, ReconcileOutcome
  <2>2. Reusing \subseteq OpenPaths /\ OpenPaths \subseteq Paths
    BY DEF Reusing, OpenPaths
  <2>3. \A p \in OpenPaths : open[p] \in Bases
    BY DEF OpenPaths, TypeOK
  <2>4. \A n \in DOMAIN slots : slots[n] \in SlotType
    BY DEF TypeOK
  <2>5. DOMAIN slots' \subseteq Names
    BY <2>1, NewNamesAreNew DEF TypeOK, Outcome, Kept
  <2>6. ASSUME NEW n \in DOMAIN slots, NEW p \in Paths
        PROVE  Taken(slots[n], p) \in SlotType /\ Left(slots[n]) \in SlotType
    BY <2>4, KindsKept
  <2>7. ASSUME NEW n \in DOMAIN slots'
        PROVE  slots'[n] \in SlotType
    <3>1. CASE \E p \in OpenPaths \ Reusing : n = <<open[p], fresh[p]>>
      <4>1. PICK p \in OpenPaths \ Reusing : n = <<open[p], fresh[p]>>
        BY <3>1
      <4>2. slots'[n] = [base |-> open[p], ctrl |-> p, optional |-> FALSE, age |-> 0]
        BY <2>1, <4>1 DEF Outcome, Kept
      <4>3. [base |-> open[p], ctrl |-> p, optional |-> FALSE, age |-> 0] \in SlotType
        BY <2>2, <2>3 DEF SlotType
      <4> QED BY <4>2, <4>3, Zenon
    <3>2. CASE n \in DOMAIN slots /\ n \in Range(m)
      <4>1. PICK p \in Reusing : n = m[p]
        BY <3>2 DEF Found, Range
      <4>2. slots'[n] = Taken(slots[n], p)
        BY <2>1, <4>1 DEF Outcome, Kept
      <4> QED BY <2>2, <2>6, <3>2, <4>2
    <3>3. CASE n \in DOMAIN slots /\ n \notin Range(m) /\ ~Expired(slots[n])
      <4>1. slots'[n] = Left(slots[n])
        BY <2>1, <3>3 DEF Outcome, Kept
      <4> QED BY <2>4, <3>3, <4>1, KindsKept
    <3> QED BY <2>1, <3>1, <3>2, <3>3 DEF Outcome, Kept
  <2>8. peak' \in [Bases -> Nat]
    <3>1. \A b \in Bases : Cardinality({p \in OpenPaths : open[p] = b}) \in Nat
      BY <2>2, FS_Subset, FS_CardinalityType
    <3> QED BY <1>4, <3>1 DEF Reconcile, TypeOK
  <2> QED BY <1>4, <2>5, <2>7, <2>8 DEF Reconcile, TypeOK
<1>5. CASE UNCHANGED vars
  BY <1>5 DEF vars, TypeOK
<1> QED BY <1>1, <1>2, <1>3, <1>4, <1>5 DEF Next

LEMMA TypeInitially == Init => TypeOK
<1> SUFFICES ASSUME Init PROVE TypeOK
  OBVIOUS
<1>1. \A n \in Declared : DeclaredBase(n) \in Bases \cup {NoBoard}
  BY DEF DeclaredBase, Names
<1>2. \A n \in DOMAIN slots : slots[n] \in SlotType
  BY <1>1 DEF Init, SlotType
<1> QED BY <1>2 DEF Init, TypeOK

\* Every path, slot and count is of its kind, and new names are names: the
\* registry of registry.go:36-60 for any keyboards.
THEOREM RegistryTypeCorrect == Spec => []TypeOK
<1> QED BY TypeInitially, TypeInductive, PTL DEF Spec

\* Reconcile leaves every open handle on one slot of its base, and no slot
\* with another.
LEMMA ReconcileWires == TypeOK /\ Reconcile => Wired'
<1> SUFFICES ASSUME TypeOK, Reconcile PROVE Wired'
  OBVIOUS
<1>1. PICK m \in Found, fresh \in [OpenPaths \ Reusing -> 0 .. MaxSuffix] : Outcome(m, fresh)
  BY ReconcileOutcome
<1>2. Reusing \subseteq OpenPaths /\ OpenPaths \subseteq Paths /\ OpenPaths' = OpenPaths
  BY DEF Reusing, OpenPaths, Reconcile
<1>3. /\ \A p, q \in Reusing : m[p] = m[q] => p = q
      /\ \A p \in Reusing : m[p] \in DOMAIN slots /\ slots[m[p]].base = open[p]
      /\ \A n \in Range(m) : \E p \in Reusing : n = m[p]
  BY DEF Found, Range, IsInjective, SlotsOf
<1>4. \A p \in OpenPaths \ Reusing :
        /\ <<open[p], fresh[p]>> \notin DOMAIN slots
        /\ \A q \in OpenPaths \ Reusing : <<open[q], fresh[q]>> = <<open[p], fresh[p]>> => q = p
  BY <1>1, NewNamesAreNew DEF Outcome, Kept
<1>5. \A p \in Reusing : /\ m[p] \in DOMAIN slots'
                        /\ slots'[m[p]].base = open[p] /\ slots'[m[p]].ctrl = p
  <2>1. ASSUME NEW p \in Reusing
        PROVE  Taken(slots[m[p]], p).base = open[p] /\ Taken(slots[m[p]], p).ctrl = p
    <3>1. slots[m[p]] \in SlotType
      BY <1>3 DEF TypeOK
    <3> QED BY <1>3, <3>1 DEF Taken, SlotType
  <2> QED BY <1>1, <2>1 DEF Outcome, Kept
<1>6. \A n \in DOMAIN slots' :
        \/ \E p \in Reusing : n = m[p]
        \/ \E p \in OpenPaths \ Reusing : n = <<open[p], fresh[p]>>
        \/ slots'[n].ctrl = None
  <2>1. ASSUME NEW n \in DOMAIN slots
        PROVE  Left(slots[n]).ctrl = None
    <3>1. slots[n] \in SlotType
      BY DEF TypeOK
    <3> QED BY <3>1 DEF Left, Connected, SlotType
  <2> QED BY <1>1, <1>3, <2>1 DEF Outcome, Kept
<1>7. \A p \in OpenPaths \ Reusing :
        /\ <<open[p], fresh[p]>> \in DOMAIN slots'
        /\ slots'[<<open[p], fresh[p]>>].base = open[p]
        /\ slots'[<<open[p], fresh[p]>>].ctrl = p
  <2>1. ASSUME NEW p \in OpenPaths \ Reusing
        PROVE  /\ <<open[p], fresh[p]>> \in DOMAIN slots'
               /\ slots'[<<open[p], fresh[p]>>].base = open[p]
               /\ slots'[<<open[p], fresh[p]>>].ctrl = p
    <3>1. /\ <<open[p], fresh[p]>> \in DOMAIN slots'
          /\ slots'[<<open[p], fresh[p]>>] =
               [base |-> open[p], ctrl |-> p, optional |-> FALSE, age |-> 0]
      BY <1>1 DEF Outcome, Kept
    <3> QED BY <3>1
  <2> QED BY <2>1
<1>8. ASSUME NEW p \in OpenPaths
      PROVE  \E n \in NamesOf(open[p])' :
               /\ slots'[n].ctrl = p
               /\ \A o \in DOMAIN slots' : slots'[o].ctrl = p => o = n
  <2>1. CASE p \in Reusing
    <3>1. m[p] \in NamesOf(open[p])'
      BY <1>5, <2>1 DEF NamesOf, Reconcile
    <3>2. \A o \in DOMAIN slots' : slots'[o].ctrl = p => o = m[p]
      BY <1>2, <1>5, <1>6, <1>7, <2>1
    <3> QED BY <1>5, <2>1, <3>1, <3>2
  <2>2. CASE p \notin Reusing
    <3> DEFINE n == <<open[p], fresh[p]>>
    <3>1. n \in NamesOf(open[p])' /\ slots'[n].ctrl = p
      BY <1>7, <2>2 DEF NamesOf, Reconcile
    <3>2. ASSUME NEW o \in DOMAIN slots', slots'[o].ctrl = p
          PROVE  o = n
      <4>1. ~(\E q \in Reusing : o = m[q]) /\ p # None
        BY <1>2, <1>5, <2>2, <3>2
      <4>2. PICK q \in OpenPaths \ Reusing : o = <<open[q], fresh[q]>>
        BY <1>6, <3>2, <4>1
      <4> QED BY <1>7, <3>2, <4>2
    <3> QED BY <3>1, <3>2
  <2> QED BY <2>1, <2>2
<1>9. \A n \in DOMAIN slots' : slots'[n].ctrl # None => slots'[n].ctrl \in OpenPaths
  BY <1>2, <1>5, <1>6, <1>7
<1>10. open' = open
  BY DEF Reconcile
<1> QED BY <1>2, <1>8, <1>9, <1>10 DEF Wired, Connected

\* Whatever boards come, go, swap paths or share a base, and whatever of
\* opening, probing and enumerating fails: between two rounds of the poll
\* loop every open handle is on one slot of its base and every connected slot
\* has an open handle (registry.go:302-375, main.go:280-345).
THEOREM AlwaysWired == Spec => []Wired
<1>1. Init => Wired
  <2> SUFFICES ASSUME Init PROVE Wired
    OBVIOUS
  <2>1. OpenPaths = {}
    BY DEF Init, OpenPaths
  <2> QED BY <2>1 DEF Init, Wired, Connected
<1>2. TypeOK /\ Wired /\ [Next]_vars => Wired'
  <2> SUFFICES ASSUME TypeOK, Wired, [Next]_vars PROVE Wired'
    OBVIOUS
  <2>1. CASE UNCHANGED <<open, slots, poll>>
    BY <2>1 DEF Wired, OpenPaths, NamesOf, Connected
  <2>2. CASE refresh
    BY <2>2 DEF refresh, Wired
  <2>3. CASE Reconcile
    BY <2>3, ReconcileWires
  <2> QED BY <2>1, <2>2, <2>3 DEF Next, PlugIn, Unplug, vars
<1> QED BY <1>1, <1>2, RegistryTypeCorrect, PTL DEF Spec

\* Declared slots are there, and known as declared.
DeclaredOptional == \A n \in Declared : n \in DOMAIN slots /\ slots[n].optional

LEMMA DeclaredStep ==
  ASSUME TypeOK, DeclaredOptional, Reconcile
  PROVE  DeclaredOptional'
<1>1. PICK m \in Found, fresh \in [OpenPaths \ Reusing -> 0 .. MaxSuffix] : Outcome(m, fresh)
  BY ReconcileOutcome
<1>2. ASSUME NEW n \in Declared
      PROVE  n \in DOMAIN slots' /\ slots'[n].optional
  <2>1. n \in DOMAIN slots /\ slots[n] \in SlotType /\ slots[n].optional /\ ~Expired(slots[n])
    BY DEF DeclaredOptional, Expired, TypeOK
  <2>2. n \in DOMAIN slots'
    BY <1>1, <2>1 DEF Outcome, Kept
  <2>3. CASE n \in Range(m)
    <3>1. PICK p \in Reusing : n = m[p]
      BY <2>3 DEF Found, Range
    <3>2. Taken(slots[n], p).optional
      BY <2>1 DEF Taken, SlotType
    <3> QED BY <1>1, <2>2, <3>1, <3>2 DEF Outcome, Kept
  <2>4. CASE n \notin Range(m)
    <3>1. Left(slots[n]).optional
      BY <2>1 DEF Left, Connected, SlotType
    <3> QED BY <1>1, <2>1, <2>2, <2>4, <3>1 DEF Outcome, Kept
  <2> QED BY <2>3, <2>4
<1> QED BY <1>2 DEF DeclaredOptional

\* A slot the configuration declared is never evicted (registry.go:41),
\* however long its board is absent and whatever else has its base.
THEOREM DeclaredAlwaysStay == Spec => []DeclaredStays
<1>1. Init => DeclaredOptional
  BY DEF Init, DeclaredOptional
<1>2. TypeOK /\ DeclaredOptional /\ [Next]_vars => DeclaredOptional'
  <2> SUFFICES ASSUME TypeOK, DeclaredOptional, [Next]_vars PROVE DeclaredOptional'
    OBVIOUS
  <2>1. CASE UNCHANGED slots
    BY <2>1 DEF DeclaredOptional
  <2>2. CASE Reconcile
    BY <2>2, DeclaredStep
  <2> QED BY <2>1, <2>2 DEF Next, PlugIn, Unplug, refresh, vars
<1>3. DeclaredOptional => DeclaredStays
  BY DEF DeclaredOptional, DeclaredStays
<1> QED BY <1>1, <1>2, <1>3, RegistryTypeCorrect, PTL DEF Spec

\* A device that is the only one of its base finds the only slot of its base,
\* however the slot stands: at once after a move to another path, and after
\* any absence its slot outlasted.
THEOREM SoleSlotsAreKept == Spec => SoleSlotIsKept
<1>1. ASSUME TypeOK, [Next]_vars, poll = "reconcile" /\ poll' = "refresh",
             NEW p \in OpenPaths, NEW n \in DOMAIN slots,
             NamesOf(open[p]) = {n} /\ Peers(p) = {p}
      PROVE  n \in DOMAIN slots' /\ slots'[n].ctrl = p
  <2>1. Reconcile
    BY <1>1 DEF Next, PlugIn, Unplug, refresh, vars
  <2>2. PICK m \in Found, fresh \in [OpenPaths \ Reusing -> 0 .. MaxSuffix] : Outcome(m, fresh)
    BY <1>1, <2>1, ReconcileOutcome
  <2>3. SlotsOf(open[p]) = {n} /\ {q \in Peers(p) : q < p} = {}
    <3>1. p \in Nat
      BY DEF OpenPaths
    <3> QED BY <1>1, <3>1 DEF SlotsOf, NamesOf
  <2>4. p \in Reusing
    <3>1. Rank(p) = 0 /\ Cardinality(SlotsOf(open[p])) = 1
      BY <2>3, FS_EmptySet, FS_Singleton DEF Rank
    <3> QED BY <3>1 DEF Reusing
  <2>5. m[p] = n
    BY <2>3, <2>4 DEF Found
  <2>6. Taken(slots[n], p).ctrl = p
    BY <1>1 DEF Taken, TypeOK, SlotType
  <2> QED BY <2>2, <2>4, <2>5, <2>6 DEF Outcome, Kept
<1>2. TypeOK /\ [Next]_vars =>
        [poll = "reconcile" /\ poll' = "refresh" =>
           \A p \in OpenPaths, n \in DOMAIN slots :
             NamesOf(open[p]) = {n} /\ Peers(p) = {p} =>
               n \in DOMAIN slots' /\ slots'[n].ctrl = p]_vars
  BY <1>1
<1> QED BY <1>2, RegistryTypeCorrect, PTL DEF Spec, SoleSlotIsKept

(***************************************************************************)
(* The suffixes of names.                                                  *)
(***************************************************************************)
\* A finite set is no smaller than its image.
LEMMA ImageIsNoLarger ==
  ASSUME NEW S, IsFiniteSet(S), NEW f
  PROVE  IsFiniteSet({f[x] : x \in S}) /\ Cardinality({f[x] : x \in S}) <= Cardinality(S)
<1> DEFINE T == {f[x] : x \in S}
           g == [x \in S |-> f[x]]
<1>1. g \in Surjection(S, T)
  BY DEF Surjection
<1> QED BY <1>1, FS_Surjection

\* Two finite sets together are no larger than their sizes together, and as
\* large if they have nothing in common.
LEMMA UnionSize ==
  ASSUME NEW S, NEW T, IsFiniteSet(S), IsFiniteSet(T)
  PROVE  /\ IsFiniteSet(S \cup T) /\ Cardinality(S \cup T) \in Nat
         /\ Cardinality(S) \in Nat /\ Cardinality(T) \in Nat
         /\ Cardinality(S \cup T) <= Cardinality(S) + Cardinality(T)
         /\ S \cap T = {} => Cardinality(S \cup T) = Cardinality(S) + Cardinality(T)
<1>1. IsFiniteSet(S \cup T) /\ IsFiniteSet(S \cap T)
  BY FS_Union, FS_Intersection
<1>2. /\ Cardinality(S \cup T) \in Nat /\ Cardinality(S \cap T) \in Nat
      /\ Cardinality(S) \in Nat /\ Cardinality(T) \in Nat
  BY <1>1, FS_CardinalityType
<1>3. Cardinality(S \cup T) = Cardinality(S) + Cardinality(T) - Cardinality(S \cap T)
  BY FS_Union
<1>4. S \cap T = {} => Cardinality(S \cap T) = 0
  BY FS_EmptySet
<1> QED BY <1>1, <1>2, <1>3, <1>4

\* In a finite set of numbers, where a number has at least s below it, there
\* are at least s that have fewer than s below them.
LEMMA FirstOnes ==
  ASSUME NEW P \in SUBSET Nat, IsFiniteSet(P), NEW p \in P, NEW s \in Nat,
         s <= Cardinality({q \in P : q < p})
  PROVE  s <= Cardinality({q \in P : q < p /\ Cardinality({r \in P : r < q}) < s})
<1> DEFINE below(q) == {r \in P : r < q}
           late == {q \in P : s <= Cardinality(below(q))}
           first == {q \in P : q < p /\ Cardinality(below(q)) < s}
<1>1. \A q \in P : IsFiniteSet(below(q)) /\ Cardinality(below(q)) \in Nat
  BY FS_Subset, FS_CardinalityType
<1>2. PICK l \in late : \A q \in late : ~(<<q, l>> \in OpToRel(<, Nat))
  <2>1. late # {} /\ late \subseteq Nat
    OBVIOUS
  <2> HIDE DEF late
  <2> QED BY <2>1, WFMin, NatLessThanWellFounded
<1>3. below(l) \subseteq first
  <2>1. \A q \in late : ~(q < l)
    BY <1>2 DEF OpToRel
  <2>2. \A q \in below(l) : q \notin late /\ q \in P
    BY <2>1
  <2>3. l <= p
    BY <2>1
  <2>4. \A q \in below(l) : q < p
    BY <2>3
  <2>5. ASSUME NEW q \in below(l) PROVE q \in first
    <3>1. q \in P /\ q < p /\ ~(s <= Cardinality(below(q)))
      BY <2>2, <2>4
    <3>2. Cardinality(below(q)) \in Nat
      BY <1>1, <3>1
    <3> HIDE DEF below
    <3>3. Cardinality(below(q)) < s
      BY <3>1, <3>2
    <3> QED BY <3>1, <3>3
  <2> QED BY <2>5
<1>4. IsFiniteSet(first)
  BY FS_Subset
<1>5. Cardinality(below(l)) <= Cardinality(first)
  BY <1>3, <1>4, FS_Subset
<1>6. Cardinality(first) \in Nat /\ Cardinality(below(l)) \in Nat /\ s <= Cardinality(below(l))
  BY <1>1, <1>2, <1>4, FS_CardinalityType
<1> QED BY <1>5, <1>6

\* The suffixed names of a base that the configuration took.
DeclaredSuffixes(b) == {d \in Declared : d[1] = b /\ d[2] # 0}

\* A slot's base is its name's, but for a declared name with a suffix, whose
\* base is that of no board.
BasesKnown ==
  \A n \in DOMAIN slots : slots[n].base = IF n \in Declared THEN DeclaredBase(n) ELSE n[1]

\* The names of a base are few.
LEMMA NamesAreFinite ==
  ASSUME TypeOK, BasesKnown, NEW b \in Bases
  PROVE  /\ IsFiniteSet(SlotsOf(b)) /\ Cardinality(SlotsOf(b)) \in Nat
         /\ IsFiniteSet(DeclaredSuffixes(b)) /\ Cardinality(DeclaredSuffixes(b)) \in Nat
         /\ \A n \in SlotsOf(b) : n[1] = b
<1> DEFINE all == {b} \X (0 .. MaxSuffix)
<1>1. IsFiniteSet(all)
  <2>1. IsFiniteSet({b})
    BY FS_Singleton
  <2>2. 0 \in Int /\ MaxSuffix \in Int
    OBVIOUS
  <2>3. IsFiniteSet(0 .. MaxSuffix)
    BY <2>2, FS_Interval
  <2> QED BY <2>1, <2>3, FS_Product
<1>2. \A n \in Names : n[1] = b => n \in all
  BY DEF Names
<1>3. \A n \in SlotsOf(b) : n[1] = b /\ n \in Names
  BY NoBoardIsNoBase DEF SlotsOf, BasesKnown, DeclaredBase, TypeOK
<1>4. \A n \in DeclaredSuffixes(b) : n[1] = b /\ n \in Names
  BY DEF DeclaredSuffixes
<1> HIDE DEF all
<1>5. SlotsOf(b) \in SUBSET all /\ DeclaredSuffixes(b) \in SUBSET all
  BY <1>2, <1>3, <1>4
<1> QED BY <1>1, <1>3, <1>5, FS_Subset, FS_CardinalityType

\* A new device gets a suffix below the number of open devices of its base and
\* of the names the configuration took: the slots of the base are all taken by
\* those before it, so that with their new names and the declared ones there
\* is no gap below its own.
LEMMA NewSuffixIsLow ==
  ASSUME TypeOK, BasesKnown, NEW fresh \in [OpenPaths \ Reusing -> 0 .. MaxSuffix], Lowest(fresh),
         NEW p \in OpenPaths \ Reusing
  PROVE  fresh[p] < Cardinality(Peers(p)) + Cardinality(DeclaredSuffixes(open[p]))
<1> DEFINE b == open[p]
           k == fresh[p]
           P == Peers(p)
           before == {q \in P : q < p}
           found == {q \in P : q < p /\ Cardinality({r \in P : r < q}) < Cardinality(SlotsOf(b))}
           new == before \ found
<1>1. /\ OpenPaths \subseteq Paths /\ p \in Paths /\ p \in P /\ P \subseteq Paths /\ P \subseteq OpenPaths
      /\ b \in Bases /\ k \in 0 .. MaxSuffix /\ \A q \in P : open[q] = b /\ Peers(q) = P
  BY DEF OpenPaths, Peers, TypeOK
<1>2. /\ IsFiniteSet(P) /\ IsFiniteSet(before) /\ IsFiniteSet(found) /\ IsFiniteSet(new)
      /\ P \subseteq Nat
  <2>1. IsFiniteSet(P) /\ P \subseteq Nat
    BY <1>1, FS_Subset
  <2> HIDE DEF P
  <2>2. before \in SUBSET P /\ found \in SUBSET P /\ new \in SUBSET P
    OBVIOUS
  <2> QED BY <2>1, <2>2, FS_Subset
<1>3. /\ IsFiniteSet(SlotsOf(b)) /\ Cardinality(SlotsOf(b)) \in Nat
      /\ IsFiniteSet(DeclaredSuffixes(b)) /\ Cardinality(DeclaredSuffixes(b)) \in Nat
      /\ \A n \in SlotsOf(b) : n[1] = b
  BY <1>1, NamesAreFinite
<1>4. \A q \in P : Rank(q) = Cardinality({r \in P : r < q})
  BY <1>1 DEF Rank
<1>5. Cardinality(SlotsOf(b)) <= Cardinality(before)
  <2>1. Rank(p) = Cardinality(before)
    BY <1>1, <1>4
  <2>2. ~(Rank(p) < Cardinality(SlotsOf(b)))
    BY DEF Reusing
  <2> QED BY <1>2, <1>3, <2>1, <2>2, FS_CardinalityType
<1>6. Cardinality(SlotsOf(b)) <= Cardinality(found)
  <2>1. PICK s \in Nat : s = Cardinality(SlotsOf(b))
    BY <1>3
  <2>2. P \in SUBSET Nat /\ IsFiniteSet(P) /\ p \in P
    BY <1>1, <1>2
  <2> HIDE DEF P
  <2>3. s <= Cardinality({q \in P : q < p})
    BY <1>5, <2>1
  <2>4. s <= Cardinality({q \in P : q < p /\ Cardinality({r \in P : r < q}) < s})
    BY <2>2, <2>3, FirstOnes
  <2> QED BY <2>1, <2>4
<1>7. \A q \in new : q \in OpenPaths \ Reusing
  BY <1>1, <1>4 DEF Reusing
<1> HIDE DEF b, k, P
<1>8. Cardinality(new) + Cardinality(found) = Cardinality(before)
  <2>1. new \cap found = {} /\ new \cup found = before
    OBVIOUS
  <2> HIDE DEF new, found, before
  <2> QED BY <1>2, <2>1, UnionSize
<1>9. Cardinality(before) + 1 <= Cardinality(P)
  <2>1. before \subseteq P \ {p}
    BY <1>1, <1>2
  <2>2. IsFiniteSet(P \ {p}) /\ Cardinality(P \ {p}) = Cardinality(P) - 1
    BY <1>1, <1>2, FS_RemoveElement
  <2> HIDE DEF before
  <2>3. Cardinality(before) <= Cardinality(P \ {p})
    BY <2>1, <2>2, FS_Subset
  <2> QED BY <1>2, <2>2, <2>3, FS_CardinalityType
<1> DEFINE second == [n \in Names |-> n[2]]
           taken == {second[n] : n \in SlotsOf(b) \cup DeclaredSuffixes(b)}
           given == {fresh[q] : q \in new}
<1>10. 0 .. k - 1 \subseteq taken \cup given
  <2> SUFFICES ASSUME NEW i \in 0 .. k - 1 PROVE i \in taken \cup given
    OBVIOUS
  <2>1. i \in 0 .. MaxSuffix /\ i < fresh[p] /\ k = fresh[p]
    BY <1>1 DEF k
  <2>2. \/ <<b, i>> \in DOMAIN slots
        \/ \E q \in DOMAIN fresh \cap Peers(p) : q < p /\ fresh[q] = i
    BY <2>1 DEF Lowest, b
  <2>3. ASSUME <<b, i>> \in DOMAIN slots
        PROVE  i \in taken
    <3> DEFINE n == <<b, i>>
    <3>1. n \in Names /\ second[n] = i
      BY <1>1, <2>1 DEF Names
    <3>2. n \in SlotsOf(b) \/ n \in DeclaredSuffixes(b)
      BY <2>3 DEF SlotsOf, DeclaredSuffixes, BasesKnown, DeclaredBase
    <3> HIDE DEF second, n
    <3> QED BY <3>1, <3>2
  <2>4. ASSUME NEW q \in DOMAIN fresh \cap Peers(p), q < p, fresh[q] = i
        PROVE  i \in given
    <3>1. q \notin found
      BY <1>4, <2>4 DEF Reusing, P, b, Peers
    <3> QED BY <2>4, <3>1 DEF P
  <2> QED BY <2>2, <2>3, <2>4
<1>11. k <= Cardinality(taken \cup given) /\ IsFiniteSet(taken) /\ IsFiniteSet(given)
       /\ Cardinality(taken) <= Cardinality(SlotsOf(b) \cup DeclaredSuffixes(b))
       /\ Cardinality(given) <= Cardinality(new)
  <2>1. IsFiniteSet(SlotsOf(b) \cup DeclaredSuffixes(b))
    BY <1>3, FS_Union
  <2> HIDE DEF second, new
  <2>2. IsFiniteSet(taken) /\ Cardinality(taken) <= Cardinality(SlotsOf(b) \cup DeclaredSuffixes(b))
    BY <2>1, ImageIsNoLarger
  <2>3. IsFiniteSet(given) /\ Cardinality(given) <= Cardinality(new)
    BY <1>2, ImageIsNoLarger
  <2> HIDE DEF taken, given
  <2>4. IsFiniteSet(taken \cup given)
    BY <2>2, <2>3, FS_Union
  <2>5. Cardinality(0 .. k - 1) = k
    BY <1>1, FS_Interval
  <2>6. Cardinality(0 .. k - 1) <= Cardinality(taken \cup given)
    BY <1>10, <2>4, FS_Subset
  <2> QED BY <2>2, <2>3, <2>5, <2>6
<1>12. Cardinality(SlotsOf(b) \cup DeclaredSuffixes(b))
         <= Cardinality(SlotsOf(b)) + Cardinality(DeclaredSuffixes(b))
       /\ Cardinality(SlotsOf(b) \cup DeclaredSuffixes(b)) \in Nat
  BY <1>3, UnionSize
<1> HIDE DEF taken, given, new, found, before
<1>13. Cardinality(taken \cup given) <= Cardinality(taken) + Cardinality(given)
       /\ Cardinality(taken \cup given) \in Nat
  BY <1>11, UnionSize
<1>14. /\ Cardinality(taken) \in Nat /\ Cardinality(given) \in Nat /\ Cardinality(new) \in Nat
       /\ Cardinality(found) \in Nat /\ Cardinality(before) \in Nat /\ Cardinality(P) \in Nat
       /\ k \in Nat
  BY <1>1, <1>2, <1>11, FS_CardinalityType
<1>15. k < Cardinality(P) + Cardinality(DeclaredSuffixes(b))
  BY <1>3, <1>6, <1>8, <1>9, <1>11, <1>12, <1>13, <1>14
<1> QED BY <1>15 DEF k, P, b

\* SuffixesStayLow alone is not inductive: a new suffix is low only as the
\* names of the base are those of its slots and of the configuration.
SuffixInv == TypeOK /\ DeclaredOptional /\ BasesKnown /\ SuffixesStayLow

LEMMA SuffixStep ==
  ASSUME SuffixInv, Reconcile
  PROVE  SuffixInv'
<1>1. TypeOK' /\ TypeOK
  BY TypeInductive DEF SuffixInv, Next
<1>2. PICK m \in Found, fresh \in [OpenPaths \ Reusing -> 0 .. MaxSuffix] : Outcome(m, fresh)
  BY <1>1, ReconcileOutcome
<1>3. DeclaredOptional'
  BY DeclaredStep DEF SuffixInv
<1>4. \A n \in DOMAIN slots :
        slots[n] \in SlotType /\ slots[n].base = (IF n \in Declared THEN DeclaredBase(n) ELSE n[1])
  BY <1>1 DEF SuffixInv, BasesKnown, TypeOK
<1>5. ASSUME NEW n \in DOMAIN slots'
      PROVE  \/ /\ n \in DOMAIN slots /\ slots'[n].base = slots[n].base
             \/ \E p \in OpenPaths \ Reusing :
                  n = <<open[p], fresh[p]>> /\ slots'[n].base = open[p] /\ n \notin DOMAIN slots
  <2>1. CASE n \in Kept(m) /\ n \in Range(m)
    <3>1. PICK p \in Reusing : n = m[p]
      BY <2>1 DEF Found, Range
    <3>2. slots'[n] = Taken(slots[n], p) /\ n \in DOMAIN slots
      BY <1>2, <2>1, <3>1 DEF Outcome, Kept
    <3> QED BY <1>4, <3>2 DEF Taken, SlotType
  <2>2. CASE n \in Kept(m) /\ n \notin Range(m)
    <3>1. slots'[n] = Left(slots[n]) /\ n \in DOMAIN slots
      BY <1>2, <2>2 DEF Outcome, Kept
    <3> QED BY <1>4, <3>1 DEF Left, Connected, SlotType
  <2>3. CASE n \notin Kept(m)
    <3>1. PICK p \in OpenPaths \ Reusing : n = <<open[p], fresh[p]>>
      BY <1>2, <2>3 DEF Outcome
    <3>2. n \notin DOMAIN slots
      BY <1>1, <1>2, <3>1, NewNamesAreNew DEF Outcome
    <3>3. slots'[n] = [base |-> open[p], ctrl |-> p, optional |-> FALSE, age |-> 0]
      BY <1>2, <3>1 DEF Outcome
    <3>4. slots'[n].base = open[p]
      BY <3>3
    <3> QED BY <3>1, <3>2, <3>4
  <2> QED BY <2>1, <2>2, <2>3
<1>6. BasesKnown'
  <2>1. ASSUME NEW n \in DOMAIN slots'
        PROVE  slots'[n].base = IF n \in Declared THEN DeclaredBase(n) ELSE n[1]
    <3>1. CASE n \in DOMAIN slots /\ slots'[n].base = slots[n].base
      BY <1>4, <3>1
    <3>2. ASSUME NEW p \in OpenPaths \ Reusing,
                 n = <<open[p], fresh[p]>>, slots'[n].base = open[p], n \notin DOMAIN slots
          PROVE  slots'[n].base = IF n \in Declared THEN DeclaredBase(n) ELSE n[1]
      BY <3>2 DEF SuffixInv, DeclaredOptional
    <3> QED BY <1>5, <3>1, <3>2
  <2> QED BY <2>1 DEF BasesKnown
<1>7. \A b \in Bases : /\ peak[b] \in Nat /\ peak'[b] \in Nat /\ peak'[b] >= peak[b]
                      /\ peak'[b] >= Cardinality({p \in OpenPaths : open[p] = b})
                      /\ Cardinality(DeclaredSuffixes(b)) \in Nat
  <2>1. \A b \in Bases : Cardinality({p \in OpenPaths : open[p] = b}) \in Nat
    BY FS_Subset, FS_CardinalityType DEF OpenPaths
  <2>2. \A b \in Bases : Cardinality(DeclaredSuffixes(b)) \in Nat
    BY <1>1, NamesAreFinite DEF SuffixInv
  <2> QED BY <1>1, <2>1, <2>2 DEF Reconcile, TypeOK
<1>8. SuffixesStayLow'
  <2>1. ASSUME NEW n \in DOMAIN slots', n \notin Declared
        PROVE  n[2] < peak'[n[1]] + Cardinality(DeclaredSuffixes(n[1]))
    <3>1. n \in Names /\ n[1] \in Bases /\ n[2] \in Nat
      BY <1>1 DEF TypeOK, Names
    <3>2. CASE n \in DOMAIN slots
      <4>1. n[2] < peak[n[1]] + Cardinality(DeclaredSuffixes(n[1]))
        BY <2>1, <3>2 DEF SuffixInv, SuffixesStayLow, DeclaredSuffixes
      <4> DEFINE b == n[1]
                 d == Cardinality(DeclaredSuffixes(b))
      <4>2. peak[b] \in Nat /\ peak'[b] \in Nat /\ peak'[b] >= peak[b] /\ d \in Nat /\ n[2] < peak[b] + d
        BY <1>7, <3>1, <4>1
      <4> HIDE DEF d
      <4> QED BY <3>1, <4>2 DEF d
    <3>3. ASSUME NEW p \in OpenPaths \ Reusing, n = <<open[p], fresh[p]>>
          PROVE  n[2] < peak'[n[1]] + Cardinality(DeclaredSuffixes(n[1]))
      <4>1. fresh[p] < Cardinality(Peers(p)) + Cardinality(DeclaredSuffixes(open[p]))
        BY <1>1, <1>2, NewSuffixIsLow DEF SuffixInv, Outcome
      <4>2. Peers(p) = {q \in OpenPaths : open[q] = open[p]} /\ n[1] = open[p] /\ n[2] = fresh[p]
        BY <3>3 DEF Peers
      <4>3. Cardinality(Peers(p)) \in Nat
        BY FS_Subset, FS_CardinalityType DEF Peers, OpenPaths
      <4>4. peak'[n[1]] >= Cardinality(Peers(p))
        BY <1>7, <3>1, <4>2
      <4> QED BY <1>7, <3>1, <4>1, <4>2, <4>3, <4>4
    <3> QED BY <1>5, <3>2, <3>3
  <2> QED BY <2>1 DEF SuffixesStayLow, DeclaredSuffixes
<1> QED BY <1>1, <1>3, <1>6, <1>8 DEF SuffixInv

\* Boards that come and go use up no more names of a base than were needed at
\* once, and those the configuration took (registry.go:302-375, 306-308):
\* whatever the order of comings and goings, every freed name is used again.
THEOREM SuffixesAlwaysLow == Spec => []SuffixesStayLow
<1>1. Init => SuffixInv
  <2> SUFFICES ASSUME Init PROVE SuffixInv
    OBVIOUS
  <2>1. DeclaredOptional /\ BasesKnown /\ SuffixesStayLow
    BY DEF Init, DeclaredOptional, BasesKnown, SuffixesStayLow
  <2> QED BY <2>1, TypeInitially DEF SuffixInv
<1>2. SuffixInv /\ [Next]_vars => SuffixInv'
  <2> SUFFICES ASSUME SuffixInv, [Next]_vars PROVE SuffixInv'
    OBVIOUS
  <2>1. CASE UNCHANGED <<slots, peak>>
    BY <2>1, TypeInductive DEF SuffixInv, DeclaredOptional, BasesKnown, SuffixesStayLow
  <2>2. CASE Reconcile
    BY <2>2, SuffixStep
  <2> QED BY <2>1, <2>2 DEF Next, PlugIn, Unplug, refresh, vars
<1>3. SuffixInv => SuffixesStayLow
  BY DEF SuffixInv
<1> QED BY <1>1, <1>2, <1>3, PTL DEF Spec
==============================================================================

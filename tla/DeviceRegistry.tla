---------------------------- MODULE DeviceRegistry ----------------------------
(***************************************************************************)
(* Names for keyboards that come and go: the poll loop's refresh (open     *)
(* paths, cmd/blinkenkeysd/main.go), BaseName (hid/enumerate.go), and the  *)
(* registry's Declare and Reconcile (dispatcher/registry.go).              *)
(*                                                                         *)
(* A board has a Vial UID or none; the UID is compiled into the firmware,  *)
(* so two keyboards of one model have the same.  A name is <<base, k>>:    *)
(* the base itself for k = 0, else the base with the suffix "-(k-1)".      *)
(* Time is counted in polls.                                               *)
(***************************************************************************)
EXTENDS Integers, FiniteSets, Functions

CONSTANTS
  Boards,     \* keyboards
  Paths,      \* HID paths, numbers: refresh sorts by path
  UidOf,      \* the UID of each board's firmware, or None
  PathBase,   \* "vid-pid-path", the base name a path gives
  Declared,   \* names the configuration declares optional
  MaxAge,     \* UntetheredMaxAge, in polls
  Flaky,      \* enumeration may fail
  MaxSuffix,  \* bound: suffixes tried
  None, NoBoard

Bases == ({UidOf[x] : x \in Boards} \ {None}) \cup {PathBase[p] : p \in Paths}
Names == Bases \X (0 .. MaxSuffix)

ASSUME PathsAreNumbers == Paths \subseteq Nat /\ IsFiniteSet(Paths)
ASSUME MaxAgeIsNumber == MaxAge \in Nat
ASSUME BoundIsNumber == MaxSuffix \in Nat
ASSUME DeclaredAreNames == Declared \subseteq Names
ASSUME NoneIsNoBase == None \notin Bases /\ None \notin Paths /\ None \notin Boards
ASSUME NoBoardIsNoBase == NoBoard \notin Bases

VARIABLES
  port,   \* the board on each path, or None
  open,   \* deviceState.openByPath: the base of each open path, or None
  poll,   \* what the poll loop does next
  slots,  \* Registry.slots: name -> [base, ctrl, optional, age]
  peak    \* history: most paths that were open at once with each base

vars == <<port, open, poll, slots, peak>>

\* slot.ctrl is a path: a path is not reopened before the Reconcile that
\* follows its closing.  A slot is connected when it has one.
Connected(s) == s.ctrl # None

\* Declare: the slot's base is the whole id, even when that is a name with a
\* suffix, which no board has for a base.
DeclaredBase(n) == IF n[2] = 0 THEN n[1] ELSE NoBoard

Init ==
  /\ port \in [Paths -> {None}]
  /\ open = [p \in Paths |-> None]
  /\ poll = "refresh"
  /\ slots = [n \in Declared |->
                [base |-> DeclaredBase(n), ctrl |-> None, optional |-> TRUE, age |-> 0]]
  /\ peak = [b \in Bases |-> 0]

\* Deleted: untethered for longer than maxAge, unless declared.
Expired(s) == ~Connected(s) /\ ~s.optional /\ s.age >= MaxAge

\* Faults: only untethered slots are looked through; old ones are deleted
\* before the present devices are looked at.
UntetheredOf(b) == {n \in DOMAIN slots : slots[n].base = b /\ ~Connected(slots[n])}
UnexpiredOf(b)  == {n \in DOMAIN slots : slots[n].base = b /\ ~Expired(slots[n])}

OpenPaths  == {p \in Paths : open[p] # None}
SlotsOf(b) == {n \in DOMAIN slots : slots[n].base = b}
Peers(p)   == {q \in OpenPaths : open[q] = open[p]}
Rank(p)    == Cardinality({q \in Peers(p) : q < p})

(***************************************************************************)
(* The boards.  A path in use by an open handle is not given to another    *)
(* board (the kernel keeps its number until the handle is closed).         *)
(***************************************************************************)
PlugIn(x, p) ==
  /\ \A q \in Paths : port[q] # x
  /\ port[p] = None /\ open[p] = None
  /\ port' = [port EXCEPT ![p] = x]
  /\ UNCHANGED <<open, poll, slots, peak>>

Unplug(p) ==
  /\ port[p] # None
  /\ port' = [port EXCEPT ![p] = None]
  /\ UNCHANGED <<open, poll, slots, peak>>

(***************************************************************************)
(* refresh                                                                 *)
(***************************************************************************)
\* BaseName, from the identity probeUID and the enumeration gave.
BaseName(p, probed) ==
  IF p \in probed /\ UidOf[port[p]] # None THEN UidOf[port[p]] ELSE PathBase[p]

\* A failed enumeration is an empty one.
Enumerate == LET plugged == {p \in Paths : port[p] # None}
             IN IF Flaky THEN {plugged, {}} ELSE {plugged}

\* Paths that left the enumeration are closed; each new one is probed for its
\* UID and opened, either of which may fail; open ones are left alone.
refresh ==
  /\ poll = "refresh"
  /\ \E seen \in Enumerate :
       \E opened \in SUBSET (seen \ OpenPaths) : \E probed \in SUBSET opened :
         open' = [p \in Paths |-> IF p \in seen \cap OpenPaths THEN open[p]
                                  ELSE IF p \in opened THEN BaseName(p, probed)
                                  ELSE None]
  /\ poll' = "reconcile"
  /\ UNCHANGED <<port, slots, peak>>

(***************************************************************************)
(* Reconcile.  The present devices take, in the order of their paths, any  *)
(* slot of their base not taken yet (map order), connected or not; those   *)
(* left over get new names.                                                *)
(***************************************************************************)
\* findUnclaimedByBase finds a slot for those present first.
Reusing == {p \in OpenPaths : Rank(p) < Cardinality(SlotsOf(open[p]))}

\* Fault: a slot found is not marked as claimed.
FoundTwice == {m \in [Reusing -> DOMAIN slots] : \A p \in Reusing : m[p] \in SlotsOf(open[p])}

\* What findUnclaimedByBase may find for them.
Found ==
  {m \in [Reusing -> DOMAIN slots] :
     /\ IsInjective(m)
     /\ \A p \in Reusing : m[p] \in SlotsOf(open[p])}

\* The name with the lowest suffix that no slot, kept or new, has.
Lowest(fresh) ==
  \A p \in DOMAIN fresh :
    /\ <<open[p], fresh[p]>> \notin DOMAIN slots
    /\ \A k \in 0 .. MaxSuffix :
         LET earlier == \E q \in DOMAIN fresh \cap Peers(p) : q < p /\ fresh[q] = k
         IN IF k < fresh[p] THEN <<open[p], k>> \in DOMAIN slots \/ earlier
            ELSE k = fresh[p] => ~earlier

\* Fault: the controller is set only where the state changes.
TakenIfUntethered(s, p) == IF Connected(s) THEN s ELSE [s EXCEPT !.ctrl = p, !.age = 0]

\* A slot that a device on path p has found.
Taken(s, p) == [s EXCEPT !.ctrl = p, !.age = 0]

\* Fault: the handle of a device that left stays with its slot.
LeftForEver(s) == [s EXCEPT !.age = s.age + 1]

\* Fault: every poll without its device restarts the slot's clock.
LeftAnew(s) == [s EXCEPT !.ctrl = None, !.age = 0]

\* A slot nobody took this time: untethered now, or for a poll longer.
Left(s) ==
  IF Connected(s) THEN [s EXCEPT !.ctrl = None, !.age = 0]
  ELSE [s EXCEPT !.age = IF s.age >= MaxAge THEN s.age ELSE s.age + 1]

Reconcile ==
  /\ poll = "reconcile"
  /\ \E m \in Found : \E fresh \in [OpenPaths \ Reusing -> 0 .. MaxSuffix] :
       /\ Lowest(fresh)
       /\ LET taken == Range(m)
              added == {<<open[p], fresh[p]>> : p \in DOMAIN fresh}
              kept  == {n \in DOMAIN slots : n \in taken \/ ~Expired(slots[n])}
              pathOf(n) == CHOOSE p \in Reusing : m[p] = n
              newPathOf(n) == CHOOSE p \in DOMAIN fresh : <<open[p], fresh[p]>> = n
          IN slots' =
               [n \in kept \cup added |->
                  IF n \in added
                  THEN [base |-> n[1], ctrl |-> newPathOf(n), optional |-> FALSE, age |-> 0]
                  ELSE IF n \in taken THEN Taken(slots[n], pathOf(n))
                  ELSE Left(slots[n])]
  /\ poll' = "refresh"
  /\ peak' = [b \in Bases |->
                LET n == Cardinality({p \in OpenPaths : open[p] = b})
                IN IF n > peak[b] THEN n ELSE peak[b]]
  /\ UNCHANGED <<port, open>>

Next ==
  \/ \E x \in Boards, p \in Paths : PlugIn(x, p)
  \/ \E p \in Paths : Unplug(p)
  \/ refresh
  \/ Reconcile

Spec == Init /\ [][Next]_vars

\* The poll loop goes on; a path that can be opened again and again is opened
\* at last.
Fairness ==
  /\ WF_vars(refresh) /\ WF_vars(Reconcile)
  /\ \A p \in Paths : SF_vars(refresh /\ open'[p] # None)

FairSpec == Spec /\ Fairness
------------------------------------------------------------------------------
SlotType == [base : Bases \cup {NoBoard}, ctrl : Paths \cup {None},
             optional : BOOLEAN, age : 0 .. MaxAge]

TypeOK ==
  /\ port \in [Paths -> Boards \cup {None}]
  /\ open \in [Paths -> Bases \cup {None}]
  /\ poll \in {"refresh", "reconcile"}
  /\ DOMAIN slots \subseteq Names
  /\ \A n \in DOMAIN slots : slots[n] \in SlotType
  /\ peak \in [Bases -> Nat]

NamesOf(b) == {n \in DOMAIN slots : slots[n].base = b}

\* Outside refresh every open handle is the controller of one slot, of its
\* own base, and no slot has a closed handle: whatever came, went, swapped
\* paths or shares a base, no board is written twice or left out.
Wired ==
  poll = "refresh" =>
    /\ \A p \in OpenPaths : \E n \in NamesOf(open[p]) :
         /\ slots[n].ctrl = p
         /\ \A o \in DOMAIN slots : slots[o].ctrl = p => o = n
    /\ \A n \in DOMAIN slots : Connected(slots[n]) => slots[n].ctrl \in OpenPaths

\* registry.go:306-308, a name freed can be used again: boards that come and
\* go never use up more names of a base than were needed at once, and those
\* the configuration took.
SuffixesStayLow ==
  \A n \in DOMAIN slots \ Declared :
    n[2] < peak[n[1]] + Cardinality({d \in Declared : d[1] = n[1] /\ d[2] # 0})

\* registry.go:41, a declared slot is never evicted.
DeclaredStays == \A n \in Declared : n \in DOMAIN slots

\* The slot of a base that one board and one slot have stays that board's,
\* be it connected, moved to another path, or back after any absence that
\* did not end it yet.
SoleSlotIsKept ==
  [][poll = "reconcile" /\ poll' = "refresh" =>
       \A p \in OpenPaths, n \in DOMAIN slots :
         NamesOf(open[p]) = {n} /\ Peers(p) = {p} =>
           n \in DOMAIN slots' /\ slots'[n].ctrl = p]_vars

\* A base that is seen no more ends up without names, but for declared ones.
NamesAreFreed ==
  \A b \in Bases :
    <>[](\A p \in Paths : open[p] # b) => <>[](NamesOf(b) \subseteq Declared)

\* A board that stays on its path is connected again and again, whatever else
\* happens on the bus.
StayersAreServed ==
  \A p \in Paths :
    <>[](port[p] # None) => []<>(\E n \in DOMAIN slots : slots[n].ctrl = p)

\* registry.go:298-300, "a present device matching an already-Connected slot's
\* identity never steals it": a connected slot whose device is still there
\* keeps it.
NeverStolen ==
  [][poll = "reconcile" /\ poll' = "refresh" =>
       \A n \in DOMAIN slots :
         Connected(slots[n]) /\ slots[n].ctrl \in OpenPaths =>
           n \in DOMAIN slots' /\ slots'[n].ctrl = slots[n].ctrl]_vars
==============================================================================

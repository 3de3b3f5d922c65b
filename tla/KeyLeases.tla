------------------------------ MODULE KeyLeases ------------------------------
(***************************************************************************)
(* What the claim model promises the clients of one device, as a single    *)
(* table of keys: a key is Free, leased to one name, or Direct.            *)
(* A name leases at most one key, a lease starts on a free key, moves only *)
(* to a free key and leaves a Direct key behind, and a Direct key stays    *)
(* so until the device itself is forgotten.                                *)
(***************************************************************************)
CONSTANTS Names, Keys, Free, Direct

VARIABLE holder

Init == holder = [k \in Keys |-> Free]

Lease(n, k) ==
  /\ \A j \in Keys : holder[j] # n
  /\ holder[k] = Free
  /\ holder' = [holder EXCEPT ![k] = n]

Return(S) ==
  /\ \A k \in S : holder[k] \in Names
  /\ holder' = [k \in Keys |-> IF k \in S THEN Free ELSE holder[k]]

\* A direct write: a lease on the key ends.
Take(k) == holder' = [holder EXCEPT ![k] = Direct]

\* A direct write that sends the lease on its key to another one.
TakeAndMove(k, j) ==
  /\ holder[k] \in Names
  /\ holder[j] = Free
  /\ holder' = [holder EXCEPT ![j] = holder[k], ![k] = Direct]

Forget == holder' = [k \in Keys |-> Free]

Next ==
  \/ \E n \in Names, k \in Keys : Lease(n, k)
  \/ \E S \in SUBSET Keys : Return(S)
  \/ \E k \in Keys : Take(k)
  \/ \E k, j \in Keys : TakeAndMove(k, j)
  \/ Forget

Spec == Init /\ [][Next]_holder
==============================================================================

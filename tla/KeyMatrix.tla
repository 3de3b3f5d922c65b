------------------------------ MODULE KeyMatrix ------------------------------
(***************************************************************************)
(* Key addresses, the matrix of one device and the roles its layout gives  *)
(* the keys: internal/keyaddr and internal/dispatcher/layout.go.           *)
(*                                                                         *)
(* A capability record caps is what a VialRGB board reports: caps.count    *)
(* LEDs numbered from 0, and caps.pos[l], the matrix <<row, column>> of    *)
(* LED l.  The code's (value, ok) results are sets here: {l} for (l, true) *)
(* and {} for (0, false).                                                  *)
(***************************************************************************)
EXTENDS Integers, FiniteSets, Sequences

\* The row and column of an LED that is under no key (underglow).
NoKeyRowCol == 255

LEDsOf(caps) == 0 .. caps.count - 1

Keyed(caps) == {l \in LEDsOf(caps) : caps.pos[l] # <<NoKeyRowCol, NoKeyRowCol>>}

\* Reading order: by row, then by column.
ReadsBefore(caps, l, m) ==
  \/ caps.pos[l][1] < caps.pos[m][1]
  \/ caps.pos[l][1] = caps.pos[m][1] /\ caps.pos[l][2] < caps.pos[m][2]

\* The idx: number of a keyed LED.
IdxOf(caps, l) == Cardinality({m \in Keyed(caps) : ReadsBefore(caps, m, l)})

(***************************************************************************)
(* Addresses.  The text forms "led:N", "idx:N", "R,C" and a bare name are  *)
(* abstracted to their parsed records.                                     *)
(***************************************************************************)
LedAddr(n)       == [kind |-> "led", n |-> n]
IdxAddr(n)       == [kind |-> "idx", n |-> n]
RowColAddr(r, c) == [kind |-> "rowcol", at |-> <<r, c>>]
NameAddr(name)   == [kind |-> "name", name |-> name]

Resolve(a, caps) ==
  {l \in LEDsOf(caps) :
     \/ a.kind = "led" /\ l = a.n
     \/ a.kind = "rowcol" /\ l \in Keyed(caps) /\ caps.pos[l] = a.at
     \/ a.kind = "idx" /\ l \in Keyed(caps) /\ IdxOf(caps, l) = a.n}

(***************************************************************************)
(* Layouts: the idx: numbers of the tab slots, the idx: numbers of an      *)
(* explicit pool (ignored when defaultPool), and the collision policy.     *)
(***************************************************************************)
LedsOfIdx(caps, idxs) ==
  UNION {Resolve(IdxAddr(idxs[i]), caps) : i \in DOMAIN idxs}

\* The keys a name may be given.  The default pool is every key below row 0
\* that is no tab slot; an explicit pool may list any key.
Pool(layout, caps) ==
  IF layout.defaultPool
  THEN {l \in LEDsOf(caps) : /\ caps.pos[l][1] \notin {0, NoKeyRowCol}
                             /\ l \notin LedsOfIdx(caps, layout.tabs)}
  ELSE LedsOfIdx(caps, layout.pool)

\* The order in which names are given the keys of the pool.
PoolBefore(layout, caps, l, m) ==
  IF layout.defaultPool
  THEN ReadsBefore(caps, l, m)
  ELSE \E i, j \in DOMAIN layout.pool :
         /\ i < j
         /\ l \in Resolve(IdxAddr(layout.pool[i]), caps)
         /\ m \in Resolve(IdxAddr(layout.pool[j]), caps)

\* What config.KeyLayout.validate accepts: no number twice, within a list or
\* across the two.
ValidLayout(layout) ==
  LET listed == layout.tabs \o layout.pool
  IN \A i, j \in DOMAIN listed : listed[i] = listed[j] => i = j

\* What a board reports: no two LEDs under one matrix key.
ValidCaps(caps) ==
  \A l, m \in Keyed(caps) : caps.pos[l] = caps.pos[m] => l = m
==============================================================================

------------------------------- MODULE Batching -------------------------------
(***************************************************************************)
(* What the dispatcher goroutine makes of a drained batch of jobs before   *)
(* it touches hardware: internal/dispatcher/batch.go and the redraw        *)
(* expansion of dispatcher.go.                                             *)
(*                                                                         *)
(* A job is a record [kind, device, index].  Flushes ("flush") name an     *)
(* LED; redraws ("redraw") and requests ("caps", "list") have index 0.     *)
(***************************************************************************)
EXTENDS Integers, Sequences, FiniteSets, SequencesExt

CONSTANT MaxBatch   \* keys per HID report, 9 in the code

ASSUME MaxBatchIsPositive == MaxBatch \in Nat \ {0}

Flush(device, index) == [kind |-> "flush", device |-> device, index |-> index]
Redraw(device)       == [kind |-> "redraw", device |-> device, index |-> 0]
Request(kind, device) == [kind |-> kind, device |-> device, index |-> 0]

\* The numbers of a finite set, least first.
Ascending(S) == [i \in 1 .. Cardinality(S) |-> CHOOSE x \in S : Cardinality({y \in S : y < x}) = i - 1]

\* A pass over the batch is a loop over its jobs: out[n] is what it has
\* collected after n of them.

\* Fault: redraws are taken out of the batch but not expanded.
redrawsDropped(batch, cached) == SelectSeq(batch, LAMBDA j : j.kind # "redraw")

\* A redraw becomes a flush of every LED its device has in the frame buffer,
\* in ascending order; cached[d] is that set of LEDs.
expanded(j, cached) ==
  IF j.kind = "redraw"
  THEN LET leds == Ascending(cached[j.device])
       IN [i \in DOMAIN leds |-> Flush(j.device, leds[i])]
  ELSE <<j>>

expandRedraws(batch, cached) ==
  LET out[n \in 0 .. Len(batch)] ==
        IF n = 0 THEN <<>> ELSE out[n - 1] \o expanded(batch[n], cached)
  IN out[Len(batch)]

\* Fault: the device is no part of the key that tells two flushes apart.
dedupeByIndex(batch) ==
  LET seen(kept, j) == \E i \in DOMAIN kept : kept[i].kind = "flush" /\ kept[i].index = j.index
      out[n \in 0 .. Len(batch)] ==
        IF n = 0 THEN <<>>
        ELSE IF batch[n].kind = "flush" /\ seen(out[n - 1], batch[n]) THEN out[n - 1]
        ELSE Append(out[n - 1], batch[n])
  IN out[Len(batch)]

\* Fault: a repeated request is dropped too, and its caller never answered.
dedupeAll(batch) ==
  LET out[n \in 0 .. Len(batch)] ==
        IF n = 0 THEN <<>>
        ELSE IF Contains(out[n - 1], batch[n]) THEN out[n - 1]
        ELSE Append(out[n - 1], batch[n])
  IN out[Len(batch)]

\* A repeated flush of one LED is dropped, the first keeps its place.
dedupeFlushes(batch) ==
  LET out[n \in 0 .. Len(batch)] ==
        IF n = 0 THEN <<>>
        ELSE IF batch[n].kind = "flush" /\ Contains(out[n - 1], batch[n]) THEN out[n - 1]
        ELSE Append(out[n - 1], batch[n])
  IN out[Len(batch)]

\* Whether job j may join the run of flushes it follows.
Joins(run, j, ceiling) ==
  /\ j.kind = "flush" /\ run[1].kind = "flush"
  /\ j.device = run[1].device
  /\ j.index = run[Len(run)].index + 1
  /\ Len(run) < ceiling

\* The groups after job j: it joins the last one or begins its own.
Placed(groups, j, ceiling) ==
  IF groups # <<>> /\ Joins(Last(groups), j, ceiling)
  THEN [groups EXCEPT ![Len(groups)] = Append(@, j)]
  ELSE Append(groups, <<j>>)

\* Groups that are one report each: contiguous LEDs of one device, in the
\* batch's order; any other job is a group of its own.
GroupsUpTo(ceiling, batch) ==
  LET out[n \in 0 .. Len(batch)] ==
        IF n = 0 THEN <<>> ELSE Placed(out[n - 1], batch[n], ceiling)
  IN out[Len(batch)]

\* Fault: groupForSend with a ceiling one too high.
groupsTooLong(batch) == GroupsUpTo(MaxBatch + 1, batch)

groupForSend(batch) == GroupsUpTo(MaxBatch, batch)
==============================================================================

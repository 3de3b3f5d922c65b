----------------------------- MODULE BatchDispatch ----------------------------
(***************************************************************************)
(* One round of the dispatcher goroutine after another                     *)
(* (internal/dispatcher/dispatcher.go): a batch of jobs is drained from    *)
(* the queue, the passes of Batching make groups of it, and the groups for *)
(* the one device that is connected are sent to it in turn, over the link  *)
(* of HidExchange.                                                         *)
(***************************************************************************)
EXTENDS HidExchange

CONSTANTS
  Devices,    \* the devices in the registry
  Connected,  \* the one that is connected
  LEDs,       \* the LEDs of each device that are written to
  Cached,     \* the LEDs of each device in the frame buffer
  MaxLen      \* bound: jobs in a batch

ASSUME ConnectedIsADevice == Connected \in Devices
ASSUME LEDsAreNumbers == LEDs \in [Devices -> SUBSET Nat] /\ Cached \in [Devices -> SUBSET Nat]
ASSUME FrameBufferIsFinite == \A d \in Devices : IsFiniteSet(Cached[d])
ASSUME MaxLenIsNat == MaxLen \in Nat

VARIABLE batch   \* the jobs drained so far, in the order of their arrival

\* Jobs that are asked for: of a Write, of a redraw, of a handler that waits.
Jobs == UNION {{Flush(d, i) : i \in LEDs[d]} \cup {Redraw(d), Request("caps", d)} : d \in Devices}

Expanded == expandRedraws(batch, Cached)
Deduped  == dedupeFlushes(Expanded)
Groups   == groupForSend(Deduped)

Init == InitLink /\ batch = <<>>

drainAfter ==
  /\ Idle /\ Len(batch) < MaxLen
  /\ \E j \in Jobs : batch' = Append(batch, j)
  /\ UNCHANGED link

\* The members of sequence s that are in S, in their order.
Chosen(s, S) ==
  LET out[n \in 0 .. Len(s)] ==
        IF n = 0 THEN <<>>
        ELSE IF s[n] \in S THEN Append(out[n - 1], s[n]) ELSE out[n - 1]
  IN out[Len(s)]

\* The batch is grouped and its groups for the connected device are sent in
\* turn; a flush of another device is skipped, a request of it is answered
\* without a report.
process ==
  LET groups == Chosen(Groups, {g \in ToSet(Groups) : g[1].device = Connected})
  IN /\ batch # <<>>
     /\ Begin([i \in DOMAIN groups |-> IF groups[i][1].kind = "caps" THEN "caps" ELSE "keys"])
     /\ batch' = <<>>

Next == drainAfter \/ process \/ (Exchange /\ UNCHANGED batch)

Spec == Init /\ [][Next]_<<batch, link>>
------------------------------------------------------------------------------
BatchTypeOK == batch \in Seq(Jobs) /\ Len(batch) <= MaxLen

Flushes(jobs) == {jobs[i] : i \in {k \in DOMAIN jobs : jobs[k].kind = "flush"}}

Redrawn == {d \in Devices : Contains(batch, Redraw(d))}

\* No color asked for is lost on the way to the groups and none is made up:
\* they flush exactly the LEDs the batch flushes or redraws, each once
\* (dispatcher.go:128-142, batch.go:44-65).
NothingIsLost ==
  LET sent == FlattenSeq(Groups)
  IN /\ Flushes(sent) = Flushes(batch) \cup UNION {{Flush(d, i) : i \in Cached[d]} : d \in Redrawn}
     /\ \A i, k \in DOMAIN sent : sent[i] = sent[k] /\ sent[i].kind = "flush" => i = k

\* A group is for one device, and SetKeys refuses none of those it is called
\* with: "internal/dispatcher is responsible for chunking accordingly"
\* (protocol.go:173-175).
GroupsAreSendable ==
  \A g \in DOMAIN Groups :
    LET group == Groups[g]
    IN /\ \A i \in DOMAIN group : group[i].device = group[1].device /\ group[i].kind = group[1].kind
       /\ IF group[1].kind = "flush"
          THEN ~Refused([i \in DOMAIN group |-> group[i].index])
          ELSE Len(group) = 1

\* Grouping keeps the order of the jobs, and every request made is answered
\* once, in the order of arrival: its caller waits for the reply.
ArrivalOrderIsKept ==
  LET requests == {j \in Jobs : j.kind \notin {"flush", "redraw"}}
  IN /\ FlattenSeq(Groups) = Deduped
     /\ Chosen(Deduped, requests) = Chosen(batch, requests)
==============================================================================

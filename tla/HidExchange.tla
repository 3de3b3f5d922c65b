------------------------------ MODULE HidExchange ------------------------------
(***************************************************************************)
(* One board on its raw-HID link: internal/hid/protocol.go, and the        *)
(* capability query of internal/dispatcher/dispatcher.go that reads the    *)
(* board's layout through it.                                              *)
(*                                                                         *)
(* Each request is one report out and one report back.  Reports arrive in  *)
(* order, but a reply can arrive after its reader gave up: it then waits   *)
(* in the handle's queue, and the next request reads it.  Replies name     *)
(* their command and not the LED they describe.                            *)
(***************************************************************************)
EXTENDS Batching, FiniteSets

CONSTANTS
  NumLEDs,   \* LEDs of the board
  MaxLag     \* bound: replies that are left unread

ASSUME NumLEDsIsPositive == NumLEDs \in Nat \ {0}
ASSUME MaxLagIsNat == MaxLag \in Nat

VARIABLES
  stage,     \* "uid", "mode": the board is being opened; "ready" then
  replies,   \* replies on their way or queued, oldest first
  sending,   \* requests left of the batch in hand: "keys" or "caps"
  query,     \* the capability query in hand, or NoQuery
  caps       \* the layout stored in the registry, or NoCaps

link == <<stage, replies, sending, query, caps>>

NoReply == [cmd |-> "none", value |-> 0]
NoQuery == [count |-> 0, positions |-> <<>>]
NoCaps  == <<>>

InitLink ==
  /\ stage = "uid"
  /\ replies = <<>>
  /\ sending = <<>>
  /\ query = NoQuery
  /\ caps = NoCaps

\* What the board answers.  An LED's position stands for itself: no two LEDs
\* share one.  A count of 0 is the bad reply dispatcher.go:325-328 tells of.
Answers(request) ==
  CASE request.cmd = "number" -> {[cmd |-> "number", value |-> n] : n \in {0, NumLEDs}}
    [] request.cmd = "info"   -> {[cmd |-> "info", value |-> request.value]}
    [] OTHER                  -> {[cmd |-> request.cmd, value |-> 0]}

\* Fault: an interrupted exchange is sent once more, not just read again.
SentAgain(request) ==
  {replies \o r : r \in {<<a>> : a \in Answers(request)} \cup {<<a, a>> : a \in Answers(request)}}

\* The queue of replies once the request is out.  It goes out once, however
\* often its reader is interrupted.
Sent(request) == {Append(replies, a) : a \in Answers(request)}

\* The ends of one exchange: the oldest reply is read; no reply came in time
\* or too many reads were interrupted; the report did not go out.
sendReport(request) ==
  {[resp |-> Head(queue), replies |-> Tail(queue)] : queue \in Sent(request)}
  \cup {[resp |-> NoReply, replies |-> queue] : queue \in {q \in Sent(request) : Len(q) <= MaxLag}}
  \cup {[resp |-> NoReply, replies |-> replies]}

\* A reply is taken for the answer if it names the command.
checkEcho(request, resp) == resp.cmd = request.cmd

\* Keys SetKeys returns an error for, without a report.
Refused(keys) ==
  \/ Len(keys) > MaxBatch
  \/ \E i \in DOMAIN keys : keys[i] # keys[1] + i - 1
------------------------------------------------------------------------------
\* Opening.  The UID is read through a handle of its own; a reply it gave up
\* on reaches the next handle if that one is open by then.
probeUID ==
  /\ stage = "uid"
  /\ \E out \in sendReport([cmd |-> "uid", value |-> 0]) : replies' \in {out.replies, <<>>}
  /\ stage' = "mode"
  /\ UNCHANGED <<sending, query, caps>>

\* The reply is read and not looked at, here as in SetKeys.
SetDirectMode ==
  /\ stage = "mode"
  /\ \E out \in sendReport([cmd |-> "mode", value |-> 0]) : replies' = out.replies
  /\ stage' = "ready"
  /\ UNCHANGED <<sending, query, caps>>

\* The dispatcher begins with the groups of its next batch.
Idle == stage = "ready" /\ sending = <<>>

Begin(groups) ==
  /\ Idle
  /\ sending' = groups
  /\ UNCHANGED <<stage, replies, query, caps>>

\* The next group of the batch: a run of LEDs.
SetKeys ==
  /\ sending # <<>> /\ Head(sending) = "keys"
  /\ \E out \in sendReport([cmd |-> "keys", value |-> 0]) : replies' = out.replies
  /\ sending' = Tail(sending)
  /\ UNCHANGED <<stage, query, caps>>

\* The next group of the batch: a request for the capabilities, answered
\* from the registry when they are known.
CapsKnown ==
  /\ sending # <<>> /\ Head(sending) = "caps" /\ caps # NoCaps
  /\ sending' = Tail(sending)
  /\ UNCHANGED <<stage, replies, query, caps>>

\* The query ends, with a layout or with none.
QueryEnds(layout) ==
  /\ query' = NoQuery
  /\ sending' = Tail(sending)
  /\ caps' = layout

GoodCount(resp) == resp.value > 0

GetNumberLEDs ==
  LET request == [cmd |-> "number", value |-> 0]
  IN /\ sending # <<>> /\ Head(sending) = "caps" /\ caps = NoCaps /\ query = NoQuery
     /\ \E out \in sendReport(request) :
          /\ replies' = out.replies
          /\ IF checkEcho(request, out.resp) /\ GoodCount(out.resp)
             THEN query' = [count |-> out.resp.value, positions |-> <<>>] /\ UNCHANGED <<sending, caps>>
             ELSE QueryEnds(NoCaps)
     /\ UNCHANGED stage

\* The LEDs are asked for in ascending order; the first error ends it all.
GetLEDInfo ==
  LET request == [cmd |-> "info", value |-> Len(query.positions)]
  IN /\ query # NoQuery
     /\ \E out \in sendReport(request) :
          LET positions == Append(query.positions, out.resp.value)
          IN /\ replies' = out.replies
             /\ \/ ~checkEcho(request, out.resp) /\ QueryEnds(NoCaps)
                \/ /\ checkEcho(request, out.resp)
                   /\ IF Len(positions) = query.count
                      THEN QueryEnds(positions)
                      ELSE query' = [query EXCEPT !.positions = positions] /\ UNCHANGED <<sending, caps>>
     /\ UNCHANGED stage

Exchange == probeUID \/ SetDirectMode \/ SetKeys \/ CapsKnown \/ GetNumberLEDs \/ GetLEDInfo

\* The link under any batches.
LinkSpec == InitLink /\ [][Exchange \/ \E groups \in Seq({"keys", "caps"}) : Begin(groups)]_link
------------------------------------------------------------------------------
\* The layout stored is the board's: every LED, each at its own position.
\* A reply to LED i could be taken for LED k, as neither names its LED
\* (protocol.go:140-154), if a query did not stop at its first error
\* (dispatcher.go:331-335) or an interrupted read were sent again, which
\* would leave "that reply queued to be mistaken for the next request's"
\* (protocol.go:72-74).
LayoutIsRight == caps \in {NoCaps, [i \in 1 .. NumLEDs |-> i - 1]}
==============================================================================

-------------------------------- MODULE BlinCli --------------------------------
(***************************************************************************)
(* blincli set, clear and get, run by several terminal sessions against    *)
(* one device of the daemon: cmd/blincli/set.go and get.go.                *)
(*                                                                         *)
(* The daemon is its claim model (KeyClaims) and, for each LED, the        *)
(* request it shows.  A command is several requests, and those of          *)
(* different sessions interleave.  A DELETE by name is served in the three *)
(* calls it makes, anything coming in between; other requests and the      *)
(* sweep are one step each, the overlap of their handlers being            *)
(* KeyService's.  A session runs one command at a time.  Each invocation   *)
(* works its plan out anew: a helper may answer one and not the next.      *)
(***************************************************************************)
EXTENDS KeyMatrix, TerminalIdentity

CONSTANTS
  Names, LED, Board, Layouts, MaxAge, Unowned, Direct, NoKey, NoCaps,
  Sessions,       \* the callers
  Invocations,    \* what each session's invocations may look like
  Host,           \* the host put before a session's names, "" for the socket
  Slots,          \* each session's -m or configured slots, 0 if there are none
  Hash,           \* FNV-1a of each name
  ExplicitAddr,   \* the address each explicit key parses to
  Idle

ASSUME OwnersDistinct  == Unowned \notin Names /\ Direct \notin Names /\ Unowned # Direct
ASSUME NoKeyIsNoLED    == NoKey \notin LED
ASSUME NoCapsIsNoBoard == NoCaps # Board
ASSUME MaxAgeIsNat     == MaxAge \in Nat
ASSUME BoardValid ==
  /\ Board.count \in Nat /\ LEDsOf(Board) \subseteq LED
  /\ ValidCaps(Board) /\ \A l \in LEDsOf(Board) : Board.pos[l] \in Nat \X Nat
ASSUME LayoutsValid ==
  \A lay \in Layouts : ValidLayout(lay) /\ lay.tabs \in Seq(Nat) /\ lay.pool \in Seq(Nat)

VARIABLES
  layout, present, caps, claims, idle, owners, pending, settling,  \* KeyClaims
  shown,   \* what each LED shows: who set it and whether that is their latest
  cmd,     \* the command a session has under way, or Idle
  last     \* history: the plan of each session's last set, if not cleared

claimVars == <<layout, present, caps, claims, idle, owners, pending, settling>>
vars == <<claimVars, shown, cmd, last>>

Claims == INSTANCE KeyClaims WITH Matrices <- {Board}, PendAddrs <- {}

\* A color and who set it; tag <<>>: untagged, of no session.
Dark       == [lit |-> FALSE, tag |-> <<>>, latest |-> FALSE]
Color(tag) == [lit |-> TRUE, tag |-> tag, latest |-> tag # <<>>]

\* The plans a session may come to: a helper's answer is all that varies.
Plans == [s \in Sessions |-> {Qualify(PlanKey(inv), Host[s]) : inv \in Invocations[s]} \ {NoPlan}]

\* The panes sessions run in: where an invocation has an owner it is by a pane,
\* which has another host or name than those of all other sessions.
InPane(inv) == inv.key = "" /\ inv.name = "" /\ Detect(inv).instance # ""
PanesApart ==
  \A s, t \in Sessions : \A inv \in Invocations[s], jnv \in Invocations[t] :
    /\ InPane(inv) \/ PlanKey(inv).mode \in {"explicit", "none"}
    /\ InPane(inv) /\ InPane(jnv)
       => ((Host[s] = Host[t] /\ NameOf(Detect(inv)) = NameOf(Detect(jnv))) <=> s = t)

ASSUME OwnersAreNames ==
  \A s \in Sessions : \A plan \in Plans[s] :
    plan.mode # "explicit" => plan.owner # <<>> /\ (plan.mode = "named" => plan.owner \in Names)

Init ==
  /\ layout \in Layouts
  /\ present = TRUE
  /\ caps = Board
  /\ claims = [n \in Names |-> NoKey]
  /\ idle = [n \in Names |-> 0]
  /\ owners = [l \in LED |-> Unowned]
  /\ pending = <<>>
  /\ settling = FALSE
  /\ shown = [l \in LED |-> Dark]
  /\ cmd = [s \in Sessions |-> Idle]
  /\ last = [s \in Sessions |-> NoPlan]
------------------------------------------------------------------------------
(***************************************************************************)
(* The daemon, one request a step.                                         *)
(***************************************************************************)
\* A new request of the same owner leaves its older ones behind.
Aged(tag) ==
  [l \in LED |-> IF shown[l].tag = tag THEN [lit |-> shown[l].lit, tag |-> tag, latest |-> FALSE]
                 ELSE shown[l]]

\* PUT under a name: 204, or 409 and nothing is changed.
PutName(n) ==
  /\ Claims!ClaimOrGet(n)
  /\ shown' = IF claims'[n] = NoKey THEN shown
              ELSE [Aged(n) EXCEPT ![claims'[n]] = Color(n)]

\* PUT to a key: a claim on it moves with its color, or is dropped; 404 and
\* nothing is changed if the board has no such key.
PutDirect(a, tag) ==
  \/ \E l \in Resolve(a, caps) :
       LET n == owners[l]
       IN /\ Claims!MarkDirectDisplacing(l)
          /\ shown' = IF n \in Names /\ claims'[n] # NoKey /\ shown[l].lit
                      THEN [Aged(tag) EXCEPT ![l] = Color(tag), ![claims'[n]] = Aged(tag)[l]]
                      ELSE [Aged(tag) EXCEPT ![l] = Color(tag)]
  \/ Resolve(a, caps) = {} /\ UNCHANGED <<claimVars, shown>>

\* ?owner=tag spares a key that shows another's request.
Spared(l, tag) == tag # <<>> /\ shown[l].lit /\ shown[l].tag # tag

\* DELETE of a key: it has no claim to release.
DeleteDirect(a, tag) ==
  /\ shown' = [l \in LED |-> IF l \in Resolve(a, caps) /\ ~Spared(l, tag) THEN Dark ELSE shown[l]]
  /\ UNCHANGED claimVars

\* The idle sweep and its blanking of the freed keys.
Sweep ==
  /\ Claims!SweepIdleClaims
  /\ shown' = [l \in LED |-> IF \E n \in Claims!Expired : claims[n] = l THEN Dark ELSE shown[l]]
  /\ UNCHANGED <<cmd, last>>

Tick == Claims!Tick /\ UNCHANGED <<shown, cmd, last>>
------------------------------------------------------------------------------
(***************************************************************************)
(* The client.                                                             *)
(***************************************************************************)
\* The tab slots a session uses: its own number of them, the daemon's, or 6.
tabs(s) ==
  IF Slots[s] > 0 THEN DefaultTabs(Slots[s])
  ELSE IF layout.tabs # <<>> THEN layout.tabs
  ELSE DefaultTabs(6)

\* Fault: get looks at the daemon's slots whatever the configuration says.
DaemonTabs(s) == IF layout.tabs # <<>> THEN layout.tabs ELSE DefaultTabs(6)

\* The tabs get uses: its options and configuration are read apart from
\* those of set and clear.
getTabs(s) == tabs(s)

SlotAddr(s, plan)   == IdxAddr(SlotKey(plan.tab, tabs(s)))
SharedAddr(s, plan) == IdxAddr(SharedKey(Hash[plan.owner], tabs(s)))

\* The command goes on at another call of the daemon; key is the LED that the
\* Lookup of a DELETE gave.
Goes(s, at, op, plan, key) ==
  /\ cmd' = [cmd EXCEPT ![s] = [at |-> at, op |-> op, plan |-> plan, key |-> key]]
  /\ UNCHANGED <<claimVars, shown, last>>

At(s, at) == cmd[s] # Idle /\ cmd[s].at = at

\* On to the slot shared by hash: a request of its own.
Shares(s, op, plan) == Goes(s, "shared", op, plan, NoKey)

Ends(s) == cmd' = [cmd EXCEPT ![s] = Idle]

\* The write of a session's own key, on the address a.
Puts(s, plan, a) ==
  /\ PutDirect(a, plan.owner)
  /\ Ends(s)
  /\ last' = IF Resolve(a, caps) = {} THEN last ELSE [last EXCEPT ![s] = plan]

\* doSet, its first request.  A name takes a key of the pool; if there is
\* none left (409), it goes to its shared slot.
doSet(s, plan) ==
  /\ cmd[s] = Idle
  /\ \/ plan.mode = "explicit" /\ PutDirect(ExplicitAddr[plan.key], <<>>) /\ UNCHANGED <<cmd, last>>
     \/ plan.mode = "slot" /\ Puts(s, plan, SlotAddr(s, plan))
     \/ /\ plan.mode = "named"
        /\ PutName(plan.owner)
        /\ IF claims'[plan.owner] = NoKey
           THEN Shares(s, "set", plan)
           ELSE UNCHANGED cmd /\ last' = [last EXCEPT ![s] = plan]

\* doSet, on the shared slot.
doSetShared(s) ==
  /\ At(s, "shared") /\ cmd[s].op = "set"
  /\ Puts(s, cmd[s].plan, SharedAddr(s, cmd[s].plan))

\* The owner a clear is conditional on; --force has none.
Owner(op, plan) == IF op = "force" THEN <<>> ELSE plan.owner

\* The clear is done: what its plan stands for is not set any more.
Cleared(s, plan) ==
  /\ Ends(s)
  /\ last' = IF last[s] = plan THEN [last EXCEPT ![s] = NoPlan] ELSE last

\* DELETE of a name, its Lookup: the key the name has, or 404 and on to the
\* shared slot.
LookupName(s, op, plan) ==
  \/ claims[plan.owner] # NoKey /\ Goes(s, "blank", op, plan, claims[plan.owner])
  \/ claims[plan.owner] = NoKey /\ Shares(s, op, plan)

\* Fault: a name without a claim is taken for cleared.
clearClaimOnly(s, op, plan) ==
  /\ cmd[s] = Idle
  /\ \/ plan.mode = "explicit" /\ DeleteDirect(ExplicitAddr[plan.key], <<>>) /\ Cleared(s, plan)
     \/ plan.mode = "slot" /\ DeleteDirect(SlotAddr(s, plan), Owner(op, plan)) /\ Cleared(s, plan)
     \/ /\ plan.mode = "named"
        /\ claims[plan.owner] = NoKey
        /\ UNCHANGED <<claimVars, shown>> /\ Cleared(s, plan)
     \/ plan.mode = "named" /\ claims[plan.owner] # NoKey /\ LookupName(s, op, plan)

\* doClear, its first request.  A key that is not there (404) is cleared.
\* The claim by name goes unasked; if there is none, the shared slot goes, as
\* a tab slot does, if the owner matches.
doClear(s, op, plan) ==
  /\ cmd[s] = Idle
  /\ \/ plan.mode = "explicit" /\ DeleteDirect(ExplicitAddr[plan.key], <<>>) /\ Cleared(s, plan)
     \/ plan.mode = "slot" /\ DeleteDirect(SlotAddr(s, plan), Owner(op, plan)) /\ Cleared(s, plan)
     \/ plan.mode = "named" /\ LookupName(s, op, plan)

\* DELETE of a name, its blank: of the key looked up, whoever has it by now.
\* (last: if the name still has that key, its color is gone; a claim that
\* moved away before the blank took its color along, and is lost.)
BlankName(s) ==
  LET c == cmd[s]
  IN /\ At(s, "blank")
     /\ shown' = [shown EXCEPT ![c.key] = Dark]
     /\ cmd' = [cmd EXCEPT ![s].at = "release"]
     /\ last' = IF last[s].mode # "named" \/ claims[c.plan.owner] = NoKey THEN last
                ELSE IF claims[c.plan.owner] = c.key THEN [last EXCEPT ![s] = NoPlan]
                ELSE [last EXCEPT ![s].mode = "lost"]
     /\ UNCHANGED claimVars

\* DELETE of a name, its release: of the claim the name has by now; without
\* one it is a 404 all the same, and the shared slot is next.
ReleaseName(s) ==
  LET plan == cmd[s].plan
  IN /\ At(s, "release")
     /\ \/ Claims!ReleaseClaim(plan.owner) /\ Ends(s) /\ UNCHANGED <<shown, last>>
        \/ claims[plan.owner] = NoKey /\ Shares(s, cmd[s].op, plan)

\* doClear, of the shared slot.
doClearShared(s) ==
  LET plan == cmd[s].plan
  IN /\ At(s, "shared") /\ cmd[s].op # "set"
     /\ DeleteDirect(SharedAddr(s, plan), Owner(cmd[s].op, plan))
     /\ Cleared(s, plan)

\* A request does not get through, or its answer does not: the command ends
\* (exit 69), nothing is tried again.  A DELETE being served is served out.
Unreachable(s) ==
  /\ At(s, "shared")
  /\ Ends(s)
  /\ UNCHANGED <<claimVars, shown, last>>

\* lookupKey: the LEDs get reports, one or none.  It reads in up to two
\* requests; a name that had no claim at the first gets none from another
\* session by the second.
lookupKey(s, plan) ==
  CASE plan.mode = "explicit" -> Resolve(ExplicitAddr[plan.key], caps)
    [] plan.mode = "slot"     -> Resolve(IdxAddr(SlotKey(plan.tab, getTabs(s))), caps)
    [] plan.mode = "named"    -> IF claims[plan.owner] # NoKey THEN {claims[plan.owner]}
                                 ELSE Resolve(IdxAddr(SharedKey(Hash[plan.owner], getTabs(s))), caps)

\* One invocation: the plan first (prepare), then the command.  Without a
\* plan it ends there.
Invoke(s) ==
  \E plan \in Plans[s] :
    \/ doSet(s, plan)
    \/ doClear(s, "clear", plan)
    \/ doClear(s, "force", plan)

Next ==
  \/ \E s \in Sessions :
       \/ Invoke(s) \/ doSetShared(s)
       \/ BlankName(s) \/ ReleaseName(s) \/ doClearShared(s)
       \/ Unreachable(s)
  \/ Sweep \/ Tick

Spec == Init /\ [][Next]_vars
------------------------------------------------------------------------------
(***************************************************************************)
(* Properties.                                                             *)
(***************************************************************************)
\* A session is known by one owner tag, whatever the helpers answered, and by
\* no other's: "panes on different machines sharing one daemon don't collide"
\* (key.go:81-83), and a clear is refused for a key set under another tag.
SessionsAreTold ==
  \A s, t \in Sessions : \A plan \in Plans[t] :
    last[s] # NoPlan /\ plan.mode # "explicit" => (last[s].owner = plan.owner <=> s = t)

\* After a clear under the plan of its last set a session has nothing of that
\* set lit, wherever it went and was moved to since.  (A claim displaced
\* between the Lookup and the blank of its own DELETE is lost: the code leaves
\* its color on a key that is nobody's.)
ClearUndoesSet ==
  \A s \in Sessions, l \in LED :
    last[s] = NoPlan => \A plan \in Plans[s] :
                          plan.mode # "explicit" => ~(shown[l].latest /\ shown[l].tag = plan.owner)

\* What a session set last is found by get under the same plan as long as a
\* key shows it: on its tab slot, its claimed key, or its shared slot
\* (get.go:99-100, "where a write lands when the pool is empty or full").
GetFindsWhatSetWrote ==
  \A s \in Sessions, l \in LED :
    last[s].mode \notin {"none", "lost"} /\ shown[l].latest /\ shown[l].tag = last[s].owner => l \in lookupKey(s, last[s])
==============================================================================

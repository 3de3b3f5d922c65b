--------------------------- MODULE TerminalIdentity ---------------------------
(***************************************************************************)
(* Who is calling blincli and which key strategy it gets, from environment *)
(* variables, helper commands and options, without the network:            *)
(* internal/termid, internal/client/key.go and planKey of                  *)
(* cmd/blincli/main.go.                                                    *)
(*                                                                         *)
(* A name is a sequence of its parts: <<"wezterm", pane>> for wezterm-17,  *)
(* <<host, "wezterm", pane>> when qualified, <<name>> for -n; "" and <<>>  *)
(* stand for unset.  Parts are as Sanitize leaves them: it, the cut of an  *)
(* iTerm uuid to 8 characters and fitName's hash of long names may make    *)
(* one of two names, and are left out.                                     *)
(*                                                                         *)
(* An invocation is a record:                                              *)
(*   key, name       -k or $BLINKENKEYS_KEY, and -n                        *)
(*   tmux, iterm, wezterm, kitty   the variable of each terminal, or ""    *)
(*   window, base    what tmux answers, NoAnswer if it does not            *)
(*   itermTab, uuid  the parts of $ITERM_SESSION_ID: itermTab is NoAnswer  *)
(*                   if it is malformed, uuid is "" if it has none and     *)
(*                   "odd" if osascript is not to see it                   *)
(*   liveTab         what osascript answers, NoAnswer if it does not       *)
(*   panes           what wezterm lists: <<window, tab, pane>> in its      *)
(*                   order, <<>> if all attempts fail                      *)
(*   fallbacks       the names of fallbackVars that are set, in order      *)
(***************************************************************************)
EXTENDS Integers, Sequences, FiniteSets

NoAnswer == -1

\* One terminal pane; tab 0: its tab is not known.
Identity(terminal, instance, tab) == [terminal |-> terminal, instance |-> instance, tab |-> tab]

\* Identity.Name.
NameOf(id) == <<id.terminal, id.instance>>

\* Windows are numbered from tmux's base-index.
tmuxTab(inv) ==
  IF NoAnswer \notin {inv.window, inv.base} /\ inv.window >= inv.base
  THEN inv.window - inv.base + 1 ELSE 0

\* The tab the variable tells, fixed when the shell started, is used only if
\* there is no session id to ask iTerm about: a failed lookup gives no tab.
itermTabOf(inv) ==
  CASE inv.itermTab = NoAnswer  -> 0
    [] inv.uuid \in {"", "odd"} -> inv.itermTab + 1
    [] OTHER                    -> IF inv.liveTab >= 1 THEN inv.liveTab ELSE 0

\* The rank of the pane's tab among the tabs of its window, in list order:
\* the tabs that come no later than it does.
weztermTab(inv) ==
  LET mine     == {i \in DOMAIN inv.panes : inv.panes[i][3] = inv.wezterm}
      window(i) == SelectSeq(inv.panes, LAMBDA p : p[1] = inv.panes[i][1])
      upTo(w, tab) == CHOOSE n \in DOMAIN w : w[n][2] = tab /\ \A k \in 1 .. n - 1 : w[k][2] # tab
  IN IF mine = {} THEN 0
     ELSE LET i == CHOOSE i \in mine : \A k \in mine : i <= k
              w == window(i)
          IN Cardinality({w[k][2] : k \in 1 .. upTo(w, inv.panes[i][2])})

\* Most specific first: tmux's panes have the outer terminal's variables.
Detect(inv) ==
  LET found == SelectSeq(<<Identity("tmux", inv.tmux, tmuxTab(inv)),
                           Identity("iterm", inv.iterm, itermTabOf(inv)),
                           Identity("wezterm", inv.wezterm, weztermTab(inv)),
                           Identity("kitty", inv.kitty, 0)>>,
                         LAMBDA id : id.instance # "")
  IN IF found = <<>> THEN Identity("", "", 0) ELSE Head(found)

FallbackName(inv) == IF inv.fallbacks = <<>> THEN <<>> ELSE <<Head(inv.fallbacks)>>
------------------------------------------------------------------------------
(***************************************************************************)
(* Plans.  given: the name is from -n and no host is put before it.        *)
(***************************************************************************)
Explicit(key)   == [mode |-> "explicit", key |-> key, tab |-> 0, owner |-> <<>>, given |-> FALSE]
Slot(tab, name) == [mode |-> "slot", key |-> "", tab |-> tab, owner |-> name, given |-> FALSE]
Named(name)     == [mode |-> "named", key |-> "", tab |-> 0, owner |-> name, given |-> FALSE]
NoPlan          == [mode |-> "none", key |-> "", tab |-> 0, owner |-> <<>>, given |-> FALSE]

\* The claim name of a named plan is its owner tag too.
PlanKey(inv) ==
  LET id   == Detect(inv)
      name == IF id.instance # "" THEN NameOf(id) ELSE FallbackName(inv)
  IN IF inv.key # "" THEN Explicit(inv.key)
     ELSE IF inv.name # "" THEN [Named(<<inv.name>>) EXCEPT !.given = TRUE]
     ELSE IF id.tab > 0 THEN Slot(id.tab, name)
     ELSE IF name # <<>> THEN Named(name)
     ELSE NoPlan

\* Fault: the host is put before claim names only.
QualifyNames(plan, host) ==
  IF host = "" \/ plan.mode # "named" \/ plan.given THEN plan
  ELSE [plan EXCEPT !.owner = <<host>> \o @]

\* Plan.Qualify, for a daemon on another machine.
Qualify(plan, host) ==
  IF host = "" \/ plan.mode \in {"explicit", "none"} \/ plan.given THEN plan
  ELSE [plan EXCEPT !.owner = <<host>> \o @]
------------------------------------------------------------------------------
\* DefaultTabs: idx 0 to n - 1.
DefaultTabs(n) == [i \in 1 .. n |-> i - 1]

\* SlotKey: tab numbers wrap over the slots.
SlotKey(tab, tabs) == tabs[((tab - 1) % Len(tabs)) + 1]

\* SharedKey: hash is the name's FNV-1a hash.
SharedKey(hash, tabs) == tabs[(hash % Len(tabs)) + 1]
==============================================================================

------------------------------ MODULE MCBlinCli -------------------------------
(***************************************************************************)
(* Two WezTerm panes of one number on two machines, whose tab is not       *)
(* always known, and a local session that picks its key, on a board of two *)
(* keys on row 0 and two below.                                            *)
(***************************************************************************)
EXTENDS BlinCli, TLC

CONSTANTS near, far, here

MCSessions == {near, far, here}
MCLED      == 0 .. 3

nearName == <<"laptop", "wezterm", "7">>
farName  == <<"nas", "wezterm", "7">>
MCNames  == {nearName, farName}

MCBoard == [count |-> 4, pos |-> (0 :> <<0, 0>> @@ 1 :> <<0, 1>> @@ 2 :> <<1, 0>> @@ 3 :> <<1, 1>>)]

\* A tab slot and the pool below it; and no tab slots, either policy: the
\* slots the client falls back on are then keys of the pool too.
MCLayouts == {[tabs |-> <<0>>, pool |-> <<>>, defaultPool |-> TRUE, displace |-> TRUE],
              [tabs |-> <<>>, pool |-> <<>>, defaultPool |-> TRUE, displace |-> TRUE],
              [tabs |-> <<>>, pool |-> <<>>, defaultPool |-> TRUE, displace |-> FALSE]}

Bare == [key |-> "", name |-> "", tmux |-> "", iterm |-> "", wezterm |-> "", kitty |-> "",
         window |-> NoAnswer, base |-> NoAnswer, itermTab |-> NoAnswer, uuid |-> "",
         liveTab |-> NoAnswer, panes |-> <<>>, fallbacks |-> <<>>]

Pane(list) == [Bare EXCEPT !.wezterm = "7", !.panes = list, !.fallbacks = <<"session">>]

\* The pane in its window's first tab, in the third after two were opened
\* before it, and with no answer.
MCInvocations ==
  near :> {Pane(<< <<2, 4, "3">>, <<1, 10, "7">> >>),
           Pane(<< <<1, 8, "4">>, <<1, 9, "5">>, <<1, 9, "6">>, <<1, 10, "7">> >>),
           Pane(<<>>)}
  @@ far :> {Pane(<< <<1, 8, "7">> >>), Pane(<<>>)}
  @@ here :> {[Bare EXCEPT !.key = "led:2"], Bare}

MCHost  == near :> "laptop" @@ far :> "nas" @@ here :> ""
MCSlots == near :> 0 @@ far :> 2 @@ here :> 0
MCHash  == nearName :> 2 @@ farName :> 3

MCExplicitAddr == "led:2" :> LedAddr(2)

ASSUME ThePanesAreApart == PanesApart
==============================================================================

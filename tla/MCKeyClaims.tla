----------------------------- MODULE MCKeyClaims -----------------------------
(***************************************************************************)
(* A small board: led 0 on row 0, leds 1 to 3 on row 1 in a column order   *)
(* that is not their index order, led 4 underglow.                         *)
(***************************************************************************)
EXTENDS KeyClaims, TLC

CONSTANTS n1, n2, n3

MCNames == {n1, n2, n3}
MCLED   == 0 .. 4

Board == [count |-> 5,
          pos |-> (0 :> <<0, 0>> @@ 1 :> <<1, 2>> @@ 2 :> <<1, 0>> @@ 3 :> <<1, 1>>
                   @@ 4 :> <<NoKeyRowCol, NoKeyRowCol>>)]
\* The same board flashed with a firmware that reports fewer LEDs.
SmallBoard == [count |-> 3, pos |-> (0 :> <<0, 0>> @@ 1 :> <<1, 0>> @@ 2 :> <<1, 1>>)]

MCMatrices == {Board, SmallBoard}

LayoutOf(tabs, pool, isDefault, displace) ==
  [tabs |-> tabs, pool |-> pool, defaultPool |-> isDefault, displace |-> displace]

MCLayouts == {LayoutOf(<<>>, <<>>, TRUE, FALSE),
              LayoutOf(<<2>>, <<>>, TRUE, TRUE),
              LayoutOf(<<1>>, <<3, 0, 9>>, FALSE, TRUE)}

MCPendAddrs == {LedAddr(2), LedAddr(4), IdxAddr(3), NameAddr(n1)}

==============================================================================

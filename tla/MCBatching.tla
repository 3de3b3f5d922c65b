------------------------------ MODULE MCBatching ------------------------------
(***************************************************************************)
(* Two devices: d1 is connected and has a gap in the frame buffer, d2 is   *)
(* not and has nothing there.                                              *)
(***************************************************************************)
EXTENDS BatchDispatch, TLC

CONSTANTS d1, d2

MCDevices == {d1, d2}
MCLEDs    == (d1 :> 0 .. 3) @@ (d2 :> {1})
MCCached  == (d1 :> {0, 1, 3}) @@ (d2 :> {})
==============================================================================

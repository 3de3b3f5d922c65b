----------------------------- MODULE FrameDisplay -----------------------------
(***************************************************************************)
(* What the frame buffer promises the eyes: a key shows a color that was   *)
(* asked for that very key, newer ones replace older ones, and a board     *)
(* goes dark at most as a whole.  Colors are told apart by the number of   *)
(* the write that asked for them: asked[v] is the LED of the v-th write,   *)
(* hw[l] the write LED l shows, 0 for dark.                                *)
(***************************************************************************)
EXTENDS Naturals, Sequences

CONSTANT LED

VARIABLES asked, hw

Init == asked = <<>> /\ hw = [l \in LED |-> 0]

Ask == /\ \E l \in LED : asked' = Append(asked, l)
       /\ UNCHANGED hw

Show == /\ hw' \in [LED -> 0 .. Len(asked)]
        /\ \A l \in LED : \/ hw'[l] = hw[l]
                          \/ hw[l] < hw'[l] /\ asked[hw'[l]] = l
        /\ UNCHANGED asked

Dark == hw' = [l \in LED |-> 0] /\ UNCHANGED asked

Next == Ask \/ Show \/ Dark

Spec == Init /\ [][Next]_<<asked, hw>>
==============================================================================

--------------------------- MODULE MCEffectsEngine ----------------------------
(***************************************************************************)
(* Every set of two small definitions, checked as --check-config checks    *)
(* it, and the engine at work on one library.                              *)
(***************************************************************************)
EXTENDS EffectsEngine, TLC

CONSTANTS e1, e2, unknown, steady, k1, k2, A, B

Red  == <<1, 2>>
Blue == <<2, 2>>

(***************************************************************************)
(* The definitions to check.                                               *)
(***************************************************************************)
Stages ==
  {Solid(Red, 0), Solid(Red, 1), Blink(Blue, 2, 1, 3), Breathe(Blue, 3, 1, 2),
   Nested(e1, 0), Nested(e2, 0), Nested(e2, 1), Nested(unknown, 1), Malformed}

Definition == [stages : UNION {[1 .. k -> Stages] : k \in 0 .. 2}, final : {Black, Invalid}]

Checked == [{e1, e2} -> Definition]

(***************************************************************************)
(* The library at work: one effect that ends inside another that does, an  *)
(* open-ended one, and a state for a color and an effect each.             *)
(***************************************************************************)
Served ==
  (e1 :> [stages |-> <<Solid(Blue, 1), Nested(e2, 0)>>, final |-> Red])
    @@ (e2 :> [stages |-> <<Blink(Red, 2, 1, 2)>>, final |-> Blue])
    @@ (steady :> [stages |-> <<Breathe(Red, 3, 1, 0)>>, final |-> Invalid])

Templates == (A :> [kind |-> "color", color |-> Blue]) @@ (B :> [kind |-> "effect", ref |-> e1])

MCRequests ==
  {[kind |-> "color", color |-> Red, owner |-> A],
   [kind |-> "effect", ref |-> steady, owner |-> A],
   [kind |-> "state", ref |-> B, owner |-> A],
   [kind |-> "effect", ref |-> unknown, owner |-> A],
   [kind |-> "delete", owner |-> A]}

Init ==
  /\ InitEngine
  /\ \/ defs \in Checked /\ lib = Invalid   \* --check-config: the program ends
     \/ defs = Served /\ lib = Load(Served, Templates)

Spec == Init /\ [][Next]_vars /\ Fairness
==============================================================================

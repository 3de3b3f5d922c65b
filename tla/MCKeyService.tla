---------------------------- MODULE MCKeyService -----------------------------
(***************************************************************************)
(* A board of two pool keys and one key on row 0, and a dozen requests.    *)
(***************************************************************************)
EXTENDS KeyService, TLC

CONSTANTS n1, n2, A, B

\* Two handlers of the same code are interchangeable.
ClientSymmetry == Permutations(Clients)

MCNames == {n1, n2}
MCLED   == 0 .. 2

MCBoard == [count |-> 3, pos |-> (0 :> <<0, 0>> @@ 1 :> <<1, 0>> @@ 2 :> <<1, 1>>)]

LayoutOf(displace) ==
  [tabs |-> <<>>, pool |-> <<>>, defaultPool |-> TRUE, displace |-> displace]
MCLayouts  == {LayoutOf(TRUE), LayoutOf(FALSE)}
MCDisplace == {LayoutOf(TRUE)}

Color  == [effect |-> FALSE, final |-> TRUE]   \* a plain color, or a color state
Timer  == [effect |-> TRUE, final |-> FALSE]   \* an effect that ends dark
Breath == [effect |-> TRUE, final |-> TRUE]    \* an effect that ends on a color

Put(addr, paint, tag) == [op |-> "put", addr |-> addr, paint |-> paint, tag |-> tag]
Delete(addr, tag)     == [op |-> "delete", addr |-> addr, tag |-> tag]

MCRequests ==
  {Put(NameAddr(n1), Timer, A), Put(NameAddr(n1), Color, B),
   Put(NameAddr(n2), Breath, NoTag),
   Put(LedAddr(1), Timer, B), Put(LedAddr(1), Color, NoTag),
   Delete(NameAddr(n1), A), Delete(NameAddr(n1), NoTag),
   Delete(NameAddr(n2), B), Delete(LedAddr(1), A), Delete(LedAddr(2), NoTag)}

\* Fewer requests, for the run with two handlers at a time.
RaceRequests ==
  {Put(NameAddr(n1), Timer, A), Put(NameAddr(n2), Color, NoTag),
   Put(LedAddr(1), Color, B), Delete(NameAddr(n1), A)}

\* The same and an untagged clear, for one handler overlapping the sweep.
PairRequests ==
  {Put(NameAddr(n1), Timer, A), Put(NameAddr(n2), Color, NoTag),
   Put(LedAddr(1), Color, B),
   Delete(NameAddr(n1), A), Delete(LedAddr(1), NoTag)}
==============================================================================

----------------------------- MODULE MCDispatch -----------------------------
(***************************************************************************)
(* Instances of Dispatch for TLC.                                            *)
(***************************************************************************)
EXTENDS Dispatch, TLC

CONSTANTS e1, e2, map, compile, any

\* Two endpoints with one slot each, one of them for another role.
OneSlotEach == e1 :> 1 @@ e2 :> 1
MapAndCompile == e1 :> {map} @@ e2 :> {compile}

CallSymmetry == Permutations(Calls)
=============================================================================

----------------------------- MODULE InOrder -----------------------------
(***************************************************************************)
(* A loop over positions that keeps some of them: the positions kept, as   *)
(* the sequence in which the loop meets them.                              *)
(***************************************************************************)
EXTENDS Naturals, FiniteSets

(* The members of S up to i: the place of i among them. *)
UpTo(S, i) == {j \in S : j <= i}

(* A finite set of numbers, from its least to its greatest. *)
InOrder(S) == [k \in 1..Cardinality(S) |-> CHOOSE i \in S : Cardinality(UpTo(S, i)) = k]
=============================================================================

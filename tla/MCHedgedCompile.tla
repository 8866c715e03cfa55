-------------------------- MODULE MCHedgedCompile --------------------------
(***************************************************************************)
(* Instances of HedgedCompile for TLC.                                       *)
(***************************************************************************)
EXTENDS HedgedCompile

Compile(n, m, hedged, reports) ==
    [summaries |-> n, models |-> m, hedged |-> hedged, reports |-> reports]

\* Two concurrent batches and the final pass; a final pass alone, with reports.
Some == {Compile(4, 2, TRUE, 0), Compile(4, 1, FALSE, 0),
         Compile(2, 2, TRUE, 2), Compile(2, 3, TRUE, 1), Compile(2, 3, FALSE, 1)}
=============================================================================

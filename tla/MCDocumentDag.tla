---------------------------- MODULE MCDocumentDag ----------------------------
(* Two chunks, a summary of each by an overflow layer, one executive summary. *)
EXTENDS DocumentDag

MCDeps == [n \in {"r1", "r2", "e"} |->
              CASE n = "r1" -> {"c1"} [] n = "r2" -> {"c2"} [] OTHER -> {"r1", "r2"}]
MCDepth == [n \in {"r1", "r2", "e"} |-> IF n = "e" THEN 2 ELSE 1]
=============================================================================

--------------------------- MODULE MCResultsPage ---------------------------
(***************************************************************************)
(* Two jobs, two effects, two refreshes that may overlap, one reader of the  *)
(* store.  The budgets: a job that fails or is purged while answers are      *)
(* lost; one press of the refresh button with a lost answer or a reload, and *)
(* two presses; a reader of the store and a change of owner; a change of the *)
(* job while its request is out.                                             *)
(***************************************************************************)
EXTENDS ResultsPage

MCJobs == 1..2
MCEffects == 1..2
MCClicks == {8, 9}

Only(kinds) == [k \in Kinds |-> IF k \in kinds THEN 1 ELSE 0]
Happenings == {Only({"lost", "fail", "click"}), Only({"upload", "purge", "ask"}),
               Only({"ask", "reload", "click"}), Only({"ask", "owner", "lost"}),
               Only({"upload", "move"}), [Only({}) EXCEPT !["click"] = 2]}
=============================================================================

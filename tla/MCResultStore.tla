--------------------------- MODULE MCResultStore ---------------------------
(* Two attempts of a job in one process or in two, and a poll in one of them. *)
EXTENDS ResultStore

MCProcs == {"p", "q"}
InOne == [a \in Attempts |-> "p"]
InTwo == [a \in Attempts |-> IF a = 1 THEN "p" ELSE "q"]
PollInP == [r \in Polls |-> "p"]

\* A retry in the same process, or serializable transactions of two processes.
Sound == {[proc |-> InOne, atomic |-> FALSE], [proc |-> InTwo, atomic |-> TRUE]}
Some(pairs) == [f \in Fields |-> IF f \in DOMAIN pairs THEN pairs[f] ELSE 0]

Summary(len, operational, routing) ==
    Some([summary_ready |-> 1, phase |-> 2, final_summary |-> len, routing |-> routing,
          total_chunks |-> 1, operational |-> operational])
Report(baseline, modeled, saved, region) ==
    Some([baseline |-> baseline, modeled |-> modeled, saved |-> saved,
          region |-> region, total_chunks |-> 1])

\* A longer or a shorter summary; reports of two runs that routed differently.
TwoSummaries == {Summary(2, 1, 0), Summary(1, 2, 1)}
TwoReports == {Report(3, 1, 2, 1), Report(3, 2, 1, 2)}
=============================================================================

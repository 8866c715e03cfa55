----------------------------- MODULE MCJobQueue -----------------------------
(***************************************************************************)
(* Instances of JobQueue for TLC: the deployments the backend supports and  *)
(* the events each run allows.                                              *)
(***************************************************************************)
EXTENDS JobQueue, TLC

CONSTANTS w1, w2, web, alpha, beta

\* One API process `web`, and a worker in a process of its own.
Split  == w1 :> alpha
\* The same with two worker processes.
Pair   == w1 :> alpha @@ w2 :> beta

Once(S) == [k \in Kinds |-> IF k \in S THEN 1 ELSE 0]

PollOrCrash == {Once({"poll", "overlap"}), Once({"crash", "overlap"})}
\* Every event: alone, with a transaction that overlaps, or a poll that finds the job
\* stalled by an API process that has lost its cache.
Anything == {Once({k, "overlap"}) : k \in {"stall", "timeout", "slow"}}
                \cup {Once({k}) : k \in {"dbfail", "cancel", "purge"}}
                \cup {Once({"poll", "stall", "crash"})}
=============================================================================

---------------------------- MODULE MetricsStore ----------------------------
(***************************************************************************)
(* The store of finalized results a browser tab keeps                        *)
(* (lib/finalized-metrics-store.ts): one snapshot, a copy of it in the       *)
(* session storage, and the readers (dashboard, sidebar) that ask for the    *)
(* newest completed job through one shared request.  The answers come from   *)
(* GET /jobs and GET /job-result.                                            *)
(*                                                                           *)
(* A result is the job it is about and its revision: revision 1 is the stub  *)
(* of "Summary Ready", from Charted on it has what the dashboard shows       *)
(* (hasDashboardMetrics), from Ready on all its metrics                      *)
(* (isMetricsReadyFromResult).  A greater job is a newer one.  A tab has one *)
(* owner: when the owner changes the store is cleared.                       *)
(***************************************************************************)
EXTENDS Naturals, FiniteSets

CONSTANTS Jobs,     \* job ids, newer ones greater
          Readers,  \* callers of ensureFinalizedMetrics
          MaxRev,   \* the last revision of a result
          Budgets   \* what may happen in a run, and how often: a newer job that is uploaded,
                    \* an answer that is lost, a call of a reader, a change of owner, a job that fails, one that is
                    \* purged, a press of the refresh button, a change of the job, a reload

Kinds == {"upload", "lost", "ask", "owner", "fail", "purge", "click", "move", "reload"}

ASSUME StoreAssumption ==
    /\ Jobs \subseteq Nat \ {0} /\ IsFiniteSet(Jobs) /\ 1 \in Jobs
    /\ MaxRev \in Nat \ 0..2
    /\ Budgets \subseteq [Kinds -> Nat]

VARIABLES
    row,        \* row[j]: what /job-status says of job j
    blob,       \* blob[j]: the revision /job-result serves, 0 for none
    snapshot,   \* the module's snapshot: the label and the result
    session,    \* its copy in the session storage
    remembered, \* the last job id (lib/job-session.ts), 0 for none
    flight,     \* the reader whose request the others share
    reader,     \* reader[r]: where a call of ensureFinalizedMetrics is
    budget      \* what may still happen

storeVars == <<row, blob, snapshot, session, remembered, flight, reader, budget>>

Spend(kind) == budget[kind] > 0 /\ budget' = [budget EXCEPT ![kind] = @ - 1]

First == 1  \* the job that is there from the beginning
Charted == 2
Ready == 3
None  == [of |-> 0, rev |-> 0]
Result(j) == [of |-> j, rev |-> blob[j]]
HasDashboardMetrics(b) == b.rev >= Charted
HasMetrics(b) == b.rev >= Ready
NoSnap == [job |-> 0, blob |-> None]
Asleep == [pc |-> "idle", force |-> FALSE, cached |-> 0, job |-> 0,
            got |-> None, on |-> "none"]

-----------------------------------------------------------------------------
(* The API *)

\* A job is uploaded, goes on, fails, or is purged when a newer one replaces it.
RowGoes(j) ==
    /\ \E s \in {"running", "summary", "search", "failed", "gone"} :
          /\ \/ row[j] = "running" /\ s = "summary" /\ UNCHANGED budget
             \/ row[j] = "summary" /\ s = "search" /\ UNCHANGED budget
             \/ row[j] = "running" /\ s = "failed" /\ Spend("fail")
             \/ row[j] # "gone" /\ s = "gone" /\ Spend("purge")
             \/ row[j] = "gone" /\ s = "running" /\ j # First /\ Spend("upload")
          /\ row' = [row EXCEPT ![j] = s]
    /\ UNCHANGED <<blob, snapshot, session, remembered, flight, reader>>

\* The result is written behind the status, or ahead of it.
BlobGoes(j) ==
    /\ row[j] # "gone" /\ blob[j] < MaxRev
    /\ blob' = [blob EXCEPT ![j] = @ + 1]
    /\ UNCHANGED <<row, snapshot, session, remembered, flight, reader, budget>>

\* What GET /job-result finds; a result whose status lags heals the status.
Served(j) == row[j] # "gone" /\ blob[j] > 0
Heal(j) == row' = IF Served(j) /\ row[j] \in {"running", "failed"}
                  THEN [row EXCEPT ![j] = "summary"] ELSE row

\* GET /jobs lists the newest job only.  When that one is not complete, the remembered
\* job is taken, whatever older job is.
Complete == {"summary", "search"}
Latest ==
    LET listed == {j \in Jobs : row[j] # "gone" /\ \A i \in Jobs : i > j => row[i] = "gone"}
    IN  IF \E j \in listed : row[j] \in Complete THEN CHOOSE j \in listed : TRUE
        ELSE remembered

Lost == Spend("lost")

-----------------------------------------------------------------------------
(* publishFinalizedJobResult, peekFinalizedMetrics *)

Peek == IF snapshot # NoSnap THEN snapshot ELSE session

\* Of two results of one revision the later one by its date.
RicherByDate(new, old) == BOOLEAN
RicherThan(new, old) == IF new.rev = old.rev THEN BOOLEAN ELSE {new.rev > old.rev}

\* The session storage may refuse the copy.
Publish(j, b) ==
    \E richer \in RicherThan(b, Peek.blob), kept \in BOOLEAN :
        LET snap == [job |-> j, blob |-> b]
        IN  IF ~HasDashboardMetrics(b) \/ snap = Peek \/ (Peek.job = j /\ ~richer)
            THEN /\ snapshot' = Peek
                 /\ UNCHANGED <<session, remembered>>
            ELSE /\ snapshot' = snap
                 /\ session' = IF kept THEN snap ELSE session
                 /\ remembered' = j

Forget(j) == IF remembered = j THEN 0 ELSE remembered

\* An owner change or a logout.
Clear ==
    /\ Spend("owner")
    /\ snapshot' = NoSnap /\ session' = NoSnap /\ flight' = "none"
    /\ UNCHANGED <<row, blob, remembered, reader>>

-----------------------------------------------------------------------------
(* ensureFinalizedMetrics *)

ReaderGoes(r, to) == reader' = [reader EXCEPT ![r] = to]

\* A cached snapshot is enough, unless it is time to look for a newer job.
Ensure(r, force) ==
    /\ reader[r].pc = "idle" /\ Spend("ask")
    /\ snapshot' = Peek
    /\ \/ ~force /\ Peek # NoSnap /\ UNCHANGED reader
       \/ ~force /\ Peek # NoSnap
          /\ ReaderGoes(r, [Asleep EXCEPT !.pc = "probe", !.cached = Peek.job])
       \/ (force \/ Peek = NoSnap) /\ ReaderGoes(r, [Asleep EXCEPT !.pc = "share", !.force = force])
    /\ UNCHANGED <<row, blob, session, remembered, flight>>

\* GET /jobs answers, or the remembered job is taken.
Listed(j) == (UNCHANGED budget /\ j = Latest) \/ (Lost /\ j = remembered)

Probe(r) ==
    /\ reader[r].pc = "probe"
    /\ \E j \in Jobs \cup {0} :
          /\ Listed(j)
          /\ ReaderGoes(r, IF j \in {0, reader[r].cached} THEN Asleep
                           ELSE [reader[r] EXCEPT !.pc = "share"])
    /\ UNCHANGED <<row, blob, snapshot, session, remembered, flight>>

\* A call that is not forced shares the request that is out.
Share(r) ==
    /\ reader[r].pc = "share"
    /\ IF flight # "none" /\ ~reader[r].force
       THEN ReaderGoes(r, [reader[r] EXCEPT !.pc = "waits", !.on = flight]) /\ UNCHANGED flight
       ELSE ReaderGoes(r, [reader[r] EXCEPT !.pc = "list"]) /\ flight' = r
    /\ UNCHANGED <<row, blob, snapshot, session, remembered, budget>>

\* The call and those that share its request return; the single flight is over.
Returns(r) ==
    /\ reader' = [q \in Readers |-> IF q = r \/ reader[q].on = r THEN Asleep ELSE reader[q]]
    /\ flight' = "none"

Choose(r) ==
    /\ reader[r].pc = "list"
    /\ \E j \in Jobs \cup {0} :
          /\ Listed(j)
          /\ IF j = 0 \/ (~reader[r].force /\ Peek.job = j)
             THEN Returns(r)
             ELSE ReaderGoes(r, [reader[r] EXCEPT !.pc = "fetch", !.job = j]) /\ UNCHANGED flight
    /\ snapshot' = Peek
    /\ UNCHANGED <<row, blob, session, remembered>>

\* GET /job-result finds a result; its answer is on the way.
Fetch(r) ==
    LET j == reader[r].job
    IN  /\ reader[r].pc = "fetch" /\ Served(j) /\ Heal(j)
        /\ ReaderGoes(r, [reader[r] EXCEPT !.pc = "answer", !.got = Result(j)])
        /\ UNCHANGED <<blob, snapshot, session, remembered, flight, budget>>

\* The answer arrives and is published under the job asked for.
Fetched(r) ==
    /\ reader[r].pc = "answer"
    /\ Returns(r) /\ Publish(reader[r].job, reader[r].got)
    /\ UNCHANGED <<row, blob, budget>>

\* No result, or no answer.
NotFetched(r) ==
    LET j == reader[r].job
    IN  /\ reader[r].pc = "fetch"
        /\ Returns(r)
        /\ \/ row[j] = "gone" /\ remembered' = Forget(j) /\ UNCHANGED budget
           \/ row[j] # "gone" /\ blob[j] = 0 /\ UNCHANGED <<remembered, budget>>
           \/ Lost /\ UNCHANGED remembered
        /\ UNCHANGED <<row, blob, snapshot, session>>

-----------------------------------------------------------------------------

StoreInit ==
    /\ row = [j \in Jobs |-> IF j = First THEN "running" ELSE "gone"]
    /\ blob = [j \in Jobs |-> 0]
    /\ snapshot = NoSnap /\ session = NoSnap
    /\ remembered = 0 /\ flight = "none"
    /\ reader = [r \in Readers |-> Asleep]
    /\ budget \in Budgets

ReaderStep(r) ==
    Probe(r) \/ Share(r) \/ Choose(r) \/ Fetch(r) \/ Fetched(r) \/ NotFetched(r)
=============================================================================

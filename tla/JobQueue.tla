------------------------------ MODULE JobQueue ------------------------------
(***************************************************************************)
(* The durable job queue of the backend: the `jobs` table and its           *)
(* per-process caches (db/jobs.py), the worker loop that claims from it      *)
(* (worker/loop.py), the runner that supervises one pipeline run             *)
(* (worker/runner.py), the graph thread and the background thread that write *)
(* to it (core/orchestrator.py, core/background_services.py), and the API    *)
(* requests that poll, cancel and purge (api/main.py).                       *)
(*                                                                           *)
(* Atomicity.  upsert_job updates the process cache and then persists a      *)
(* snapshot of it: the cache update is one step of the calling thread, the   *)
(* commit of the snapshot another (Flush), and the write of the result, when *)
(* there is one, a third (StoreResult).  A handler that reads with get_job   *)
(* and decides on what it read does so in two steps.  Anything may happen in *)
(* between.                                                                  *)
(*                                                                           *)
(* Data.  Of a status record the model keeps the status, the attempt count,  *)
(* the claimant, the age of the heartbeat and whether progress/message say   *)
(* the job is finished; available_at is dropped (a backoff is only a delay), *)
(* and of the result only whether a durable one exists (see ResultStore).    *)
(***************************************************************************)
EXTENDS Naturals, FiniteSets

CONSTANTS
    Jobs,        \* job ids
    Workers,     \* worker ids (WORKER_ID is configured, so a restart keeps it)
    Procs,       \* operating-system processes, each with its own JOB_STATUSES
    ProcOf,      \* ProcOf[w] is the process that worker w runs in
    ApiProc,     \* the process that serves the HTTP API
    Graphs,      \* identities for pipeline threads: bounds the live ones
    Requests,    \* API request threads: bounds the concurrent requests
    MaxAttempts, \* settings.WORKER_MAX_ATTEMPTS
    Budgets,     \* each b: a history has at most b[k] events of kind k, for some b
    NoWorker,    \* claimed_by is NULL
    NoGraph,     \* the worker supervises no thread
    NoJob,       \* the worker has claimed nothing
    Unset        \* the key is absent from the dict

Kinds == {"stall", "timeout", "crash", "slow", "dbfail",
          "cancel", "purge", "poll", "overlap"}

ASSUME JobQueueAssumption ==
    /\ MaxAttempts \in Nat \ {0}
    /\ ProcOf \in [Workers -> Procs]
    /\ ApiProc \in Procs
    /\ Budgets \subseteq [Kinds -> Nat]
    /\ NoWorker \notin Workers
    /\ NoGraph \notin Graphs
    /\ NoJob \notin Jobs
    /\ Unset \notin Nat \cup Workers
                    \cup {NoWorker, "pending", "processing", "complete",
                          "error", "cancelled", "none", "fresh", "stale"}

VARIABLES
    row,       \* the jobs table; Blank where there is no row
    result,    \* the jobs whose row holds a result_json
    mem,       \* mem[p][j]: JOB_STATUSES of process p
    cancelReq, \* cancelReq[p]: _CANCEL_REQUESTS of process p
    io,        \* io[t]: the write thread t is in the middle of, or Idle
    seen,      \* seen[t]: what thread t's last get_job returned
    pc,        \* pc[w]: where the loop/runner thread of worker w is
    cur,       \* cur[w]: the job worker w has claimed
    gr,        \* gr[w]: the graph thread worker w is joining
    beating,   \* the workers whose heartbeat thread runs
    abandoned, \* the workers whose `abandoned` event is set
    graph,     \* graph[g]: the pipeline thread g
    bg,        \* bg[g]: where the background thread started by g is
    api,       \* api[r]: the API request r
    enqueued,  \* history: the jobs ever enqueued
    purged,    \* history: the jobs whose row was deleted
    happened   \* happened[k]: the events of kind k so far

table   == <<row, result>>
worker  == <<pc, cur, gr, beating, abandoned>>
history == <<enqueued, purged>>
vars    == <<row, result, mem, cancelReq, io, seen, pc, cur, gr, beating,
             abandoned, graph, bg, api, enqueued, purged, happened>>

-----------------------------------------------------------------------------
(* Status records *)

Done     == {"complete", "error", "cancelled"}
Active   == {"pending", "processing"}
Statuses == Active \cup Done

\* prog: 0 working; 1 the message says Summary Ready; 2 progress is 100.
Entry == [status   : Statuses \cup {Unset},
          attempts : Nat \cup {Unset},
          owner    : Workers \cup {NoWorker, Unset},
          hb       : {"none", "fresh", "stale", Unset},
          prog     : 0..2 \cup {Unset}]

\* The same with every column there: a row of the table.
Row == [status   : Statuses,
        attempts : Nat,
        owner    : Workers \cup {NoWorker},
        hb       : {"none", "fresh", "stale"},
        prog     : 0..2]

Blank  == [status |-> Unset, attempts |-> Unset, owner |-> Unset,
           hb |-> Unset, prog |-> Unset]
NewRow == [status |-> "pending", attempts |-> 0, owner |-> NoWorker,
           hb |-> "none", prog |-> 0]

Or(x, y) == IF x = Unset THEN y ELSE x

\* The keys of e, and those of d that e lacks: {**d, **e}.
Merge(e, d) == [status   |-> Or(e.status, d.status),
                attempts |-> Or(e.attempts, d.attempts),
                owner    |-> Or(e.owner, d.owner),
                hb       |-> Or(e.hb, d.hb),
                prog     |-> Or(e.prog, d.prog)]

\* _persist ignores a snapshot that would set a finished row back to processing.
NeverRefused(r, s) == FALSE
Refused(r, s) == r.status \in Done /\ s.status = "processing"

\* What _persist leaves in row r when it is handed the snapshot s.
Persist(r, s) ==
    LET base    == IF r = Blank THEN NewRow ELSE r
        new     == Merge(s, base)
        refused == Refused(base, s)
    IN  [new EXCEPT
           !.status = IF refused THEN base.status ELSE @,
           !.owner  = IF s.status \in Done THEN NoWorker ELSE @,
           !.hb     = IF s.status \in Done THEN "none" ELSE @,
           !.prog   = IF refused /\ base.prog = 1 /\ @ = 0 THEN 1 ELSE @]

\* The status cached as m is preferred to the one of row r, unless r is finished.
CacheWins(r, m) == r.status \notin Done /\ m.status \in Active

\* What get_job returns for a row r that exists and a cached entry m.
View(r, m) ==
    [r EXCEPT
       !.status = IF CacheWins(r, m) THEN m.status ELSE @,
       !.hb     = IF r.hb = "none" THEN Unset ELSE @,
       !.prog   = IF m.prog \in {1, 2} /\ m.prog > r.prog THEN m.prog ELSE @]

\* A requeue that preserves progress replaces the message.
KeptProg(x) == IF x = 2 THEN 2 ELSE 0

-----------------------------------------------------------------------------
(* Threads, their reads and their writes *)

Threads == ({"run", "hb"} \X Workers) \cup ({"graph", "bg"} \X Graphs)
             \cup ({"api"} \X Requests)

Run(w) == <<"run", w>>
Hb(w)  == <<"hb", w>>
Gt(g)  == <<"graph", g>>
Bt(g)  == <<"bg", g>>
Rt(r)  == <<"api", r>>

Idle    == [stage |-> "idle", job |-> NoJob, snap |-> Blank, base |-> Blank,
            withResult |-> FALSE]
Nothing == [found |-> FALSE, entry |-> Blank]
NoThread  == [pc |-> "idle", job |-> NoJob, worker |-> NoWorker]
NoRequest == [pc |-> "idle", job |-> NoJob]

GraphProc(g) == IF graph[g].worker = NoWorker THEN ApiProc
                ELSE ProcOf[graph[g].worker]

\* The process a thread runs in.
ProcOfThread(t) ==
    CASE t[1] \in {"run", "hb"}   -> ProcOf[t[2]]
      [] t[1] \in {"graph", "bg"} -> GraphProc(t[2])
      [] OTHER                    -> ApiProc

\* upsert_job(j, **f) by thread t of process p, whose cache is m beforehand.
UpsertOn(m, t, p, j, f, withResult) ==
    LET entry == Merge(f, m) IN
    /\ mem' = [mem EXCEPT ![p][j] = entry]
    /\ io'  = [io EXCEPT ![t] = [stage |-> "row", job |-> j, snap |-> entry,
                                 base |-> Blank, withResult |-> withResult]]

Upsert(t, p, j, f) == UpsertOn(mem[p][j], t, p, j, f, FALSE)

\* The database read of get_job(j): the cache is captured with it.
GetJob(t, p, j) ==
    seen' = [seen EXCEPT ![t] =
               IF row[j] = Blank
               THEN [found |-> FALSE, entry |-> mem[p][j]]
               ELSE [found |-> TRUE, entry |-> View(row[j], mem[p][j])]]

\* The end of get_job: the merged record replaces the cached one.
Returned(t, p, j) == IF seen[t].found THEN seen[t].entry ELSE mem[p][j]

\* What was read has been used.
Forget(t) == seen' = [seen EXCEPT ![t] = Nothing]

\* A get_job whose read and return are one step.
Current(p, j) == IF row[j] = Blank THEN mem[p][j] ELSE View(row[j], mem[p][j])
Reload(p, j)  == mem' = [mem EXCEPT ![p][j] = Current(p, j)]

CancelSeenLocally(p, j) == j \in cancelReq[p] \/ mem[p][j].status = "cancelled"
IsCancelRequested(p, j) ==
    \/ j \in cancelReq[p]
    \/ mem[p][j].status = "cancelled"
    \/ row[j].status = "cancelled"

\* One more event of kind k happens, if some budget allows it.
Spend(k) ==
    /\ happened' = [happened EXCEPT ![k] = @ + 1]
    /\ \E b \in Budgets : \A i \in Kinds : happened'[i] <= b[i]

Fields(status, owner, hb, prog) ==
    [Blank EXCEPT !.status = status, !.owner = owner, !.hb = hb, !.prog = prog]

-----------------------------------------------------------------------------
(* The database side of an upsert, and the write of the result *)

\* The row is dealt with: on to the result, if the upsert carries one.
Advance(t) ==
    io' = [io EXCEPT ![t] = IF ~@.withResult THEN Idle
                            ELSE [stage |-> "result", job |-> @.job, snap |-> Blank,
                                  base |-> Blank, withResult |-> TRUE]]

\* _persist reads the row and commits the snapshot, and nothing comes in between.
Flush(t) ==
    /\ io[t].stage = "row"
    /\ row' = [row EXCEPT ![io[t].job] = Persist(@, io[t].snap)]
    /\ Advance(t)
    /\ UNCHANGED <<result, mem, cancelReq, seen, worker, graph, bg, api, history, happened>>

\* Nothing in the isolation the engine asks for forbids a step in between: in a
\* transaction that overlaps another step the row is read ...
ReadRow(t) ==
    /\ io[t].stage = "row"
    /\ Spend("overlap")
    /\ io' = [io EXCEPT ![t] = [@ EXCEPT !.stage = "commit", !.base = row[io[t].job]]]
    /\ UNCHANGED <<table, mem, cancelReq, seen, worker, graph, bg, api, history>>

\* ... and the columns that differ from the row read are written.  A row that
\* appeared or went away in between fails the commit.
CommitRow(t) ==
    LET j    == io[t].job
        base == io[t].base
        new  == Persist(base, io[t].snap)
    IN  /\ io[t].stage = "commit"
        /\ row' = IF (base = Blank) # (row[j] = Blank) THEN row
                  ELSE [row EXCEPT ![j] = [c \in DOMAIN Blank |->
                          IF new[c] = base[c] /\ ~(c = "hb" /\ new.hb = "fresh")
                          THEN @[c] ELSE new[c]]]
        /\ Advance(t)
        /\ UNCHANGED <<result, mem, cancelReq, seen, worker, graph, bg, api, history, happened>>

\* The commit fails: upsert_job logs the error and goes on.
FlushLost(t) ==
    /\ io[t].stage = "row"
    /\ Spend("dbfail")
    /\ Advance(t)
    /\ UNCHANGED <<table, mem, cancelReq, seen, worker, graph, bg, api, history>>

\* update_result -> get_job, cas_persist_result: a missing row is created.
StoreResult(t) ==
    LET j == io[t].job
        p == ProcOfThread(t)
    IN  /\ io[t].stage = "result"
        /\ row' = [row EXCEPT ![j] = IF @ = Blank THEN NewRow ELSE @]
        /\ result' = result \cup {j}
        /\ mem' = [mem EXCEPT ![p][j] = IF row[j] = Blank THEN @ ELSE View(row[j], @)]
        /\ io' = [io EXCEPT ![t] = Idle]
        /\ UNCHANGED <<cancelReq, seen, worker, graph, bg, api, history, happened>>

\* Every compare-and-swap retry fails: upsert_job raises to its caller.
ResultLost(t) ==
    /\ io[t].stage = "result"
    /\ Spend("dbfail")
    /\ io' = [io EXCEPT ![t] = Idle]
    /\ pc' = IF t[1] = "run" THEN [pc EXCEPT ![t[2]] = "fail"] ELSE pc
    /\ graph' = IF t[1] = "graph" THEN [graph EXCEPT ![t[2]].pc = "failed"] ELSE graph
    /\ UNCHANGED <<table, mem, cancelReq, seen, cur, gr, beating, abandoned, bg, api, history>>

-----------------------------------------------------------------------------
(* The worker loop *)

\* Writes are quicker than the waits the code puts in their way, unless one is slow.
InTime(written) == IF written THEN UNCHANGED happened ELSE Spend("slow")

\* The WHERE clause of the claim.
AnyActive(r) == r.status \in Active
PendingInBudget(r) == r.status = "pending" /\ r.attempts < MaxAttempts
Claimable(r) == r.status = "pending"

\* The pending row goes to this worker in one transaction.  Every requeue sets
\* available_at, so a write to the job that is still in flight is a slow one.
ClaimNextJob(w) == \E j \in Jobs :
    LET new == [row[j] EXCEPT !.status = "processing", !.attempts = @ + 1,
                              !.owner = w, !.hb = "fresh", !.prog = KeptProg(@)]
    IN  /\ pc[w] = "poll"
        /\ io[Run(w)] = Idle
        /\ Claimable(row[j])
        /\ InTime(\A t \in Threads : io[t].job # j)
        /\ row' = [row EXCEPT ![j] = new]
        /\ mem' = [mem EXCEPT ![ProcOf[w]][j] = new]
        /\ pc' = [pc EXCEPT ![w] = "claimed"]
        /\ cur' = [cur EXCEPT ![w] = j]
        /\ UNCHANGED <<result, cancelReq, io, seen, gr, beating, abandoned, graph,
                       bg, api, enqueued, purged>>

\* A job whose worker has been silent for too long.
Stale(r) == r.status = "processing" /\ r.hb = "stale"

\* There are claims left: the job is requeued, not failed.
MayRetryAgain(attempts) == attempts <= MaxAttempts
MayRetry(attempts)      == attempts < MaxAttempts

\* A row whose claimant is given up on.
Requeued(r, status) == [r EXCEPT !.status = status, !.owner = NoWorker,
                                 !.hb = "none", !.prog = KeptProg(@)]

\* The rows in S leave processing and the cache of process p forgets them.
Recover(p, S, failed) ==
    /\ row' = [j \in Jobs |-> IF j \in S
                             THEN Requeued(row[j], IF j \in failed THEN "error" ELSE "pending")
                             ELSE row[j]]
    /\ mem' = [mem EXCEPT ![p] = [j \in Jobs |-> IF j \in S THEN Blank ELSE @[j]]]

ReclaimStaleJobs(w) ==
    LET S == {j \in Jobs : Stale(row[j])} IN
    /\ pc[w] = "poll"
    /\ io[Run(w)] = Idle
    /\ S # {}
    /\ Recover(ProcOf[w], S, {j \in S : ~MayRetry(row[j].attempts)})
    /\ UNCHANGED <<result, cancelReq, io, seen, worker, graph, bg, api, history, happened>>

\* Nothing to claim or to reclaim: the loop sleeps.
IdlePoll(w) ==
    /\ pc[w] = "poll"
    /\ \A j \in Jobs : ~Claimable(row[j]) /\ ~Stale(row[j])
    /\ UNCHANGED vars

\* The loop starts: claims this worker id left behind go back to the queue.
StartWorker(w) ==
    /\ pc[w] = "down"
    /\ Recover(ProcOf[w],
               {j \in Jobs : row[j].status = "processing" /\ row[j].owner = w}, {})
    /\ pc' = [pc EXCEPT ![w] = "poll"]
    /\ UNCHANGED <<result, cancelReq, io, seen, cur, gr, beating, abandoned, graph,
                   bg, api, history, happened>>

\* A shutdown request raced the claim: the claim is given back.
ReleaseOnShutdown(w) ==
    /\ pc[w] = "claimed"
    /\ io[Run(w)] = Idle
    /\ Spend("crash")
    /\ Upsert(Run(w), ProcOf[w], cur[w], Fields("pending", NoWorker, "none", 0))
    /\ pc' = [pc EXCEPT ![w] = "exiting"]
    /\ UNCHANGED <<table, cancelReq, seen, cur, gr, beating, abandoned, graph, bg,
                   api, history>>

\* Process p ends: its threads, its cache and its writes in flight are gone.
Halt(p) ==
    LET here(t) == ProcOfThread(t) = p
        down    == {w \in Workers : ProcOf[w] = p}
    IN  /\ mem' = [mem EXCEPT ![p] = [j \in Jobs |-> Blank]]
        /\ cancelReq' = [cancelReq EXCEPT ![p] = {}]
        /\ io' = [t \in Threads |-> IF here(t) THEN Idle ELSE io[t]]
        /\ seen' = [t \in Threads |-> IF here(t) THEN Nothing ELSE seen[t]]
        /\ pc' = [w \in Workers |-> IF w \in down THEN "down" ELSE pc[w]]
        /\ cur' = [w \in Workers |-> IF w \in down THEN NoJob ELSE cur[w]]
        /\ gr' = [w \in Workers |-> IF w \in down THEN NoGraph ELSE gr[w]]
        /\ beating' = beating \ down
        /\ abandoned' = abandoned \ down
        /\ graph' = [g \in Graphs |-> IF GraphProc(g) = p THEN NoThread ELSE graph[g]]
        /\ bg' = [g \in Graphs |-> IF GraphProc(g) = p THEN "off" ELSE bg[g]]
        /\ api' = IF p = ApiProc THEN [r \in Requests |-> NoRequest] ELSE api
        /\ UNCHANGED <<table, history>>

ExitProcess(w) ==
    /\ pc[w] = "exiting"
    /\ io[Run(w)] = Idle
    /\ Halt(ProcOf[w])
    /\ UNCHANGED happened

Crash(p) == Spend("crash") /\ Halt(p)

-----------------------------------------------------------------------------
(* The runner: process_claimed_job *)

Goto(w, label) == pc' = [pc EXCEPT ![w] = label]

\* The runner of w returns to the poll loop.
Return(w) ==
    /\ Goto(w, "poll")
    /\ cur' = [cur EXCEPT ![w] = NoJob]
    /\ gr' = [gr EXCEPT ![w] = NoGraph]
    /\ beating' = beating \ {w}
    /\ abandoned' = abandoned \ {w}

At(w, label) == pc[w] = label /\ io[Run(w)] = Idle

BeginProcessing(w) ==
    /\ At(w, "claimed")
    /\ Upsert(Run(w), ProcOf[w], cur[w], Fields("processing", w, "fresh", 0))
    /\ Goto(w, "begun")
    /\ UNCHANGED <<table, cancelReq, seen, cur, gr, beating, abandoned, graph, bg,
                   api, history, happened>>

\* touch_job_heartbeat by thread t of worker w: a terminal cache entry is left alone.
TouchHeartbeat(t, w) ==
    LET m == mem[ProcOf[w]][cur[w]] IN
    IF m.status \in Done THEN UNCHANGED <<mem, io>>
    ELSE Upsert(t, ProcOf[w], cur[w], Fields(Unset, w, "fresh", Unset))

FirstHeartbeat(w) ==
    /\ At(w, "begun")
    /\ TouchHeartbeat(Run(w), w)
    /\ Goto(w, "download")
    /\ UNCHANGED <<table, cancelReq, seen, cur, gr, beating, abandoned, graph, bg,
                   api, history, happened>>

\* No storage key, or the download fails.
StorageFails(w) ==
    /\ At(w, "claimed") \/ At(w, "download")
    /\ Goto(w, "fail")
    /\ UNCHANGED <<table, mem, cancelReq, io, seen, cur, gr, beating, abandoned,
                   graph, bg, api, history, happened>>

\* set_progress by thread t: a missing cache entry counts as processing.
SetProgress(t, p, j, prog) ==
    LET m == mem[p][j] IN
    IF m.status \in Done THEN UNCHANGED <<mem, io>>
    ELSE Upsert(t, p, j, Fields(Or(m.status, "processing"), Unset, Unset, prog))

Downloaded(w) ==
    /\ At(w, "download")
    /\ SetProgress(Run(w), ProcOf[w], cur[w], 0)
    /\ Goto(w, "launch")
    /\ UNCHANGED <<table, cancelReq, seen, cur, gr, beating, abandoned, graph, bg,
                   api, history, happened>>

\* The heartbeat thread and the graph thread start.
LaunchGraph(w) == \E g \in Graphs :
    /\ At(w, "launch")
    /\ graph[g] = NoThread
    /\ io[Hb(w)] = Idle
    /\ graph' = [graph EXCEPT ![g] = [pc |-> "begin", job |-> cur[w], worker |-> w]]
    /\ gr' = [gr EXCEPT ![w] = g]
    /\ beating' = beating \cup {w}
    /\ Goto(w, "join")
    /\ UNCHANGED <<table, mem, cancelReq, io, seen, cur, abandoned, bg, api, history, happened>>

\* One turn of the heartbeat thread, the last one if stop_hb is set meanwhile.
Beat(w) ==
    /\ w \in beating
    /\ io[Hb(w)] = Idle
    /\ IF IsCancelRequested(ProcOf[w], cur[w])
       THEN /\ abandoned' = abandoned \cup {w}
            /\ beating' = beating \ {w}
            /\ UNCHANGED <<mem, io>>
       ELSE /\ TouchHeartbeat(Hb(w), w)
            /\ beating' = IF pc[w] = "finished" THEN beating \ {w} ELSE beating
            /\ UNCHANGED abandoned
    /\ UNCHANGED <<table, cancelReq, seen, pc, cur, gr, graph, bg, api, history, happened>>

Alive(g) == graph[g].pc \notin {"idle", "done", "failed"}

\* JOB_MAX_RUNTIME_SEC is over while the graph still runs: the thread lives on.
RuntimeExceeded(w) ==
    /\ At(w, "join")
    /\ Alive(gr[w])
    /\ Spend("timeout")
    /\ gr' = [gr EXCEPT ![w] = NoGraph]
    /\ beating' = beating \ {w}
    /\ abandoned' = abandoned \cup {w}
    /\ Goto(w, "fail")
    /\ UNCHANGED <<table, mem, cancelReq, io, seen, cur, graph, bg, api, history>>

Cancelled(w) == w \in abandoned \/ IsCancelRequested(ProcOf[w], cur[w])

Unflag(w) == cancelReq' = [cancelReq EXCEPT ![ProcOf[w]] = @ \ {cur[w]}]

\* A cancellation ends the wait; the graph thread is left running.
JoinCancelled(w) ==
    /\ At(w, "join")
    /\ Cancelled(w)
    /\ Unflag(w)
    /\ GetJob(Run(w), ProcOf[w], cur[w])
    /\ gr' = [gr EXCEPT ![w] = NoGraph]
    /\ Goto(w, "cancelling")
    /\ UNCHANGED <<table, mem, io, cur, beating, abandoned, graph, bg, api, history, happened>>

WriteCancelled(w) ==
    LET p == ProcOf[w]
        e == Returned(Run(w), p, cur[w])
    IN  /\ At(w, "cancelling")
        /\ IF e.status = "cancelled"
           THEN mem' = [mem EXCEPT ![p][cur[w]] = e] /\ UNCHANGED io
           ELSE UpsertOn(e, Run(w), p, cur[w],
                         Fields("cancelled", NoWorker, "none", Unset), FALSE)
        /\ Return(w)
        /\ Forget(Run(w))
        /\ UNCHANGED <<table, cancelReq, graph, bg, api, history, happened>>

\* The graph raised.
JoinFailed(w) ==
    /\ At(w, "join")
    /\ graph[gr[w]].pc = "failed"
    /\ ~Cancelled(w)
    /\ gr' = [gr EXCEPT ![w] = NoGraph]
    /\ beating' = beating \ {w}
    /\ Goto(w, "fail")
    /\ UNCHANGED <<table, mem, cancelReq, io, seen, cur, abandoned, graph, bg, api, history, happened>>

\* The graph returned its final state.
JoinDone(w) ==
    /\ At(w, "join")
    /\ graph[gr[w]].pc = "done"
    /\ ~Cancelled(w)
    /\ gr' = [gr EXCEPT ![w] = NoGraph]
    /\ Goto(w, "finished")
    /\ UNCHANGED <<table, mem, cancelReq, io, seen, cur, beating, abandoned, graph,
                   bg, api, history, happened>>

\* stop_hb, and a join of two seconds for a heartbeat that is being written.
HeartbeatStopped(w) == InTime(io[Hb(w)] = Idle)

\* Abandonment and cancellation are checked again.
FinishCancelled(w) ==
    /\ At(w, "finished")
    /\ HeartbeatStopped(w)
    /\ IsCancelRequested(ProcOf[w], cur[w])
    /\ Unflag(w)
    /\ Return(w)
    /\ UNCHANGED <<table, mem, io, seen, graph, bg, api, history>>

FinishAbandoned(w) ==
    /\ At(w, "finished")
    /\ HeartbeatStopped(w)
    /\ w \in abandoned
    /\ ~IsCancelRequested(ProcOf[w], cur[w])
    /\ Reload(ProcOf[w], cur[w])
    /\ beating' = beating \ {w}
    /\ Goto(w, "fail")
    /\ UNCHANGED <<table, cancelReq, io, seen, cur, gr, abandoned, graph, bg,
                   api, history>>

FinishChecked(w) ==
    /\ At(w, "finished")
    /\ HeartbeatStopped(w)
    /\ ~Cancelled(w)
    /\ Reload(ProcOf[w], cur[w])
    /\ beating' = beating \ {w}
    /\ Goto(w, "publish")
    /\ UNCHANGED <<table, cancelReq, io, seen, cur, gr, abandoned, graph, bg,
                   api, history>>

\* get_job, then complete with the result; one delivered already is kept, and
\* so are its message and progress.
PublishResult(w) ==
    LET p == ProcOf[w]
        e == Current(p, cur[w])
        prog == IF cur[w] \in result /\ e.prog # 2 THEN 1 ELSE 2
    IN
    /\ At(w, "publish")
    /\ UpsertOn(e, Run(w), p, cur[w], Fields("complete", NoWorker, "none", prog), TRUE)
    /\ Goto(w, "published")
    /\ UNCHANGED <<table, cancelReq, seen, cur, gr, beating, abandoned, graph, bg,
                   api, history, happened>>

Published(w) ==
    /\ At(w, "published")
    /\ Return(w)
    /\ UNCHANGED <<table, mem, cancelReq, io, seen, graph, bg, api, history, happened>>

\* fail_or_retry_job: the read, then the write.
FailRead(w) ==
    /\ At(w, "fail")
    /\ HeartbeatStopped(w)
    /\ GetJob(Run(w), ProcOf[w], cur[w])
    /\ Goto(w, "failing")
    /\ UNCHANGED <<table, mem, cancelReq, io, cur, gr, beating, abandoned, graph, bg,
                   api, history>>

FailOrRetry(w) ==
    LET p == ProcOf[w]
        e == Returned(Run(w), p, cur[w])
    IN  /\ At(w, "failing")
        /\ IF e.status = "cancelled"
           THEN /\ mem' = [mem EXCEPT ![p][cur[w]] = e]
                /\ Unflag(w)
                /\ UNCHANGED io
           ELSE /\ UpsertOn(e, Run(w), p, cur[w],
                            IF MayRetry(Or(e.attempts, 0))
                            THEN Fields("pending", NoWorker, "none", 0)
                            ELSE Fields("error", NoWorker, "none", 2), FALSE)
                /\ UNCHANGED cancelReq
        /\ Return(w)
        /\ Forget(Run(w))
        /\ UNCHANGED <<table, graph, bg, api, history, happened>>

-----------------------------------------------------------------------------
(* The graph thread: agentic_graph.invoke *)

GraphAt(g, label) == graph[g].pc = label /\ io[Gt(g)] = Idle
GraphGoto(g, label) == graph' = [graph EXCEPT ![g].pc = label]

StartJob(g) ==
    /\ GraphAt(g, "begin")
    /\ Upsert(Gt(g), GraphProc(g), graph[g].job, Fields("processing", Unset, Unset, 0))
    /\ GraphGoto(g, "work")
    /\ UNCHANGED <<table, cancelReq, seen, worker, bg, api, history, happened>>

\* A progress report of the pipeline; the throttle may keep it in the cache.
ProgressTick(g) ==
    LET p == GraphProc(g)
        j == graph[g].job
        m == mem[p][j]
    IN  /\ GraphAt(g, "work")
        /\ m.status \notin Done
        /\ \/ SetProgress(Gt(g), p, j, 0)
           \/ /\ mem' = [mem EXCEPT ![p][j] = [m EXCEPT !.status = Or(@, "processing"), !.prog = 0]]
              /\ UNCHANGED io
        /\ UNCHANGED <<table, cancelReq, seen, worker, graph, bg, api, history, happened>>

GraphFails(g) ==
    /\ GraphAt(g, "work")
    /\ GraphGoto(g, "failed")
    /\ UNCHANGED <<table, mem, cancelReq, io, seen, worker, bg, api, history, happened>>

\* deliver_summary: the "Summary Ready" progress line ...
SummaryReady(g) ==
    /\ GraphAt(g, "work")
    /\ SetProgress(Gt(g), GraphProc(g), graph[g].job, 1)
    /\ GraphGoto(g, "deliver")
    /\ UNCHANGED <<table, cancelReq, seen, worker, bg, api, history, happened>>

\* ... the complete status and the result ...
DeliverSummary(g) ==
    LET p == GraphProc(g)
        j == graph[g].job
    IN  /\ GraphAt(g, "deliver")
        /\ UpsertOn(mem[p][j], Gt(g), p, j, Fields("complete", Unset, Unset, 1), TRUE)
        /\ GraphGoto(g, "enqueue")
        /\ UNCHANGED <<table, cancelReq, seen, worker, bg, api, history, happened>>

\* ... and the background services, unless this process already runs them for the job.
EnqueuePostSummary(g) ==
    LET running == \E h \in Graphs : /\ bg[h] # "off"
                                     /\ graph[h].job = graph[g].job
                                     /\ GraphProc(h) = GraphProc(g)
    IN  /\ GraphAt(g, "enqueue")
        /\ bg' = IF running THEN bg ELSE [bg EXCEPT ![g] = "index"]
        /\ GraphGoto(g, "done")
        /\ UNCHANGED <<table, mem, cancelReq, io, seen, worker, api, history, happened>>

\* A thread that ended and that nobody joins; its identity may be used again.
ReapGraph(g) ==
    /\ graph[g].pc \in {"done", "failed"}
    /\ \A w \in Workers : gr[w] # g
    /\ bg[g] = "off"
    /\ io[Bt(g)] = Idle
    /\ graph' = [graph EXCEPT ![g] = NoThread]
    /\ seen' = [seen EXCEPT ![Bt(g)] = Nothing]
    /\ UNCHANGED <<table, mem, cancelReq, io, worker, bg, api, history, happened>>

-----------------------------------------------------------------------------
(* The background services of a delivered job: _run_post_summary *)

BgAt(g, label) == bg[g] = label /\ io[Bt(g)] = Idle
BgGoto(g, label) == bg' = [bg EXCEPT ![g] = label]

\* _set_bg: whatever status the cache holds is persisted again.
SetBg(g, from, floor, to) ==
    LET p == GraphProc(g)
        j == graph[g].job
        old == Or(mem[p][j].prog, 0)
    IN  /\ BgAt(g, from)
        /\ Upsert(Bt(g), p, j, Fields(Unset, Unset, Unset, IF old > floor THEN old ELSE floor))
        /\ BgGoto(g, to)
        /\ UNCHANGED <<table, cancelReq, seen, worker, graph, api, history, happened>>

\* finalize_metrics: reads the status, then writes complete over a terminal one.
FinalizeRead(g) ==
    /\ BgAt(g, "finalize")
    /\ GetJob(Bt(g), GraphProc(g), graph[g].job)
    /\ BgGoto(g, "finalizing")
    /\ UNCHANGED <<table, mem, cancelReq, io, worker, graph, api, history, happened>>

FinalizeMetrics(g) ==
    LET p == GraphProc(g)
        j == graph[g].job
        e == Returned(Bt(g), p, j)
        status == IF e.status \in Done THEN "complete" ELSE "processing"
    IN  /\ BgAt(g, "finalizing")
        /\ UpsertOn(e, Bt(g), p, j, Fields(status, Unset, Unset, 2), FALSE)
        /\ BgGoto(g, "patch")
        /\ Forget(Bt(g))
        /\ UNCHANGED <<table, cancelReq, worker, graph, api, history, happened>>

\* finalize_metrics raised before its write: the patch is skipped.
FinalizeFails(g) ==
    /\ BgAt(g, "finalizing")
    /\ BgGoto(g, "wrapup")
    /\ Forget(Bt(g))
    /\ UNCHANGED <<table, mem, cancelReq, io, worker, graph, api, history, happened>>

\* _patch_result_carbon
PatchResultCarbon(g) ==
    LET p == GraphProc(g)
        j == graph[g].job
    IN  /\ BgAt(g, "patch")
        /\ UpsertOn(Current(p, j), Bt(g), p, j, Fields("complete", Unset, Unset, 2), TRUE)
        /\ BgGoto(g, "wrapup")
        /\ UNCHANGED <<table, cancelReq, seen, worker, graph, api, history, happened>>

Background(g) ==
    \/ SetBg(g, "index", 1, "carbon")
    \/ SetBg(g, "carbon", 1, "finalize")
    \/ FinalizeRead(g)
    \/ FinalizeMetrics(g)
    \/ FinalizeFails(g)
    \/ PatchResultCarbon(g)
    \/ SetBg(g, "wrapup", 2, "off")

-----------------------------------------------------------------------------
(* API requests *)

ApiAt(r, label) == api[r].pc = label /\ io[Rt(r)] = Idle
ApiGoto(r, label) == api' = [api EXCEPT ![r] =
                        IF label = "idle" THEN NoRequest ELSE [@ EXCEPT !.pc = label]]
ApiJob(r) == api[r].job
ApiEntry(r) == Returned(Rt(r), ApiProc, api[r].job)

\* The status record of the API process, replaced by what get_job returned.
Refresh(r) == mem' = [mem EXCEPT ![ApiProc][ApiJob(r)] = ApiEntry(r)]

ApiUpsert(r, f) == UpsertOn(ApiEntry(r), Rt(r), ApiProc, ApiJob(r), f, FALSE)

EnqueueJob(r, j) ==
    /\ ApiAt(r, "idle")
    /\ j \notin enqueued
    /\ Upsert(Rt(r), ApiProc, j, NewRow)
    /\ enqueued' = enqueued \cup {j}
    /\ UNCHANGED <<table, cancelReq, seen, worker, graph, bg, api, purged, happened>>

\* A request on job j starts with get_job(j).
Request(r, j, kind, label) ==
    /\ ApiAt(r, "idle")
    /\ row[j] # Blank
    /\ Spend(kind)
    /\ GetJob(Rt(r), ApiProc, j)
    /\ api' = [api EXCEPT ![r] = [pc |-> label, job |-> j]]
    /\ UNCHANGED <<table, mem, cancelReq, io, worker, graph, bg, history>>

\* Another get_job in the course of a request.
Reread(r, from, to) ==
    /\ ApiAt(r, from)
    /\ GetJob(Rt(r), ApiProc, ApiJob(r))
    /\ ApiGoto(r, to)
    /\ UNCHANGED <<table, mem, cancelReq, io, worker, graph, bg, history, happened>>

\* The poll claims completion while the status lags behind.
NeedsHeal(e) == e.status \in Active /\ Or(e.prog, 0) > 0

\* GET /job-status: stall detection, then healing.
PollDecide(r) ==
    LET e == ApiEntry(r) IN
    /\ ApiAt(r, "poll")
    /\ Refresh(r)
    /\ ApiGoto(r, IF Stale(e) THEN "stalled" ELSE IF NeedsHeal(e) THEN "heal" ELSE "idle")
    /\ Forget(Rt(r))
    /\ UNCHANGED <<table, cancelReq, io, worker, graph, bg, history, happened>>

\* requeue_stalled_job, after its own get_job.
RequeueStalled(r) ==
    LET e == ApiEntry(r)
        kept == KeptProg(Or(e.prog, 0))
    IN  /\ ApiAt(r, "requeue")
        /\ IF e.status # "processing"
           THEN /\ Refresh(r)
                /\ UNCHANGED io
                /\ ApiGoto(r, IF NeedsHeal(e) THEN "heal" ELSE "idle")
           ELSE IF ~MayRetry(Or(e.attempts, 0))
           THEN /\ ApiUpsert(r, Fields("error", NoWorker, "none", kept))
                /\ ApiGoto(r, "idle")
           ELSE /\ ApiUpsert(r, Fields("pending", NoWorker, "none", kept))
                /\ ApiGoto(r, IF kept = 2 THEN "heal" ELSE "idle")
        /\ Forget(Rt(r))
        /\ UNCHANGED <<table, cancelReq, worker, graph, bg, history, happened>>

\* The full read of the healing path; with a result there, the write and a last read.
HealUnchecked(r) == Reread(r, "heal", "healing")
HealRead(r) == Reread(r, "heal", IF ApiJob(r) \in result THEN "healing" ELSE "settle")

Heal(r) ==
    \/ /\ ApiAt(r, "healing")
       /\ ApiUpsert(r, Fields("complete", NoWorker, "none", 2))
       /\ ApiGoto(r, "confirm")
       /\ Forget(Rt(r))
       /\ UNCHANGED <<table, cancelReq, worker, graph, bg, history, happened>>
    \/ /\ ApiAt(r, "settle")
       /\ Refresh(r)
       /\ ApiGoto(r, "idle")
       /\ Forget(Rt(r))
       /\ UNCHANGED <<table, cancelReq, io, worker, graph, bg, history, happened>>

\* cancel_job: an active job is flagged in this process and cancelled.
CancelActive(r) ==
    IF ApiEntry(r).status \in Active
    THEN /\ cancelReq' = [cancelReq EXCEPT ![ApiProc] = @ \cup {ApiJob(r)}]
         /\ ApiUpsert(r, Fields("cancelled", NoWorker, "none", Unset))
    ELSE Refresh(r) /\ UNCHANGED <<cancelReq, io>>

CancelJob(r) ==
    /\ ApiAt(r, "cancel")
    /\ CancelActive(r)
    /\ ApiGoto(r, "idle")
    /\ Forget(Rt(r))
    /\ UNCHANGED <<table, worker, graph, bg, history, happened>>

\* purge_job_completely: cancel if active, then delete the row.
PurgeCancel(r) ==
    /\ ApiAt(r, "purge")
    /\ CancelActive(r)
    /\ ApiGoto(r, "erase")
    /\ Forget(Rt(r))
    /\ UNCHANGED <<table, worker, graph, bg, history, happened>>

DeleteRecord(r) ==
    LET j == ApiJob(r) IN
    /\ ApiAt(r, "erase")
    /\ mem' = [mem EXCEPT ![ApiProc][j] = Blank]
    /\ cancelReq' = [cancelReq EXCEPT ![ApiProc] = @ \ {j}]
    /\ row' = [row EXCEPT ![j] = Blank]
    /\ result' = result \ {j}
    /\ purged' = purged \cup {j}
    /\ ApiGoto(r, "idle")
    /\ UNCHANGED <<io, seen, worker, graph, bg, enqueued, happened>>

Api(r) ==
    \/ \E j \in Jobs : \/ EnqueueJob(r, j)
                       \/ Request(r, j, "poll", "poll")
                       \/ Request(r, j, "cancel", "cancel")
                       \/ Request(r, j, "purge", "purge")
    \/ PollDecide(r)
    \/ Reread(r, "stalled", "requeue")
    \/ RequeueStalled(r)
    \/ HealRead(r)
    \/ Heal(r)
    \/ Reread(r, "confirm", "settle")
    \/ CancelJob(r)
    \/ PurgeCancel(r)
    \/ DeleteRecord(r)

-----------------------------------------------------------------------------
(* Time *)

\* A silent stall window: every heartbeat written so far is now stale.
Age(e) == IF e.hb = "fresh" THEN [e EXCEPT !.hb = "stale"] ELSE e

Attended(j) == \E w \in Workers : cur[w] = j

\* Of a job that some worker is at, it takes a hang of that worker.
StallWindow(j) ==
    /\ row[j].status = "processing"
    /\ row[j].hb # "stale"
    /\ IF Attended(j) THEN Spend("stall") ELSE UNCHANGED happened
    /\ row' = [row EXCEPT ![j].hb = "stale"]
    /\ mem' = [p \in Procs |-> [mem[p] EXCEPT ![j] = Age(@)]]
    /\ io' = [t \in Threads |-> IF io[t].job = j THEN [io[t] EXCEPT !.snap = Age(@), !.base = Age(@)] ELSE io[t]]
    /\ seen' = [t \in Threads |-> [seen[t] EXCEPT !.entry = Age(@)]]
    /\ UNCHANGED <<result, cancelReq, worker, graph, bg, api, history>>

-----------------------------------------------------------------------------

Init ==
    /\ row = [j \in Jobs |-> Blank]
    /\ result = {}
    /\ mem = [p \in Procs |-> [j \in Jobs |-> Blank]]
    /\ cancelReq = [p \in Procs |-> {}]
    /\ io = [t \in Threads |-> Idle]
    /\ seen = [t \in Threads |-> Nothing]
    /\ pc = [w \in Workers |-> "down"]
    /\ cur = [w \in Workers |-> NoJob]
    /\ gr = [w \in Workers |-> NoGraph]
    /\ beating = {}
    /\ abandoned = {}
    /\ graph = [g \in Graphs |-> NoThread]
    /\ bg = [g \in Graphs |-> "off"]
    /\ api = [r \in Requests |-> NoRequest]
    /\ enqueued = {}
    /\ purged = {}
    /\ happened = [k \in Kinds |-> 0]

Loop(w) ==
    \/ StartWorker(w) \/ ClaimNextJob(w) \/ ReclaimStaleJobs(w) \/ IdlePoll(w)
    \/ ReleaseOnShutdown(w) \/ ExitProcess(w)

Runner(w) ==
    \/ BeginProcessing(w) \/ FirstHeartbeat(w) \/ StorageFails(w) \/ Downloaded(w)
    \/ LaunchGraph(w) \/ RuntimeExceeded(w) \/ JoinCancelled(w) \/ WriteCancelled(w)
    \/ JoinFailed(w) \/ JoinDone(w) \/ FinishCancelled(w) \/ FinishAbandoned(w)
    \/ FinishChecked(w) \/ PublishResult(w) \/ Published(w) \/ FailRead(w)
    \/ FailOrRetry(w)

Graph(g) ==
    \/ StartJob(g) \/ ProgressTick(g) \/ GraphFails(g) \/ SummaryReady(g)
    \/ DeliverSummary(g) \/ EnqueuePostSummary(g) \/ ReapGraph(g)

Write(t) == Flush(t) \/ ReadRow(t) \/ CommitRow(t) \/ FlushLost(t) \/ StoreResult(t) \/ ResultLost(t)

Next ==
    \/ \E t \in Threads : Write(t)
    \/ \E w \in Workers : Loop(w) \/ Runner(w) \/ Beat(w)
    \/ \E g \in Graphs : Graph(g) \/ Background(g)
    \/ \E r \in Requests : Api(r)
    \/ \E p \in Procs : Crash(p)
    \/ \E j \in Jobs : StallWindow(j)

Spec == Init /\ [][Next]_vars

-----------------------------------------------------------------------------
(* Properties *)

Stages  == {"idle", "row", "commit", "result"}
RunPcs  == {"down", "poll", "claimed", "begun", "download", "launch", "join",
            "cancelling", "finished", "publish", "published", "fail", "failing", "exiting"}
GraphPcs == {"idle", "begin", "work", "deliver", "enqueue", "done", "failed"}
BgPcs   == {"off", "index", "carbon", "finalize", "finalizing", "patch", "wrapup"}
ApiPcs  == {"idle", "poll", "stalled", "requeue", "heal", "healing", "confirm", "settle",
            "cancel", "purge", "erase"}

RowOK == row \in [Jobs -> Row \cup {Blank}]

MemOK == mem \in [Procs -> [Jobs -> Entry]]

InFlight == [stage : Stages, job : Jobs \cup {NoJob}, snap : Entry,
             base : Row \cup {Blank}, withResult : BOOLEAN]

IoOK ==
    /\ io \in [Threads -> InFlight]
    /\ \A t \in Threads : io[t].stage # "idle" => io[t].job \in Jobs

SeenOK == seen \in [Threads -> [found : BOOLEAN, entry : Entry]]

WorkerOK ==
    /\ pc \in [Workers -> RunPcs]
    /\ cur \in [Workers -> Jobs \cup {NoJob}]
    /\ gr \in [Workers -> Graphs \cup {NoGraph}]
    /\ beating \subseteq Workers
    /\ abandoned \subseteq Workers
    /\ \A w \in Workers :
          /\ pc[w] \notin {"down", "poll"} \/ w \in beating => cur[w] \in Jobs
          /\ pc[w] = "join" => gr[w] \in Graphs

PipelineOK ==
    /\ graph \in [Graphs -> [pc : GraphPcs, job : Jobs \cup {NoJob},
                             worker : Workers \cup {NoWorker}]]
    /\ bg \in [Graphs -> BgPcs]
    /\ \A g \in Graphs : graph[g].pc # "idle" \/ bg[g] # "off" => graph[g].job \in Jobs

ApiOK ==
    /\ api \in [Requests -> [pc : ApiPcs, job : Jobs \cup {NoJob}]]
    /\ \A r \in Requests : api[r].pc # "idle" => api[r].job \in Jobs

RestOK ==
    /\ result \subseteq Jobs
    /\ cancelReq \in [Procs -> SUBSET Jobs]
    /\ enqueued \subseteq Jobs
    /\ purged \subseteq Jobs
    /\ happened \in [Kinds -> Nat]

\* A thread that stores a result waits for it.
Awaited ==
    /\ \A t \in Threads : io[t].stage = "result" => io[t].withResult
    /\ \A w \in Workers : io[Run(w)].withResult => pc[w] = "published"
    /\ \A g \in Graphs : io[Gt(g)].withResult => graph[g].pc = "enqueue"

\* Every variable holds a value of its kind: a row has all of its columns,
\* whoever is at work (a runner, a heartbeat, a pipeline, a request, a write) is
\* at work on a job, and a result is stored from the step that waits for it.
TypeOK == /\ RowOK /\ MemOK /\ IoOK /\ SeenOK /\ WorkerOK
          /\ PipelineOK /\ ApiOK /\ RestOK /\ Awaited

\* The terminal guard of _persist: as long as no transaction overlaps, a heartbeat or
\* progress write never reopens a finished row, whichever thread, worker or process
\* hands in the snapshot and however late.
NoDirectReopen ==
    [][happened["overlap"] = 0 =>
         \A j \in Jobs : row[j].status \in Done => row'[j].status # "processing"]_vars

\* No worker is embedded in the API process.
Apart == \A w \in Workers : ProcOf[w] # ApiProc

\* Counts of a history that is polled, or in which processes die, and whose transactions
\* overlap, but in which nothing hangs, gets lost or is taken back.
Calm(counts) ==
    /\ \A k \in {"stall", "timeout", "slow", "dbfail", "cancel", "purge"} : counts[k] = 0
    /\ counts["poll"] = 0 \/ counts["crash"] = 0

Undisturbed == \A b \in Budgets : Calm(b)

\* As long as the workers run outside the API process and the history is calm (no run
\* reached the runtime limit, no heartbeat stalled, no commit failed, nothing was
\* cancelled or purged, and no poll met a crash), a finished row stays finished: neither a
\* late upsert, nor fail_or_retry_job, nor a recovery, nor a heal puts it back to work.
\* (Past its limit a pipeline may complete the job before fail_or_retry_job, which only
\* looks for cancelled, sets it to pending, jobs.py:855.)
DoneIsFinal ==
    [][Apart /\ Calm(happened') =>
         \A j \in Jobs : row[j].status \in Done => row'[j].status \in Done \cup {Unset}]_vars

\* With retries switched off (WORKER_MAX_ATTEMPTS = 1) and one worker outside the API
\* process, a finished row stays finished through runtime limits, stalls, crashes, slow
\* and failed writes and polls too, until the job is cancelled or purged: no error path
\* finds a claim left to give back, and no late snapshot still says pending.
FinalWithoutRetries ==
    [][/\ MaxAttempts = 1
       /\ Apart /\ Cardinality(Workers) = 1
       /\ happened'["cancel"] = 0 /\ happened'["purge"] = 0
       => \A j \in Jobs : row[j].status \in Done => row'[j].status \in Done \cup {Unset}]_vars

\* claim_next_job gives a row to one worker at a time: no two runners are at work
\* on the same job (one that shuts down no longer runs its job).
SingleRunner ==
    \A v, w \in {u \in Workers : cur[u] # NoJob /\ pc[u] # "exiting"} :
        cur[v] = cur[w] => v = w

\* A result that is promised is there, or the thread that promised it (deliver_summary,
\* the runner, the patch) is about to store it.
Backed(j) == j \in result \/ \E t \in Threads : io[t].job = j /\ io[t].withResult

\* Nothing has torn a status and its result apart: no process died between the two
\* writes, neither write was lost, and no result was deleted.
Undamaged == \A k \in {"crash", "dbfail", "purge"} : happened[k] = 0

\* A row that says complete has its result_json, or is about to have it, through every
\* retry, hang, timeout, cancellation, heal and overlapping transaction: a client that
\* is told the job is complete does not wait for a result that nobody writes.
CompleteBacked == Undamaged => \A j \in Jobs : row[j].status = "complete" => Backed(j)

\* What the code's scheduling gives: a thread that can step does, a write that was
\* started ends, an idle worker that keeps finding pending jobs claims one of them,
\* a request that was started is answered, and an unattended heartbeat ages.
Fairness ==
    /\ \A t \in Threads : WF_vars(Flush(t) \/ ReadRow(t) \/ CommitRow(t) \/ StoreResult(t))
    /\ \A w \in Workers : WF_vars(StartWorker(w)) /\ WF_vars(Runner(w)) /\ WF_vars(Beat(w))
                         /\ SF_vars(ClaimNextJob(w)) /\ WF_vars(ReclaimStaleJobs(w))
                         /\ WF_vars(ExitProcess(w))
    /\ \A j \in Jobs : WF_vars(StallWindow(j) /\ ~Attended(j))
    /\ \A g \in Graphs : /\ WF_vars(StartJob(g) \/ DeliverSummary(g) \/ EnqueuePostSummary(g))
                         /\ WF_vars(ReapGraph(g)) /\ WF_vars(Background(g))
    /\ \A r \in Requests : WF_vars(api[r].pc # "idle" /\ Api(r))

\* The graph ends, by an error or a summary (a hang is the "timeout" event).
PipelineReturns == \A g \in Graphs : SF_vars(GraphFails(g) \/ SummaryReady(g))

FairSpec == Spec /\ Fairness

\* enqueue_job is answered: if the pipelines return, then whatever crashes, stalls,
\* overlaps, fails or is polled, cancelled or purged, an enqueued job ends finished or
\* deleted and stays so.
Settles == PipelineReturns =>
    \A j \in Jobs : j \in enqueued ~> [](row[j].status \in Done \cup {Unset})

\* The runner polls for cancellation while it joins the pipeline: a cancelled job
\* frees its worker even when the pipeline never returns.  (A purge takes the row and
\* its cancelled status away before the runner may have looked.)
CancelFreesWorker == \A w \in Workers, j \in Jobs :
    cur[w] = j /\ row[j].status = "cancelled" ~> cur[w] # j \/ j \in purged
=============================================================================

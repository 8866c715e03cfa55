---------------------------- MODULE CapacityPool ----------------------------
(***************************************************************************)
(* run_capacity_pool (core/execution_scheduler.py): the pull-based scheduler *)
(* of the map, compile and repair stages.  Worker threads pull tasks from a  *)
(* queue, run each within the semaphore of the endpoint capacity and under a *)
(* hard wall, and requeue or settle it; the calling thread polls the         *)
(* progress counters and ends the wave.                                      *)
(*                                                                           *)
(* The queue is a set: all tasks of a wave have one priority, and the model  *)
(* lets a worker pull any of them.  What the worker function does is one of  *)
(* five outcomes; Dispatch lets a call to the endpoint pool decide.          *)
(*                                                                           *)
(* A worker that finds the semaphore empty for its whole wait requeues or    *)
(* fails the task.  NeverWaits shows that no worker ever finds it empty, so  *)
(* that branch is unreachable and is not an action.                          *)
(***************************************************************************)
EXTENDS Naturals, FiniteSets

CONSTANTS
    Tasks,       \* the items of the wave
    Threads,     \* its worker threads
    Capacity,    \* the permits of capacity_sem
    MaxAttempts, \* max_attempts
    MaxRequeues, \* max(max_attempts, NIM_RATE_LIMIT_MAX_REQUEUES)
    WallReached, \* the safety wall may be reached
    NoItem       \* the thread holds no task

ASSUME CapacityPoolAssumption ==
    /\ IsFiniteSet(Tasks) /\ IsFiniteSet(Threads)
    /\ Capacity \in Nat
    /\ Cardinality(Threads) <= Capacity
    /\ Cardinality(Threads) <= Cardinality(Tasks)
    /\ MaxAttempts \in Nat \ {0}
    /\ MaxRequeues \in Nat
    /\ MaxRequeues >= MaxAttempts
    /\ WallReached \in BOOLEAN
    /\ NoItem \notin [task : Tasks, attempt : Nat]

VARIABLES
    queue,    \* the work items in the priority queue
    at,       \* at[w]: where worker thread w is
    item,     \* item[w]: the work item it holds
    outcome,  \* outcome[w]: how its invocation ended
    permits,  \* the free permits of capacity_sem
    progress, \* the counters of TaskProgress
    results,  \* results[t]: "none", or how task t was settled
    main,     \* where the calling thread is
    stop,     \* the stop event
    closed,   \* the queue is closed
    walled    \* history: the safety wall was hit

poolVars == <<queue, at, item, outcome, permits, progress, results, main, stop,
              closed, walled>>

\* ok: a result that is_success accepts; empty: one it refuses, or an error;
\* deadline: an error or a result that speaks of a deadline; limited: a
\* rate-limit error; hung: the hard wall, the invocation lives on.
Outcomes == {"ok", "empty", "deadline", "limited", "hung"}

Items == [task : Tasks, attempt : 0..MaxRequeues - 1]

\* The work item of the next attempt.
SameAttempt(i) == i
Again(i) == [i EXCEPT !.attempt = @ + 1]

Less(n) == IF n > 0 THEN n - 1 ELSE 0

-----------------------------------------------------------------------------
(* The worker threads *)

Goes(w, to) == at' = [at EXCEPT ![w] = to]

\* `while not stop.is_set()`
CheckStop(w) ==
    /\ at[w] = "check"
    /\ Goes(w, IF stop THEN "gone" ELSE "get")
    /\ UNCHANGED <<queue, item, outcome, permits, progress, results, main, stop, closed, walled>>

Pull(w) == \E i \in queue :
    /\ at[w] = "get"
    /\ queue' = queue \ {i}
    /\ item' = [item EXCEPT ![w] = i]
    /\ Goes(w, "pulled")
    /\ UNCHANGED <<outcome, permits, progress, results, main, stop, closed, walled>>

\* The wait for an item times out, or the queue is closed.
PullNothing(w) ==
    /\ at[w] = "get"
    /\ queue = {}
    /\ Goes(w, "empty")
    /\ UNCHANGED <<queue, item, outcome, permits, progress, results, main, stop, closed, walled>>

LeaveIfDrained(w) ==
    /\ at[w] = "empty"
    /\ Goes(w, IF progress.queued = 0 /\ progress.running = 0 THEN "gone" ELSE "check")
    /\ UNCHANGED <<queue, item, outcome, permits, progress, results, main, stop, closed, walled>>

\* The item is counted as running.
NotQueued(p) == [p EXCEPT !.queued = Less(@)]

Assign(w) ==
    /\ at[w] = "pulled"
    /\ progress' = [NotQueued(progress) EXCEPT !.running = @ + 1]
    /\ Goes(w, "permit")
    /\ UNCHANGED <<queue, item, outcome, permits, results, main, stop, closed, walled>>

\* A permit, and the invocation of the worker function in a thread of its own.
PermitKept == permits
PermitTaken == permits - 1

Invoke(w) ==
    /\ at[w] = "permit"
    /\ permits > 0
    /\ permits' = PermitTaken
    /\ Goes(w, "invoke")
    /\ UNCHANGED <<queue, item, outcome, progress, results, main, stop, closed, walled>>

\* The invocation ends or is given up on, and the permit goes back.
PermitBack(o) == permits + 1

InvokeEnds(w, o) ==
    /\ at[w] = "invoke"
    /\ permits' = PermitBack(o)
    /\ outcome' = [outcome EXCEPT ![w] = o]
    /\ Goes(w, "handle")
    /\ UNCHANGED <<queue, item, progress, results, main, stop, closed, walled>>

\* queue.put: raises when the queue is closed, which ends the thread.
PutNothing(i) == queue
Put(i) == queue \cup {Again(i)}

Requeue(w) ==
    /\ queue' = IF closed THEN queue ELSE Put(item[w])
    /\ item' = [item EXCEPT ![w] = NoItem]
    /\ Goes(w, IF closed THEN "gone" ELSE "check")

MayRequeue(i, o) == o = "limited" /\ i.attempt + 1 < MaxRequeues
MayRetry(i, o)   == o \notin {"ok", "limited", "deadline"} /\ i.attempt + 1 < MaxAttempts

NotRunning(p) == [p EXCEPT !.running = Less(@)]

\* _handle_result, under the lock.  A rate-limited task first sleeps.
HandleOk(w) ==
    /\ at[w] = "handle"
    /\ outcome[w] = "ok"
    /\ progress' = [NotRunning(progress) EXCEPT !.completed = @ + 1]
    /\ results' = [results EXCEPT ![item[w].task] = "ok"]
    /\ item' = [item EXCEPT ![w] = NoItem]
    /\ Goes(w, "check")
    /\ UNCHANGED <<queue, outcome, permits, main, stop, closed, walled>>

HandleLimited(w) ==
    /\ at[w] = "handle"
    /\ MayRequeue(item[w], outcome[w])
    /\ progress' = NotRunning(progress)
    /\ Goes(w, "backoff")
    /\ UNCHANGED <<queue, item, outcome, permits, results, main, stop, closed, walled>>

HandleRetry(w) ==
    /\ at[w] = "handle"
    /\ MayRetry(item[w], outcome[w])
    /\ progress' = [NotRunning(progress) EXCEPT !.queued = @ + 1]
    /\ Requeue(w)
    /\ UNCHANGED <<outcome, permits, results, main, stop, closed, walled>>

HandleFailed(w) ==
    /\ at[w] = "handle"
    /\ outcome[w] # "ok"
    /\ ~MayRequeue(item[w], outcome[w])
    /\ ~MayRetry(item[w], outcome[w])
    /\ progress' = [NotRunning(progress) EXCEPT !.failed = @ + 1]
    /\ results' = [results EXCEPT ![item[w].task] = "failed"]
    /\ item' = [item EXCEPT ![w] = NoItem]
    /\ Goes(w, "check")
    /\ UNCHANGED <<queue, outcome, permits, main, stop, closed, walled>>

BackoffEnds(w) ==
    /\ at[w] = "backoff"
    /\ progress' = [progress EXCEPT !.queued = @ + 1]
    /\ Requeue(w)
    /\ UNCHANGED <<outcome, permits, results, main, stop, closed, walled>>

-----------------------------------------------------------------------------
(* The calling thread *)

Settled == {t \in Tasks : results[t] # "none"}

\* Everything is counted.
NothingInFlight ==
    /\ main = "poll"
    /\ progress.queued = 0
    /\ progress.running = 0
    /\ main' = "stop"
    /\ UNCHANGED <<queue, at, item, outcome, permits, progress, results, stop, closed, walled>>
WaveDone ==
    /\ main = "poll"
    /\ progress.completed + progress.failed >= Cardinality(Tasks)
    /\ progress.queued = 0
    /\ progress.running = 0
    /\ main' = "stop"
    /\ UNCHANGED <<queue, at, item, outcome, permits, progress, results, stop, closed, walled>>

WallHit ==
    /\ WallReached
    /\ main = "poll"
    /\ main' = "stop"
    /\ walled' = TRUE
    /\ UNCHANGED <<queue, at, item, outcome, permits, progress, results, stop, closed>>

StopWorkers ==
    /\ main = "stop"
    /\ stop' = TRUE
    /\ main' = "close"
    /\ UNCHANGED <<queue, at, item, outcome, permits, progress, results, closed, walled>>

CloseQueue ==
    /\ main = "close"
    /\ closed' = TRUE
    /\ main' = "join"
    /\ UNCHANGED <<queue, at, item, outcome, permits, progress, results, stop, walled>>

\* Each worker is joined for two seconds at most, ended or not.
Return ==
    /\ main = "join"
    /\ main' = "returned"
    /\ UNCHANGED <<queue, at, item, outcome, permits, progress, results, stop, closed, walled>>

-----------------------------------------------------------------------------

PoolInit ==
    /\ queue = [task : Tasks, attempt : {0}]
    /\ at = [w \in Threads |-> "check"]
    /\ item = [w \in Threads |-> NoItem]
    /\ outcome = [w \in Threads |-> "ok"]
    /\ permits = Capacity
    /\ progress = [queued |-> Cardinality(Tasks), running |-> 0, completed |-> 0, failed |-> 0]
    /\ results = [t \in Tasks |-> "none"]
    /\ main = "poll"
    /\ stop = FALSE
    /\ closed = FALSE
    /\ walled = FALSE

\* What a worker does by itself; Invoke and InvokeEnds involve the call it makes.
WorkerStep(w) ==
    \/ CheckStop(w) \/ Pull(w) \/ PullNothing(w) \/ LeaveIfDrained(w) \/ Assign(w)
    \/ HandleOk(w) \/ HandleLimited(w) \/ HandleRetry(w) \/ HandleFailed(w) \/ BackoffEnds(w)

MainStep == WaveDone \/ WallHit \/ StopWorkers \/ CloseQueue \/ Return

PoolNext ==
    \/ \E w \in Threads : \/ WorkerStep(w)
                          \/ Invoke(w)
                          \/ \E o \in Outcomes : InvokeEnds(w, o)
    \/ MainStep

PoolSpec == PoolInit /\ [][PoolNext]_poolVars

\* The threads run, the hard wall ends the wait for any invocation, sleeps end.
PoolFairness ==
    /\ \A w \in Threads : /\ WF_poolVars(WorkerStep(w) \/ Invoke(w))
                          /\ WF_poolVars(\E o \in Outcomes : InvokeEnds(w, o))
    /\ WF_poolVars(WaveDone \/ StopWorkers \/ CloseQueue \/ Return)

FairPoolSpec == PoolSpec /\ PoolFairness

-----------------------------------------------------------------------------
(* Properties *)

Places == {"check", "get", "empty", "pulled", "permit", "invoke", "handle", "backoff", "gone"}
Holding == {"pulled", "permit", "invoke", "handle", "backoff"}

Holders == {w \in Threads : at[w] \in Holding}
Waiting(t) == \E i \in queue : i.task = t
Held(t) == \E w \in Holders : item[w].task = t

\* Every variable holds a value of its kind, and a worker between the pull and
\* the end of _handle_result holds a work item.
PoolTypeOK ==
    /\ queue \subseteq Items
    /\ at \in [Threads -> Places]
    /\ item \in [Threads -> Items \cup {NoItem}]
    /\ \A w \in Threads : at[w] \in Holding => item[w] \in Items
    /\ \A w \in Threads : at[w] = "backoff" => item[w].attempt + 1 < MaxRequeues
    /\ outcome \in [Threads -> Outcomes]
    /\ permits \in Nat
    /\ progress \in [queued : Nat, running : Nat, completed : Nat, failed : Nat]
    /\ results \in [Tasks -> {"none", "ok", "failed"}]
    /\ main \in {"poll", "stop", "close", "join", "returned"}
    /\ stop \in BOOLEAN /\ closed \in BOOLEAN /\ walled \in BOOLEAN

\* A task is in one place only: no retry, requeue or late result makes two work
\* items of it, and a settled task is neither queued nor held.
OnePlace ==
    /\ \A i, j \in queue : i.task = j.task => i = j
    /\ \A v, w \in Holders : item[v].task = item[w].task => v = w
    /\ \A t \in Tasks : ~(Waiting(t) /\ Held(t))
    /\ \A t \in Settled : ~Waiting(t) /\ ~Held(t)

\* Until the queue is closed no task is lost: it is settled, queued or held, also
\* while its worker sleeps for a rate limit and counts it nowhere.
NoneLost == ~closed => \A t \in Tasks : t \in Settled \/ Waiting(t) \/ Held(t)

\* The semaphore never makes a worker wait: its permits come back on every path,
\* also from an invocation that hung.
NeverWaits == \A w \in Threads : at[w] = "permit" => permits > 0

\* The counters that the caller and the idle workers act on tell the truth at
\* every moment the lock is free.
CountersExact ==
    /\ progress.running = Cardinality({w \in Threads : at[w] \in {"permit", "invoke", "handle"}})
    /\ ~closed => progress.queued = Cardinality(queue) + Cardinality({w \in Threads : at[w] = "pulled"})
    /\ progress.completed = Cardinality({t \in Tasks : results[t] = "ok"})
    /\ progress.failed = Cardinality({t \in Tasks : results[t] = "failed"})

\* run_capacity_pool returns a result for every task, unless the wall cut it short.
ReturnsAll == main = "returned" /\ ~walled => Settled = Tasks

\* The wave ends by itself, without the safety wall: although idle workers leave
\* while a rate-limited task sleeps, and whatever becomes of the invocations.
WaveReturns == <>(main = "returned")

\* A result that was handed in is not replaced by a later attempt's.
SettledOnce == [][\A t \in Settled : results'[t] = results[t]]_poolVars
=============================================================================

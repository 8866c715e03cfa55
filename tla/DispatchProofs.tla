--------------------------- MODULE DispatchProofs ---------------------------
(***************************************************************************)
(* Proofs about the dispatch of work, for any tasks, threads, capacity,      *)
(* endpoints, slots, calls and chain of models: the scheduler by itself      *)
(* (CapacityPool), the pool of endpoints by itself (EndpointPool), and both  *)
(* together (Dispatch), which implements each of them, so that what is       *)
(* proved of each holds of the composition.                                  *)
(***************************************************************************)
EXTENDS Dispatch, FiniteSetTheorems, TLAPS

-----------------------------------------------------------------------------
(* THE SCHEDULER *)

\* The next attempt of a work item is a work item for the same task.
LEMMA AgainItem ==
    ASSUME NEW i \in Items, i.attempt + 1 < MaxRequeues
    PROVE  Again(i) \in Items /\ Again(i).task = i.task
BY CapacityPoolAssumption, SMT DEF Items, Again

Counters == [queued : Nat, running : Nat, completed : Nat, failed : Nat]

\* One task less is running; the counters of a result count it.
LEMMA CountersStep ==
    ASSUME NEW p \in Counters
    PROVE  /\ [NotQueued(p) EXCEPT !.running = @ + 1] \in Counters
           /\ NotRunning(p) \in Counters
           /\ [NotRunning(p) EXCEPT !.queued = @ + 1] \in Counters
           /\ [NotRunning(p) EXCEPT !.completed = @ + 1] \in Counters
           /\ [NotRunning(p) EXCEPT !.failed = @ + 1] \in Counters
<1>1. Less(p.running) \in Nat /\ Less(p.queued) \in Nat
      BY SMT DEF Less, Counters
<1>2. \A q \in Counters : /\ [q EXCEPT !.queued = @ + 1] \in Counters
                          /\ [q EXCEPT !.running = @ + 1] \in Counters
                          /\ [q EXCEPT !.completed = @ + 1] \in Counters
                          /\ [q EXCEPT !.failed = @ + 1] \in Counters
      BY SMT DEF Counters
<1>3. NotRunning(p) \in Counters /\ NotQueued(p) \in Counters
      BY <1>1, SMT DEF NotRunning, NotQueued, Counters
<1> QED BY <1>2, <1>3

-----------------------------------------------------------------------------
(* Types *)

LEMMA InitialTypes == PoolInit => PoolTypeOK
<1> SUFFICES ASSUME PoolInit PROVE PoolTypeOK
    OBVIOUS
<1> USE CapacityPoolAssumption DEF PoolInit
<1>1. queue \subseteq Items
      BY DEF Items
<1>2. /\ at \in [Threads -> Places]
      /\ item \in [Threads -> Items \cup {NoItem}]
      /\ outcome \in [Threads -> Outcomes]
      /\ results \in [Tasks -> {"none", "ok", "failed"}]
      BY DEF Places, Outcomes
<1>3. \A w \in Threads : at[w] \notin Holding
      BY DEF Holding
<1>4. progress \in Counters
      BY FS_CardinalityType DEF Counters
<1> QED BY <1>1, <1>2, <1>3, <1>4 DEF PoolTypeOK, Holding, Counters

\* Every step keeps the variables of their kinds.
LEMMA TypesStep == PoolTypeOK /\ [PoolNext]_poolVars => PoolTypeOK'
<1> SUFFICES ASSUME PoolTypeOK, [PoolNext]_poolVars PROVE PoolTypeOK'
    OBVIOUS
<1> USE CapacityPoolAssumption
<1>1. ASSUME NEW w \in Threads, CheckStop(w) PROVE PoolTypeOK'
      BY <1>1 DEF PoolTypeOK, CheckStop, Goes, Places, Holding
<1>2. ASSUME NEW w \in Threads, Pull(w) PROVE PoolTypeOK'
      BY <1>2 DEF PoolTypeOK, Pull, Goes, Places, Holding
<1>3. ASSUME NEW w \in Threads, PullNothing(w) PROVE PoolTypeOK'
      BY <1>3 DEF PoolTypeOK, PullNothing, Goes, Places, Holding
<1>4. ASSUME NEW w \in Threads, LeaveIfDrained(w) PROVE PoolTypeOK'
      BY <1>4 DEF PoolTypeOK, LeaveIfDrained, Goes, Places, Holding
<1>5. ASSUME NEW w \in Threads, Assign(w) PROVE PoolTypeOK'
  <2>1. progress' \in Counters
        BY <1>5, CountersStep DEF PoolTypeOK, Assign, Counters
  <2> QED BY <1>5, <2>1 DEF PoolTypeOK, Assign, Goes, Places, Holding, Counters
<1>6. ASSUME NEW w \in Threads, Invoke(w) PROVE PoolTypeOK'
      BY <1>6 DEF PoolTypeOK, Invoke, PermitTaken, Goes, Places, Holding
<1>7. ASSUME NEW w \in Threads, NEW o \in Outcomes, InvokeEnds(w, o) PROVE PoolTypeOK'
      BY <1>7 DEF PoolTypeOK, InvokeEnds, PermitBack, Goes, Places, Holding
<1>8. ASSUME NEW w \in Threads, HandleOk(w) PROVE PoolTypeOK'
  <2>1. item[w].task \in Tasks
        BY <1>8 DEF PoolTypeOK, HandleOk, Holding, Items
  <2>2. progress' \in Counters
        BY <1>8, CountersStep DEF PoolTypeOK, HandleOk, Counters
  <2> QED BY <1>8, <2>1, <2>2 DEF PoolTypeOK, HandleOk, Goes, Places, Holding, Counters
<1>9. ASSUME NEW w \in Threads, HandleLimited(w) PROVE PoolTypeOK'
  <2>1. progress' \in Counters
        BY <1>9, CountersStep DEF PoolTypeOK, HandleLimited, Counters
  <2> QED BY <1>9, <2>1 DEF PoolTypeOK, HandleLimited, MayRequeue, Goes, Places, Holding, Counters
<1>10. ASSUME NEW w \in Threads, queue' = (IF closed THEN queue ELSE Put(item[w])),
              item[w] \in Items, item[w].attempt + 1 < MaxRequeues
       PROVE  queue' \subseteq Items
       BY <1>10, AgainItem DEF PoolTypeOK, Put
<1>11. ASSUME NEW w \in Threads, HandleRetry(w) PROVE PoolTypeOK'
  <2>1. item[w] \in Items /\ item[w].attempt + 1 < MaxRequeues
        BY <1>11, SMT DEF PoolTypeOK, HandleRetry, MayRetry, Holding, Items
  <2>2. queue' \subseteq Items
        BY <1>10, <1>11, <2>1 DEF HandleRetry, Requeue
  <2>3. progress' \in Counters
        BY <1>11, CountersStep DEF PoolTypeOK, HandleRetry, Counters
  <2> QED BY <1>11, <2>2, <2>3 DEF PoolTypeOK, HandleRetry, Requeue, Goes, Places, Holding, Counters
<1>12. ASSUME NEW w \in Threads, HandleFailed(w) PROVE PoolTypeOK'
  <2>1. item[w].task \in Tasks
        BY <1>12 DEF PoolTypeOK, HandleFailed, Holding, Items
  <2>2. progress' \in Counters
        BY <1>12, CountersStep DEF PoolTypeOK, HandleFailed, Counters
  <2> QED BY <1>12, <2>1, <2>2 DEF PoolTypeOK, HandleFailed, Goes, Places, Holding, Counters
<1>13. ASSUME NEW w \in Threads, BackoffEnds(w) PROVE PoolTypeOK'
  <2>1. item[w] \in Items /\ item[w].attempt + 1 < MaxRequeues
        BY <1>13 DEF PoolTypeOK, BackoffEnds, Holding
  <2>2. queue' \subseteq Items
        BY <1>10, <1>13, <2>1 DEF BackoffEnds, Requeue
  <2> QED BY <1>13, <2>2 DEF PoolTypeOK, BackoffEnds, Requeue, Goes, Places, Holding
<1>14. ASSUME MainStep PROVE PoolTypeOK'
       BY <1>14 DEF PoolTypeOK, MainStep, WaveDone, WallHit, StopWorkers, CloseQueue, Return
<1>15. CASE UNCHANGED poolVars
       BY <1>15 DEF PoolTypeOK, poolVars
<1> QED BY <1>1, <1>2, <1>3, <1>4, <1>5, <1>6, <1>7, <1>8, <1>9, <1>11, <1>12, <1>13, <1>14,
           <1>15 DEF PoolNext, WorkerStep

\* Every variable of the scheduler always holds a value of its kind, and a worker
\* between the pull and the end of _handle_result holds a work item whose next
\* attempt, if it sleeps for a rate limit, is within the requeue budget.
THEOREM PoolTypeCorrect == PoolSpec => []PoolTypeOK
<1>1. PoolTypeOK /\ [PoolNext]_poolVars => PoolTypeOK'
      BY TypesStep
<1> QED BY InitialTypes, <1>1, PTL DEF PoolSpec

-----------------------------------------------------------------------------
(* Where a task is *)

\* The work item of a holder is one of a task.
LEMMA HeldTask ==
    ASSUME PoolTypeOK, NEW w \in Holders
    PROVE  item[w] \in Items /\ item[w].task \in Tasks
BY DEF PoolTypeOK, Holders, Items

\* A step that leaves the queue, the items, the results and who holds an item
\* alone leaves every task where it is.
LEMMA SamePlaces ==
    ASSUME queue' = queue, results' = results, item' = item, Holders' = Holders
    PROVE  (OnePlace => OnePlace') /\ (\A t \in Tasks : Held(t)' = Held(t) /\ Waiting(t)' = Waiting(t))
BY DEF OnePlace, Waiting, Held, Settled

\* A worker that settles its task, drops it and holds no other.
LEMMA SettlePlaces ==
    ASSUME PoolTypeOK, OnePlace, NEW w \in Holders, queue' = queue,
           \A t \in Tasks \ {item[w].task} : results'[t] = results[t],
           Holders' = Holders \ {w},
           \A v \in Holders \ {w} : item'[v] = item[v]
    PROVE  OnePlace'
<1>1. \A t \in Tasks : Held(t)' => Held(t) /\ t # item[w].task
      BY DEF Held, OnePlace
<1>2. ~ Waiting(item[w].task)
      BY HeldTask DEF OnePlace, Held
<1>3. \A t \in Tasks : Waiting(t)' = Waiting(t)
      BY DEF Waiting
<1>4. \A t \in Settled' : t \in Settled \/ t = item[w].task
      BY DEF Settled
<1> QED BY <1>1, <1>2, <1>3, <1>4 DEF OnePlace, Settled

\* A worker that gives its task back to the queue, and holds no other.
LEMMA RequeuePlaces ==
    ASSUME PoolTypeOK, OnePlace, NEW w \in Holders, NEW i \in Items,
           i.task = item[w].task,
           queue' = queue \/ queue' = queue \cup {i},
           results' = results,
           Holders' = Holders \ {w},
           \A v \in Holders \ {w} : item'[v] = item[v]
    PROVE  OnePlace'
<1>1. \A t \in Tasks : Held(t)' => Held(t) /\ t # i.task
      BY DEF Held, OnePlace
<1>2. ~ Waiting(i.task) /\ i.task \notin Settled
      BY HeldTask DEF OnePlace, Held
<1>3. \A t \in Tasks : Waiting(t)' => Waiting(t) \/ t = i.task
      BY DEF Waiting
<1>4. \A j \in queue : j.task # i.task
      BY <1>2 DEF Waiting
<1>5. \A j, k \in queue' : j.task = k.task => j = k
      BY <1>4 DEF OnePlace
<1>6. \A u, v \in Holders' : item'[u].task = item'[v].task => u = v
      BY DEF OnePlace
<1>7. \A t \in Tasks : ~(Waiting(t)' /\ Held(t)')
      BY <1>1, <1>3 DEF OnePlace
<1>8. Settled' = Settled
      BY DEF Settled
<1>9. \A t \in Settled' : ~Waiting(t)' /\ ~Held(t)'
      BY <1>1, <1>2, <1>3, <1>8 DEF OnePlace, Settled
<1> QED BY <1>5, <1>6, <1>7, <1>9 DEF OnePlace

LEMMA InitialPlaces == PoolInit => OnePlace
BY DEF PoolInit, OnePlace, Holders, Holding, Held, Settled

\* No step makes two work items of a task, and none takes a settled task up again.
LEMMA OnePlaceStep == PoolTypeOK /\ OnePlace /\ [PoolNext]_poolVars => OnePlace'
<1> SUFFICES ASSUME PoolTypeOK, OnePlace, [PoolNext]_poolVars PROVE OnePlace'
    OBVIOUS
<1>1. ASSUME NEW w \in Threads,
             \/ CheckStop(w) \/ PullNothing(w) \/ LeaveIfDrained(w) \/ Assign(w)
             \/ Invoke(w) \/ HandleLimited(w) \/ \E o \in Outcomes : InvokeEnds(w, o)
      PROVE  OnePlace'
  <2>1. queue' = queue /\ results' = results /\ item' = item
        BY <1>1 DEF CheckStop, PullNothing, LeaveIfDrained, Assign, Invoke, HandleLimited, InvokeEnds
  <2>2. Holders' = Holders
        BY <1>1 DEF PoolTypeOK, Holders, Holding, Places, Goes, CheckStop, PullNothing, LeaveIfDrained,
                    Assign, Invoke, HandleLimited, InvokeEnds
  <2> QED BY <2>1, <2>2, SamePlaces
<1>2. ASSUME NEW w \in Threads, Pull(w) PROVE OnePlace'
  <2>1. PICK i \in queue : /\ at[w] = "get" /\ at' = [at EXCEPT ![w] = "pulled"]
                           /\ queue' = queue \ {i} /\ item' = [item EXCEPT ![w] = i]
                           /\ results' = results
        BY <1>2 DEF Pull, Goes
  <2>2. w \notin Holders /\ Holders' = Holders \cup {w}
        BY <2>1 DEF PoolTypeOK, Holders, Holding
  <2>3. item'[w] = i /\ \A v \in Holders : item'[v] = item[v]
        BY <2>1, <2>2 DEF PoolTypeOK, Holders
  <2>4. i.task \in Tasks /\ i.task \notin Settled /\ ~Held(i.task)
        BY <2>1 DEF PoolTypeOK, OnePlace, Waiting, Items
  <2>5. \A t \in Tasks : Waiting(t)' => Waiting(t) /\ t # i.task
        BY <2>1 DEF Waiting, OnePlace
  <2>6. \A t \in Tasks : Held(t)' => Held(t) \/ t = i.task
        BY <2>2, <2>3 DEF Held
  <2>7. \A u, v \in Holders' : item'[u].task = item'[v].task => u = v
        BY <2>2, <2>3, <2>4 DEF OnePlace, Held
  <2>8. Settled' = Settled
        BY <2>1 DEF Settled
  <2> QED BY <2>1, <2>4, <2>5, <2>6, <2>7, <2>8 DEF OnePlace, Settled
<1>3. ASSUME NEW w \in Threads, HandleOk(w) \/ HandleFailed(w) PROVE OnePlace'
  <2>1. w \in Holders
        BY <1>3 DEF HandleOk, HandleFailed, Holders, Holding
  <2>2. queue' = queue /\ \A t \in Tasks \ {item[w].task} : results'[t] = results[t]
        BY <1>3 DEF HandleOk, HandleFailed, PoolTypeOK
  <2>3. Holders' = Holders \ {w} /\ \A v \in Holders \ {w} : item'[v] = item[v]
        BY <1>3 DEF HandleOk, HandleFailed, Goes, PoolTypeOK, Holders, Holding
  <2> QED BY <2>1, <2>2, <2>3, SettlePlaces
<1>4. ASSUME NEW w \in Threads, HandleRetry(w) \/ BackoffEnds(w) PROVE OnePlace'
  <2>1. w \in Holders
        BY <1>4 DEF HandleRetry, BackoffEnds, Holders, Holding
  <2>2. results' = results /\ (queue' = queue \/ queue' = queue \cup {Again(item[w])})
        BY <1>4 DEF HandleRetry, BackoffEnds, Requeue, Put
  <2>3. Holders' = Holders \ {w} /\ \A v \in Holders \ {w} : item'[v] = item[v]
        BY <1>4 DEF HandleRetry, BackoffEnds, Requeue, Goes, PoolTypeOK, Holders, Holding
  <2>4. item[w] \in Items /\ item[w].attempt + 1 < MaxRequeues
        BY <1>4, <2>1, HeldTask, CapacityPoolAssumption, SMT
        DEF HandleRetry, MayRetry, BackoffEnds, PoolTypeOK, Items
  <2>5. Again(item[w]) \in Items /\ Again(item[w]).task = item[w].task
        BY <2>4, AgainItem
  <2> QED BY <2>1, <2>2, <2>3, <2>5, RequeuePlaces
<1>5. ASSUME MainStep \/ UNCHANGED poolVars PROVE OnePlace'
  <2>1. queue' = queue /\ results' = results /\ item' = item /\ at' = at
        BY <1>5 DEF MainStep, WaveDone, WallHit, StopWorkers, CloseQueue, Return, poolVars
  <2> QED BY <2>1, SamePlaces DEF Holders
<1> QED BY <1>1, <1>2, <1>3, <1>4, <1>5 DEF PoolNext, WorkerStep

\* A task is in one place only, at every moment: no retry, requeue or late result
\* makes two work items of it, and a settled task is neither queued nor held.
THEOREM TaskInOnePlace == PoolSpec => []OnePlace
<1>1. PoolTypeOK /\ OnePlace /\ PoolTypeOK' /\ [PoolNext]_poolVars => OnePlace'
      BY OnePlaceStep
<1> QED BY InitialPlaces, PoolTypeCorrect, <1>1, PTL DEF PoolSpec

\* A settled task keeps its result: no later attempt, requeue or orphan replaces it.
THEOREM ResultsStay == PoolSpec => SettledOnce
<1>1. PoolTypeOK /\ OnePlace /\ [PoolNext]_poolVars
        => [\A t \in Settled : results'[t] = results[t]]_poolVars
  <2> SUFFICES ASSUME PoolTypeOK, OnePlace, PoolNext PROVE \A t \in Settled : results'[t] = results[t]
      OBVIOUS
  <2>1. ASSUME NEW w \in Threads, HandleOk(w) \/ HandleFailed(w)
        PROVE  \A t \in Settled : results'[t] = results[t]
    <3>1. w \in Holders
          BY <2>1 DEF HandleOk, HandleFailed, Holders, Holding
    <3>2. item[w].task \notin Settled
          BY <3>1, HeldTask DEF OnePlace, Held
    <3> QED BY <2>1, <3>2 DEF HandleOk, HandleFailed, PoolTypeOK, Settled
  <2>2. ASSUME NEW w \in Threads,
               \/ CheckStop(w) \/ Pull(w) \/ PullNothing(w) \/ LeaveIfDrained(w) \/ Assign(w)
               \/ HandleLimited(w) \/ HandleRetry(w) \/ BackoffEnds(w) \/ Invoke(w)
               \/ \E o \in Outcomes : InvokeEnds(w, o)
        PROVE  results' = results
        BY <2>2 DEF CheckStop, Pull, PullNothing, LeaveIfDrained, Assign, HandleLimited,
                    HandleRetry, BackoffEnds, Invoke, InvokeEnds
  <2>3. MainStep => results' = results
        BY DEF MainStep, WaveDone, WallHit, StopWorkers, CloseQueue, Return
  <2> QED BY <2>1, <2>2, <2>3 DEF PoolNext, WorkerStep
<1> QED BY PoolTypeCorrect, TaskInOnePlace, <1>1, PTL DEF PoolSpec, SettledOnce

\* No step loses a task before the queue is closed.
LEMMA NoneLostStep == PoolTypeOK /\ NoneLost /\ [PoolNext]_poolVars => NoneLost'
<1> SUFFICES ASSUME PoolTypeOK, NoneLost, [PoolNext]_poolVars, ~closed', NEW t \in Tasks
             PROVE  t \in Settled' \/ Waiting(t)' \/ Held(t)'
    BY DEF NoneLost
<1>1. closed' = closed \/ closed'
      BY DEF PoolNext, WorkerStep, MainStep, CheckStop, Pull, PullNothing, LeaveIfDrained, Assign,
             HandleOk, HandleLimited, HandleRetry, HandleFailed, BackoffEnds, Invoke, InvokeEnds,
             WaveDone, WallHit, StopWorkers, CloseQueue, Return, poolVars
<1>2. t \in Settled \/ Waiting(t) \/ Held(t)
      BY <1>1 DEF NoneLost
<1>3. ASSUME NEW w \in Threads,
             \/ CheckStop(w) \/ PullNothing(w) \/ LeaveIfDrained(w) \/ Assign(w)
             \/ Invoke(w) \/ HandleLimited(w) \/ \E o \in Outcomes : InvokeEnds(w, o)
      PROVE  t \in Settled' \/ Waiting(t)' \/ Held(t)'
  <2>1. queue' = queue /\ results' = results /\ item' = item
        BY <1>3 DEF CheckStop, PullNothing, LeaveIfDrained, Assign, Invoke, HandleLimited, InvokeEnds
  <2>2. Holders' = Holders
        BY <1>3 DEF PoolTypeOK, Holders, Holding, Places, Goes, CheckStop, PullNothing, LeaveIfDrained,
                    Assign, Invoke, HandleLimited, InvokeEnds
  <2> QED BY <1>2, <2>1, <2>2 DEF Settled, Waiting, Held
<1>4. ASSUME NEW w \in Threads, Pull(w) PROVE t \in Settled' \/ Waiting(t)' \/ Held(t)'
  <2>1. PICK i \in queue : /\ at[w] = "get" /\ at' = [at EXCEPT ![w] = "pulled"]
                           /\ queue' = queue \ {i} /\ item' = [item EXCEPT ![w] = i]
                           /\ results' = results
        BY <1>4 DEF Pull, Goes
  <2>2. w \notin Holders /\ Holders' = Holders \cup {w}
        BY <2>1 DEF PoolTypeOK, Holders, Holding
  <2>3. item'[w] = i /\ \A v \in Holders : item'[v] = item[v]
        BY <2>1, <2>2 DEF PoolTypeOK, Holders
  <2> QED BY <1>2, <2>1, <2>2, <2>3 DEF Settled, Waiting, Held
<1>5. ASSUME NEW w \in Threads, HandleOk(w) \/ HandleFailed(w)
      PROVE  t \in Settled' \/ Waiting(t)' \/ Held(t)'
  <2>1. queue' = queue
        BY <1>5 DEF HandleOk, HandleFailed
  <2>2. Holders' = Holders \ {w} /\ \A v \in Holders \ {w} : item'[v] = item[v]
        BY <1>5 DEF HandleOk, HandleFailed, Goes, PoolTypeOK, Holders, Holding
  <2>3. results'[item[w].task] # "none" /\ \A u \in Settled : u \in Settled'
        BY <1>5 DEF HandleOk, HandleFailed, PoolTypeOK, Settled, Holding, Items
  <2> QED BY <1>2, <2>1, <2>2, <2>3 DEF Settled, Waiting, Held
<1>6. ASSUME NEW w \in Threads, HandleRetry(w) \/ BackoffEnds(w)
      PROVE  t \in Settled' \/ Waiting(t)' \/ Held(t)'
  <2>1. w \in Holders
        BY <1>6 DEF HandleRetry, BackoffEnds, Holders, Holding
  <2>2. results' = results /\ queue' = queue \cup {Again(item[w])}
        BY <1>1, <1>6 DEF HandleRetry, BackoffEnds, Requeue, Put, PoolTypeOK
  <2>3. Holders' = Holders \ {w} /\ \A v \in Holders \ {w} : item'[v] = item[v]
        BY <1>6 DEF HandleRetry, BackoffEnds, Requeue, Goes, PoolTypeOK, Holders, Holding
  <2>4. item[w] \in Items /\ item[w].attempt + 1 < MaxRequeues
        BY <1>6, <2>1, HeldTask, CapacityPoolAssumption, SMT
        DEF HandleRetry, MayRetry, BackoffEnds, PoolTypeOK, Items
  <2>5. Again(item[w]).task = item[w].task
        BY <2>4, AgainItem
  <2> QED BY <1>2, <2>1, <2>2, <2>3, <2>5 DEF Settled, Waiting, Held
<1>7. ASSUME MainStep \/ UNCHANGED poolVars PROVE t \in Settled' \/ Waiting(t)' \/ Held(t)'
  <2>1. queue' = queue /\ results' = results /\ item' = item /\ at' = at
        BY <1>7 DEF MainStep, WaveDone, WallHit, StopWorkers, CloseQueue, Return, poolVars
  <2> QED BY <1>2, <2>1 DEF Settled, Waiting, Held, Holders
<1> QED BY <1>3, <1>4, <1>5, <1>6, <1>7 DEF PoolNext, WorkerStep

\* Until the queue is closed every task is settled, queued or held by a worker, also
\* while that worker sleeps for a rate limit and counts it nowhere.
THEOREM TasksNotLost == PoolSpec => []NoneLost
<1>1. PoolInit => NoneLost
  <2> SUFFICES ASSUME PoolInit, NEW t \in Tasks PROVE Waiting(t)
      BY DEF NoneLost
  <2>1. [task |-> t, attempt |-> 0] \in queue
        BY DEF PoolInit
  <2> QED BY <2>1 DEF Waiting
<1>2. PoolTypeOK /\ NoneLost /\ [PoolNext]_poolVars => NoneLost'
      BY NoneLostStep
<1> QED BY PoolTypeCorrect, <1>1, <1>2, PTL DEF PoolSpec

-----------------------------------------------------------------------------
(* The semaphore *)

Invoking == {w \in Threads : at[w] = "invoke"}

\* A permit is free or in the hands of a worker that waits for its invocation.
PermitsBack == permits + Cardinality(Invoking) = Capacity

LEMMA InvokingFinite == IsFiniteSet(Invoking) /\ Cardinality(Invoking) \in Nat
<1>1. Invoking \subseteq Threads
      BY DEF Invoking
<1> QED BY <1>1, CapacityPoolAssumption, FS_Subset, FS_CardinalityType

LEMMA InitialPermits == PoolInit => PermitsBack
<1> SUFFICES ASSUME PoolInit PROVE PermitsBack
    OBVIOUS
<1>1. Invoking = {}
      BY DEF PoolInit, Invoking
<1> QED BY <1>1, FS_EmptySet, CapacityPoolAssumption DEF PoolInit, PermitsBack

\* Permits are taken and given back one for one, on every path.
LEMMA PermitsStep == PoolTypeOK /\ PermitsBack /\ [PoolNext]_poolVars => PermitsBack'
<1> SUFFICES ASSUME PoolTypeOK, PermitsBack, [PoolNext]_poolVars PROVE PermitsBack'
    OBVIOUS
<1>1. ASSUME NEW w \in Threads, Invoke(w) PROVE PermitsBack'
  <2>1. w \notin Invoking /\ Invoking' = Invoking \cup {w}
        BY <1>1 DEF Invoke, Goes, Invoking, PoolTypeOK
  <2>2. Cardinality(Invoking') = Cardinality(Invoking) + 1
        BY <2>1, InvokingFinite, FS_AddElement
  <2>3. permits' = permits - 1 /\ permits \in Nat
        BY <1>1 DEF Invoke, PermitTaken, PoolTypeOK
  <2> QED BY <2>2, <2>3, InvokingFinite, SMT DEF PermitsBack
<1>2. ASSUME NEW w \in Threads, NEW o \in Outcomes, InvokeEnds(w, o) PROVE PermitsBack'
  <2>1. w \in Invoking /\ Invoking' = Invoking \ {w}
        BY <1>2 DEF InvokeEnds, Goes, Invoking, PoolTypeOK
  <2>2. Cardinality(Invoking') = Cardinality(Invoking) - 1
        BY <2>1, InvokingFinite, FS_RemoveElement
  <2>3. permits' = permits + 1 /\ permits \in Nat
        BY <1>2 DEF InvokeEnds, PermitBack, PoolTypeOK
  <2> QED BY <2>2, <2>3, InvokingFinite, SMT DEF PermitsBack
<1>3. ASSUME NEW w \in Threads, WorkerStep(w) PROVE PermitsBack'
  <2>1. permits' = permits
        BY <1>3 DEF WorkerStep, CheckStop, Pull, PullNothing, LeaveIfDrained, Assign, HandleOk,
                    HandleLimited, HandleRetry, HandleFailed, BackoffEnds
  <2>2. /\ at[w] # "invoke"
        /\ \E to \in Places \ {"invoke"} : at' = [at EXCEPT ![w] = to]
        BY <1>3 DEF WorkerStep, CheckStop, Pull, PullNothing, LeaveIfDrained, Assign, HandleOk,
                    HandleLimited, HandleRetry, HandleFailed, BackoffEnds, Requeue, Goes, Places
  <2>3. Invoking' = Invoking
        BY <2>2 DEF Invoking, PoolTypeOK
  <2> QED BY <2>1, <2>3 DEF PermitsBack
<1>4. ASSUME MainStep \/ UNCHANGED poolVars PROVE PermitsBack'
  <2>1. permits' = permits /\ at' = at
        BY <1>4 DEF MainStep, WaveDone, WallHit, StopWorkers, CloseQueue, Return, poolVars
  <2> QED BY <2>1 DEF PermitsBack, Invoking
<1> QED BY <1>1, <1>2, <1>3, <1>4 DEF PoolNext

\* No worker ever waits for capacity_sem: with at most as many workers as permits,
\* and every permit given back also when the invocation hangs, one is free for a
\* worker that asks.
THEOREM PermitsSuffice == PoolSpec => []NeverWaits
<1>1. PoolInit => PermitsBack
      BY InitialPermits
<1>2. PoolTypeOK /\ PermitsBack /\ [PoolNext]_poolVars => PermitsBack'
      BY PermitsStep
<1>3. PoolTypeOK /\ PermitsBack => NeverWaits
  <2> SUFFICES ASSUME PoolTypeOK, PermitsBack, NEW w \in Threads, at[w] = "permit"
               PROVE  permits > 0
      BY DEF NeverWaits
  <2>1. Invoking \subseteq Threads \ {w}
        BY DEF Invoking
  <2>2. /\ IsFiniteSet(Threads \ {w})
        /\ Cardinality(Threads \ {w}) = Cardinality(Threads) - 1
        BY CapacityPoolAssumption, FS_RemoveElement
  <2>3. Cardinality(Invoking) <= Cardinality(Threads) - 1
        BY <2>1, <2>2, FS_Subset
  <2>4. Cardinality(Threads) \in Nat
        BY CapacityPoolAssumption, FS_CardinalityType
  <2> QED BY <2>3, <2>4, InvokingFinite, CapacityPoolAssumption, SMT DEF PermitsBack, PoolTypeOK
<1> QED BY PoolTypeCorrect, <1>1, <1>2, <1>3, PTL DEF PoolSpec

-----------------------------------------------------------------------------
(* The counters *)

Running == {w \in Threads : at[w] \in {"permit", "invoke", "handle"}}
Pulled  == {w \in Threads : at[w] = "pulled"}
SettledAs(v) == {t \in Tasks : results[t] = v}

\* CountersExact by its parts, with the finiteness of the queue.
RunningExact == progress.running = Cardinality(Running)
QueuedExact  == ~closed => progress.queued = Cardinality(queue) + Cardinality(Pulled)
SettledExact == /\ progress.completed = Cardinality(SettledAs("ok"))
                /\ progress.failed = Cardinality(SettledAs("failed"))
Exact == IsFiniteSet(queue) /\ RunningExact /\ QueuedExact /\ SettledExact

LEMMA FiniteParts ==
    /\ IsFiniteSet(Running) /\ Cardinality(Running) \in Nat
    /\ IsFiniteSet(Pulled) /\ Cardinality(Pulled) \in Nat
    /\ \A v : IsFiniteSet(SettledAs(v)) /\ Cardinality(SettledAs(v)) \in Nat
<1>1. Running \subseteq Threads /\ Pulled \subseteq Threads /\ \A v : SettledAs(v) \subseteq Tasks
      BY DEF Running, Pulled, SettledAs
<1> QED BY <1>1, CapacityPoolAssumption, FS_Subset, FS_CardinalityType

LEMMA InitialExact == PoolInit => Exact
<1> SUFFICES ASSUME PoolInit PROVE Exact
    OBVIOUS
<1> DEFINE fresh == [t \in Tasks |-> [task |-> t, attempt |-> 0]]
<1>1. ExistsBijection(Tasks, queue)
  <2>1. fresh \in [Tasks -> queue]
        BY DEF PoolInit
  <2>2. \A t, u \in Tasks : fresh[t] = fresh[u] => t = u
        OBVIOUS
  <2>3. ASSUME NEW i \in queue PROVE \E t \in Tasks : fresh[t] = i
    <3>1. i.task \in Tasks /\ i = [task |-> i.task, attempt |-> 0]
          BY DEF PoolInit
    <3> QED BY <3>1
  <2> HIDE DEF fresh
  <2>4. fresh \in Bijection(Tasks, queue)
        BY <2>1, <2>2, <2>3 DEF Bijection, Injection, IsInjective, Surjection
  <2> QED BY <2>4 DEF ExistsBijection
<1>2. IsFiniteSet(queue) /\ Cardinality(queue) = Cardinality(Tasks)
      BY <1>1, CapacityPoolAssumption, FS_Bijection
<1>3. Running = {} /\ Pulled = {} /\ SettledAs("ok") = {} /\ SettledAs("failed") = {}
      BY DEF PoolInit, Running, Pulled, SettledAs
<1>4. /\ progress.queued = Cardinality(queue) /\ progress.running = 0
      /\ progress.completed = 0 /\ progress.failed = 0
      BY <1>2 DEF PoolInit
<1>5. Cardinality({}) = 0 /\ Cardinality(queue) \in Nat
      BY <1>2, FS_EmptySet, FS_CardinalityType
<1>6. QueuedExact
      BY <1>3, <1>4, <1>5, SMT DEF QueuedExact
<1>7. RunningExact /\ SettledExact
      BY <1>3, <1>4, <1>5 DEF RunningExact, SettledExact
<1> QED BY <1>2, <1>6, <1>7 DEF Exact

\* What a step that counts w out of the running ones does to the counters.
LEMMA RunningEnds ==
    ASSUME PoolTypeOK, RunningExact, NEW w \in Running, Running' = Running \ {w},
           progress'.running = NotRunning(progress).running
    PROVE  RunningExact'
<1>1. Cardinality(Running') = Cardinality(Running) - 1
      BY FiniteParts, FS_RemoveElement
<1>2. progress'.running = Less(progress.running)
      BY DEF NotRunning, PoolTypeOK
<1>3. Cardinality(Running) # 0
      BY FiniteParts, FS_EmptySet
<1> QED BY <1>1, <1>2, <1>3, FiniteParts, SMT DEF RunningExact, Less

\* The other counters of a task that is counted out.
LEMMA CountedOut ==
    ASSUME PoolTypeOK
    PROVE  /\ NotRunning(progress).queued = progress.queued
           /\ NotRunning(progress).completed = progress.completed
           /\ NotRunning(progress).failed = progress.failed
           /\ NotRunning(progress) \in Counters
BY CountersStep DEF NotRunning, PoolTypeOK, Counters

\* Settling one task that was not settled adds one to one tally.
LEMMA TallyStep ==
    ASSUME PoolTypeOK, NEW t \in Tasks, results[t] = "none", NEW v \in {"ok", "failed"},
           results' = [results EXCEPT ![t] = v]
    PROVE  /\ Cardinality(SettledAs(v)') = Cardinality(SettledAs(v)) + 1
           /\ \A u \in {"ok", "failed"} \ {v} : SettledAs(u)' = SettledAs(u)
<1>1. SettledAs(v)' = SettledAs(v) \cup {t} /\ t \notin SettledAs(v)
      BY DEF SettledAs, PoolTypeOK
<1>2. \A u \in {"ok", "failed"} \ {v} : SettledAs(u)' = SettledAs(u)
      BY DEF SettledAs, PoolTypeOK
<1> QED BY <1>1, <1>2, FiniteParts, FS_AddElement

\* A step that changes neither the counters, nor the queue, nor the results, nor who
\* is counted.
LEMMA SameCounts ==
    ASSUME Exact, progress' = progress, queue' = queue, results' = results, closed => closed',
           Running' = Running, Pulled' = Pulled
    PROVE  Exact'
BY DEF Exact, RunningExact, QueuedExact, SettledExact, SettledAs

\* The counters are exact after a task is settled ...
LEMMA SettleExact ==
    ASSUME PoolTypeOK, OnePlace, Exact, NEW w \in Threads, HandleOk(w) \/ HandleFailed(w)
    PROVE  Exact'
<1>1. w \in Holders /\ w \in Running /\ item[w].task \in Tasks /\ results[item[w].task] = "none"
  <2>1. w \in Holders /\ w \in Running
        BY DEF HandleOk, HandleFailed, Holders, Holding, Running
  <2> QED BY <2>1, HeldTask DEF OnePlace, Held, Settled
<1>2. Running' = Running \ {w} /\ Pulled' = Pulled /\ queue' = queue /\ closed' = closed
      BY DEF HandleOk, HandleFailed, Goes, Running, Pulled, PoolTypeOK
<1>3. CASE HandleOk(w)
  <2>1. /\ progress'.running = NotRunning(progress).running
        /\ progress'.queued = progress.queued
        /\ progress'.completed = progress.completed + 1
        /\ progress'.failed = progress.failed
        BY <1>3, CountedOut DEF HandleOk, Counters
  <2>2. results' = [results EXCEPT ![item[w].task] = "ok"]
        BY <1>3 DEF HandleOk
  <2>3. /\ Cardinality(SettledAs("ok")') = Cardinality(SettledAs("ok")) + 1
        /\ SettledAs("failed")' = SettledAs("failed")
        BY <1>1, <2>2, TallyStep
  <2>4. RunningExact'
        BY <1>1, <1>2, <2>1, RunningEnds DEF Exact
  <2>5. SettledExact'
        BY <2>1, <2>3 DEF Exact, SettledExact
  <2> QED BY <1>2, <2>1, <2>4, <2>5 DEF Exact, QueuedExact
<1>4. CASE HandleFailed(w)
  <2>1. /\ progress'.running = NotRunning(progress).running
        /\ progress'.queued = progress.queued
        /\ progress'.completed = progress.completed
        /\ progress'.failed = progress.failed + 1
        BY <1>4, CountedOut DEF HandleFailed, Counters
  <2>2. results' = [results EXCEPT ![item[w].task] = "failed"]
        BY <1>4 DEF HandleFailed
  <2>3. /\ Cardinality(SettledAs("failed")') = Cardinality(SettledAs("failed")) + 1
        /\ SettledAs("ok")' = SettledAs("ok")
        BY <1>1, <2>2, TallyStep
  <2>4. RunningExact'
        BY <1>1, <1>2, <2>1, RunningEnds DEF Exact
  <2>5. SettledExact'
        BY <2>1, <2>3 DEF Exact, SettledExact
  <2> QED BY <1>2, <2>1, <2>4, <2>5 DEF Exact, QueuedExact
<1> QED BY <1>3, <1>4

\* ... and after it is put back in the queue, where it was not.
LEMMA RequeueExact ==
    ASSUME PoolTypeOK, OnePlace, Exact, NEW w \in Holders,
           Requeue(w), item[w].attempt + 1 < MaxRequeues, closed' = closed, results' = results,
           RunningExact', Pulled' = Pulled,
           progress'.queued = progress.queued + 1,
           progress'.completed = progress.completed, progress'.failed = progress.failed
    PROVE  Exact'
<1>1. item[w] \in Items /\ Again(item[w]) \in Items /\ Again(item[w]).task = item[w].task
      BY HeldTask, AgainItem
<1>2. Again(item[w]) \notin queue
      BY <1>1, HeldTask DEF OnePlace, Held, Waiting
<1>3. IsFiniteSet(queue') /\ (~closed => Cardinality(queue') = Cardinality(queue) + 1)
      BY <1>2, FS_AddElement DEF Requeue, Put, Exact
<1>4. QueuedExact'
      BY <1>3, FiniteParts, FS_CardinalityType, SMT DEF QueuedExact, Exact
<1>5. SettledExact'
      BY DEF Exact, SettledExact, SettledAs
<1> QED BY <1>3, <1>4, <1>5 DEF Exact

\* No step makes a counter differ from what it counts.
LEMMA ExactStep == PoolTypeOK /\ OnePlace /\ Exact /\ [PoolNext]_poolVars => Exact'
<1> SUFFICES ASSUME PoolTypeOK, OnePlace, Exact, [PoolNext]_poolVars PROVE Exact'
    OBVIOUS
<1>1. ASSUME NEW w \in Threads,
             \/ CheckStop(w) \/ PullNothing(w) \/ LeaveIfDrained(w)
             \/ Invoke(w) \/ \E o \in Outcomes : InvokeEnds(w, o)
      PROVE  Exact'
  <2>1. progress' = progress /\ queue' = queue /\ results' = results /\ closed' = closed
        BY <1>1 DEF CheckStop, PullNothing, LeaveIfDrained, Invoke, InvokeEnds
  <2>2. Running' = Running /\ Pulled' = Pulled
        BY <1>1 DEF CheckStop, PullNothing, LeaveIfDrained, Invoke, InvokeEnds, Goes, Running,
                    Pulled, PoolTypeOK
  <2> QED BY <2>1, <2>2, SameCounts
<1>2. ASSUME NEW w \in Threads, Pull(w) PROVE Exact'
  <2>1. PICK i \in queue : queue' = queue \ {i}
        BY <1>2 DEF Pull
  <2>2. Running' = Running /\ Pulled' = Pulled \cup {w} /\ w \notin Pulled
        BY <1>2 DEF Pull, Goes, Running, Pulled, PoolTypeOK
  <2>3. IsFiniteSet(queue') /\ Cardinality(queue') = Cardinality(queue) - 1
        BY <2>1, FS_RemoveElement DEF Exact
  <2>4. Cardinality(Pulled') = Cardinality(Pulled) + 1
        BY <2>2, FiniteParts, FS_AddElement
  <2>5. progress' = progress /\ results' = results /\ closed' = closed
        BY <1>2 DEF Pull
  <2>6. QueuedExact'
        BY <2>3, <2>4, <2>5, FiniteParts, FS_CardinalityType, SMT DEF Exact, QueuedExact
  <2> QED BY <2>2, <2>3, <2>5, <2>6 DEF Exact, RunningExact, SettledExact, SettledAs
<1>3. ASSUME NEW w \in Threads, Assign(w) PROVE Exact'
  <2>1. Running' = Running \cup {w} /\ w \notin Running /\ Pulled' = Pulled \ {w} /\ w \in Pulled
        BY <1>3 DEF Assign, Goes, Running, Pulled, PoolTypeOK
  <2>2. /\ Cardinality(Running') = Cardinality(Running) + 1
        /\ Cardinality(Pulled') = Cardinality(Pulled) - 1
        BY <2>1, FiniteParts, FS_AddElement, FS_RemoveElement
  <2>3. Cardinality(Pulled) # 0
        BY <2>1, FiniteParts, FS_EmptySet
  <2>4. queue' = queue /\ results' = results /\ closed' = closed
        BY <1>3 DEF Assign
  <2>5. /\ progress'.queued = Less(progress.queued)
        /\ progress'.running = progress.running + 1
        /\ progress'.completed = progress.completed /\ progress'.failed = progress.failed
        BY <1>3 DEF Assign, NotQueued, PoolTypeOK
  <2>6. QueuedExact'
        BY <2>2, <2>3, <2>4, <2>5, FiniteParts, FS_CardinalityType, SMT DEF Exact, QueuedExact, Less
  <2> QED BY <2>2, <2>4, <2>5, <2>6 DEF Exact, RunningExact, SettledExact, SettledAs
<1>4. ASSUME NEW w \in Threads, HandleOk(w) \/ HandleFailed(w) PROVE Exact'
      BY <1>4, SettleExact
<1>5. ASSUME NEW w \in Threads, HandleLimited(w) PROVE Exact'
  <2>1. w \in Running /\ Running' = Running \ {w} /\ Pulled' = Pulled
        BY <1>5 DEF HandleLimited, Goes, Running, Pulled, PoolTypeOK
  <2>2. queue' = queue /\ results' = results /\ closed' = closed /\ progress' = NotRunning(progress)
        BY <1>5 DEF HandleLimited
  <2>3. RunningExact'
        BY <2>1, <2>2, RunningEnds DEF Exact
  <2> QED BY <2>1, <2>2, <2>3, CountedOut DEF Exact, QueuedExact, SettledExact, SettledAs
<1>6. ASSUME NEW w \in Threads, HandleRetry(w) PROVE Exact'
  <2>1. w \in Holders /\ w \in Running /\ Running' = Running \ {w} /\ Pulled' = Pulled
        BY <1>6 DEF HandleRetry, Requeue, Goes, Running, Pulled, PoolTypeOK, Holders, Holding
  <2>2. /\ progress'.running = NotRunning(progress).running
        /\ progress'.queued = progress.queued + 1
        /\ progress'.completed = progress.completed /\ progress'.failed = progress.failed
        BY <1>6, CountedOut DEF HandleRetry, Counters
  <2>3. RunningExact'
        BY <2>1, <2>2, RunningEnds DEF Exact
  <2>4. item[w].attempt + 1 < MaxRequeues
        BY <1>6, <2>1, HeldTask, CapacityPoolAssumption, SMT DEF HandleRetry, MayRetry, Items
  <2> QED BY <1>6, <2>1, <2>2, <2>3, <2>4, RequeueExact DEF HandleRetry
<1>7. ASSUME NEW w \in Threads, BackoffEnds(w) PROVE Exact'
  <2>1. w \in Holders /\ Running' = Running /\ Pulled' = Pulled
        BY <1>7 DEF BackoffEnds, Requeue, Goes, Running, Pulled, PoolTypeOK, Holders, Holding
  <2>2. /\ progress'.running = progress.running
        /\ progress'.queued = progress.queued + 1
        /\ progress'.completed = progress.completed /\ progress'.failed = progress.failed
        BY <1>7 DEF BackoffEnds, PoolTypeOK
  <2>3. RunningExact'
        BY <2>1, <2>2 DEF Exact, RunningExact
  <2>4. item[w].attempt + 1 < MaxRequeues
        BY <1>7 DEF BackoffEnds, PoolTypeOK
  <2> QED BY <1>7, <2>1, <2>2, <2>3, <2>4, RequeueExact DEF BackoffEnds
<1>8. ASSUME MainStep \/ UNCHANGED poolVars PROVE Exact'
  <2>1. progress' = progress /\ queue' = queue /\ results' = results /\ at' = at /\ (closed => closed')
        BY <1>8 DEF MainStep, WaveDone, WallHit, StopWorkers, CloseQueue, Return, poolVars
  <2> QED BY <2>1, SameCounts DEF Running, Pulled
<1> QED BY <1>1, <1>2, <1>3, <1>4, <1>5, <1>6, <1>7, <1>8 DEF PoolNext, WorkerStep

\* The counters that the caller and the idle workers act on tell the truth at every
\* moment the lock is free.
THEOREM CountersTrue == PoolSpec => []CountersExact
<1>1. PoolTypeOK /\ OnePlace /\ Exact /\ [PoolNext]_poolVars => Exact'
      BY ExactStep
<1>2. Exact => CountersExact
      BY DEF Exact, RunningExact, QueuedExact, SettledExact, Running, Pulled, SettledAs, CountersExact
<1> QED BY InitialExact, PoolTypeCorrect, TaskInOnePlace, <1>1, <1>2, PTL DEF PoolSpec

-----------------------------------------------------------------------------
(* The end of the wave *)

\* Once the calling thread has left its polling loop by itself, all is settled.
DoneIsAll == main # "poll" /\ ~walled => Settled = Tasks

\* As many results as tasks are a result for each task.
LEMMA TallyFull ==
    ASSUME SettledExact, PoolTypeOK, progress.completed + progress.failed >= Cardinality(Tasks)
    PROVE  Settled = Tasks
<1>1. Settled = SettledAs("ok") \cup SettledAs("failed") /\ SettledAs("ok") \cap SettledAs("failed") = {}
      BY DEF Settled, SettledAs, PoolTypeOK
<1>2. Cardinality(Settled) = Cardinality(SettledAs("ok")) + Cardinality(SettledAs("failed"))
  <2>1. Cardinality(SettledAs("ok") \cap SettledAs("failed")) = 0
        BY <1>1, FS_EmptySet
  <2>2. Cardinality(SettledAs("ok") \cup SettledAs("failed"))
          = Cardinality(SettledAs("ok")) + Cardinality(SettledAs("failed"))
            - Cardinality(SettledAs("ok") \cap SettledAs("failed"))
        BY FiniteParts, FS_Union
  <2> QED BY <1>1, <2>1, <2>2, FiniteParts, SMT
<1>3. Settled \subseteq Tasks /\ Cardinality(Settled) >= Cardinality(Tasks)
      BY <1>2 DEF Settled, SettledExact
<1>4. /\ Cardinality(Settled) <= Cardinality(Tasks)
      /\ Cardinality(Settled) = Cardinality(Tasks) => Settled = Tasks
      BY <1>3, CapacityPoolAssumption, FS_Subset
<1>5. Cardinality(Settled) \in Nat /\ Cardinality(Tasks) \in Nat
      BY <1>3, CapacityPoolAssumption, FS_Subset, FS_CardinalityType
<1> QED BY <1>3, <1>4, <1>5, SMT

LEMMA DoneStep ==
    PoolTypeOK /\ OnePlace /\ Exact /\ DoneIsAll /\ [PoolNext]_poolVars
      /\ [\A t \in Settled : results'[t] = results[t]]_poolVars => DoneIsAll'
<1> SUFFICES ASSUME PoolTypeOK, OnePlace, Exact, DoneIsAll, [PoolNext]_poolVars,
                    [\A t \in Settled : results'[t] = results[t]]_poolVars,
                    main' # "poll", ~walled'
             PROVE  Settled' = Tasks
    BY DEF DoneIsAll
<1>1. Settled \subseteq Settled'
  <2>1. \A t \in Settled : results'[t] = results[t]
        BY DEF poolVars
  <2> QED BY <2>1 DEF Settled
<1>2. ~walled /\ (main # "poll" \/ WaveDone)
  <2>1. ASSUME NEW w \in Threads,
               WorkerStep(w) \/ Invoke(w) \/ \E o \in Outcomes : InvokeEnds(w, o)
        PROVE  main' = main /\ walled' = walled
        BY <2>1 DEF WorkerStep, CheckStop, Pull, PullNothing, LeaveIfDrained, Assign, HandleOk,
                    HandleLimited, HandleRetry, HandleFailed, BackoffEnds, Invoke, InvokeEnds
  <2>2. MainStep => WaveDone \/ (main # "poll" /\ walled' = walled) \/ walled'
        BY DEF MainStep, WallHit, StopWorkers, CloseQueue, Return
  <2>3. WaveDone => walled' = walled
        BY DEF WaveDone
  <2>4. UNCHANGED poolVars => main' = main /\ walled' = walled
        BY DEF poolVars
  <2> QED BY <2>1, <2>2, <2>3, <2>4 DEF PoolNext
<1>3. WaveDone => Settled = Tasks
      BY TallyFull DEF WaveDone, Exact
<1>4. Settled = Tasks
      BY <1>2, <1>3 DEF DoneIsAll
<1> QED BY <1>1, <1>4 DEF Settled

\* run_capacity_pool returns a result for every task, unless the safety wall cut the
\* wave short.
THEOREM AllReturned == PoolSpec => []ReturnsAll
<1>1. PoolInit => DoneIsAll
      BY DEF PoolInit, DoneIsAll
<1>2. DoneIsAll => ReturnsAll
      BY DEF DoneIsAll, ReturnsAll
<1>3. PoolTypeOK /\ OnePlace /\ Exact /\ [PoolNext]_poolVars => Exact'
      BY ExactStep
<1>4. PoolTypeOK /\ OnePlace /\ Exact /\ DoneIsAll /\ [PoolNext]_poolVars
        /\ [\A t \in Settled : results'[t] = results[t]]_poolVars => DoneIsAll'
      BY DoneStep
<1> QED BY InitialExact, PoolTypeCorrect, TaskInOnePlace, ResultsStay, <1>1, <1>2, <1>3, <1>4, PTL
        DEF PoolSpec, SettledOnce

-----------------------------------------------------------------------------
(* THE ENDPOINTS *)

-----------------------------------------------------------------------------
(* Types *)

LEMMA NoCallType == NoCall \in CallStates
BY EndpointPoolAssumption DEF NoCall, At, CallStates

\* The places a call moves to.
LEMMA GoesToType ==
    ASSUME LeaseTypeOK, NEW c \in Calls, NEW pc \in {"try", "http"} \cup Over, GoesTo(c, pc)
    PROVE  call' \in [Calls -> CallStates] /\ call'[c].pc = pc
                /\ \A d \in Calls \ {c} : call'[d] = call[d]
<1>1. [call[c] EXCEPT !.pc = pc] \in CallStates
      BY DEF LeaseTypeOK, CallStates
<1> QED BY <1>1 DEF LeaseTypeOK, GoesTo, CallStates

LEMMA ProceedType ==
    ASSUME LeaseTypeOK, NEW c \in Calls, NEW pc \in {"acquire", "try"}, NEW m \in 1..Models + 1,
           NEW t \in 1..Tries, NEW x \in SUBSET Endpoints, Proceed(c, pc, m, t, x)
    PROVE  call' \in [Calls -> CallStates] /\ call'[c].pc = pc
                /\ \A d \in Calls \ {c} : call'[d] = call[d]
<1>1. [pc |-> pc, role |-> call[c].role, model |-> m, last |-> call[c].last, try |-> t,
       exclude |-> x] \in CallStates
      BY DEF LeaseTypeOK, CallStates
<1> QED BY <1>1 DEF LeaseTypeOK, Proceed

\* What a release does to the lease of c: afterwards c has none.
LEMMA ReleaseType ==
    ASSUME LeaseTypeOK, NEW c \in Calls, NEW ok \in BOOLEAN, ReleaseEndpoint(c, ok)
    PROVE  /\ active' \in [Endpoints -> Nat]
           /\ cooling' \subseteq Endpoints
           /\ lease' = [lease EXCEPT ![c] = NoLease]
<1>1. lease' = [lease EXCEPT ![c] = NoLease]
      BY DEF ReleaseEndpoint, Forgotten
<1>2. cooling' \subseteq Endpoints
      BY DEF ReleaseEndpoint, LeaseTypeOK
<1>3. CASE lease[c] = NoLease
      BY <1>1, <1>2, <1>3 DEF ReleaseEndpoint, Returned, LeaseTypeOK
<1>4. CASE lease[c] # NoLease
  <2>1. lease[c] \in Endpoints
        BY <1>4 DEF LeaseTypeOK
  <2>2. active' = [active EXCEPT ![lease[c]] = IF @ > 0 THEN @ - 1 ELSE 0]
        BY <1>4 DEF ReleaseEndpoint, Returned, Released
  <2>3. active' \in [Endpoints -> Nat]
        BY <2>1, <2>2 DEF LeaseTypeOK
  <2> QED BY <1>1, <1>2, <2>3
<1> QED BY <1>3, <1>4

LEMMA InitialLeaseTypes == LeaseInit => LeaseTypeOK
BY NoCallType DEF LeaseInit, LeaseTypeOK

\* A step of one call that leaves the others their place and their lease, and c a
\* lease only where it may hold one.
LEMMA OneCallType ==
    ASSUME LeaseTypeOK, NEW c \in Calls,
           active' \in [Endpoints -> Nat], cooling' \subseteq Endpoints,
           stray' \in [Endpoints -> Nat],
           NEW l \in Endpoints \cup {NoLease}, lease' = [lease EXCEPT ![c] = l],
           call' \in [Calls -> CallStates],
           \A d \in Calls \ {c} : call'[d] = call[d],
           l # NoLease => call'[c].pc \in {"try", "http"}
    PROVE  LeaseTypeOK'
BY DEF LeaseTypeOK

\* Every step of a call keeps the variables of their kinds.
LEMMA CallStepTypes ==
    ASSUME LeaseTypeOK, NEW c \in Calls, CallStep(c) \/ Collect(c)
    PROVE  LeaseTypeOK'
<1> USE DEF Over
<1>1. CASE Acquire(c)
  <2>1. PICK e \in Endpoints : /\ active' = [active EXCEPT ![e] = @ + 1]
                               /\ lease' = [lease EXCEPT ![c] = e]
                               /\ GoesTo(c, "try")
                               /\ UNCHANGED <<cooling, stray>>
        BY <1>1 DEF Acquire, LeastLoaded, Offered, Candidates
  <2>2. active' \in [Endpoints -> Nat] /\ cooling' \subseteq Endpoints /\ stray' \in [Endpoints -> Nat]
        BY <2>1 DEF LeaseTypeOK
  <2> QED BY <2>1, <2>2, GoesToType, OneCallType
<1>2. ASSUME NEW pc \in {"try", "http"} \cup Over, GoesTo(c, pc), call[c].pc \in {"acquire", "try"},
             call[c].pc = "try" => pc \in {"try", "http"},
             UNCHANGED <<active, cooling, lease, stray>>
      PROVE  LeaseTypeOK'
  <2>1. /\ call' \in [Calls -> CallStates] /\ call'[c].pc = pc
        /\ \A d \in Calls \ {c} : call'[d] = call[d]
        BY <1>2, GoesToType
  <2>2. lease[c] # NoLease => pc \in {"try", "http"}
        BY <1>2 DEF LeaseTypeOK
  <2> QED BY <1>2, <2>1, <2>2 DEF LeaseTypeOK
<1>3. CASE AcquireTimesOut(c) \/ AcquireRefused(c) \/ TakeToken(c)
      BY <1>2, <1>3 DEF AcquireTimesOut, AcquireRefused, TakeToken
<1>4. ASSUME NEW ok \in BOOLEAN, ReleaseEndpoint(c, ok), UNCHANGED stray,
             call' \in [Calls -> CallStates], \A d \in Calls \ {c} : call'[d] = call[d]
      PROVE  LeaseTypeOK'
      BY <1>4, ReleaseType, OneCallType DEF LeaseTypeOK
<1>5. ASSUME GiveUp(c) \/ Answered(c) \/ RateLimited(c) \/ Cancelled(c) PROVE LeaseTypeOK'
  <2>1. /\ \E ok \in BOOLEAN : ReleaseEndpoint(c, ok)
        /\ \E pc \in Over : GoesTo(c, pc)
        /\ UNCHANGED stray
        BY <1>5 DEF GiveUp, Answered, RateLimited, Cancelled
  <2>2. call' \in [Calls -> CallStates] /\ \A d \in Calls \ {c} : call'[d] = call[d]
        BY <2>1, GoesToType
  <2> QED BY <1>4, <2>1, <2>2
<1>6. CASE Rotate(c)
  <2>1. /\ call[c].try + 1 \in 1..Tries
        /\ call[c].model \in 1..Models + 1
        /\ call[c].exclude \cup ({lease[c]} \ {NoLease}) \in SUBSET Endpoints
    <3>1. call[c] \in CallStates /\ lease[c] \in Endpoints \cup {NoLease}
          BY DEF LeaseTypeOK
    <3> QED BY <1>6, <3>1, EndpointPoolAssumption DEF Rotate, CallStates
  <2>2. call' \in [Calls -> CallStates] /\ \A d \in Calls \ {c} : call'[d] = call[d]
        BY <1>6, <2>1, ProceedType DEF Rotate
  <2> QED BY <1>4, <1>6, <2>2 DEF Rotate
<1>7. CASE FallThrough(c)
  <2>1. call[c].model + 1 \in 1..Models + 1 /\ 1 \in 1..Tries /\ {} \in SUBSET Endpoints
    <3>1. call[c] \in CallStates
          BY DEF LeaseTypeOK
    <3> QED BY <1>7, <3>1, EndpointPoolAssumption DEF FallThrough, Remote, CallStates
  <2>2. call' \in [Calls -> CallStates] /\ \A d \in Calls \ {c} : call'[d] = call[d]
        BY <1>7, <2>1, ProceedType DEF FallThrough
  <2> QED BY <1>4, <1>7, <2>2 DEF FallThrough
<1>8. CASE ProviderFails(c)
  <2>1. call[c].model + 1 \in 1..Models + 1 /\ 1 \in 1..Tries /\ call[c].exclude \in SUBSET Endpoints
    <3>1. call[c] \in CallStates
          BY DEF LeaseTypeOK
    <3> QED BY <1>8, <3>1, EndpointPoolAssumption DEF ProviderFails, Elsewhere, CallStates
  <2>2. /\ call' \in [Calls -> CallStates] /\ call'[c].pc = "try"
        /\ \A d \in Calls \ {c} : call'[d] = call[d]
        BY <1>8, <2>1, ProceedType DEF ProviderFails
  <2> QED BY <1>8, <2>2 DEF ProviderFails, LeaseTypeOK
<1>9. ASSUME ProviderAnswers(c) \/ TokenTimesOut(c) PROVE LeaseTypeOK'
  <2>1. /\ Abandon(c) /\ UNCHANGED <<active, cooling>>
        /\ \E pc \in Over : GoesTo(c, pc)
        BY <1>9 DEF ProviderAnswers, TokenTimesOut
  <2>2. call' \in [Calls -> CallStates] /\ \A d \in Calls \ {c} : call'[d] = call[d]
        BY <2>1, GoesToType
  <2>3. stray' \in [Endpoints -> Nat] /\ lease' = [lease EXCEPT ![c] = NoLease]
        BY <2>1 DEF Abandon, LeaseTypeOK
  <2> QED BY <2>1, <2>2, <2>3, OneCallType DEF LeaseTypeOK
<1>10. CASE Collect(c)
  <2>1. lease[c] = NoLease
        BY <1>10 DEF Collect, LeaseTypeOK
  <2>2. call' \in [Calls -> CallStates] /\ \A d \in Calls \ {c} : call'[d] = call[d]
        BY <1>10, NoCallType DEF Collect, LeaseTypeOK
  <2> QED BY <1>10, <2>1, <2>2 DEF Collect, LeaseTypeOK
<1> QED BY <1>1, <1>3, <1>5, <1>6, <1>7, <1>8, <1>9, <1>10 DEF CallStep

LEMMA LeaseTypesStep == LeaseTypeOK /\ [LeaseNext]_leaseVars => LeaseTypeOK'
<1> SUFFICES ASSUME LeaseTypeOK, [LeaseNext]_leaseVars PROVE LeaseTypeOK'
    OBVIOUS
<1>1. ASSUME NEW c \in Calls, NEW role \in Roles, NEW m \in 1..Models, NEW n \in 1..Models,
             Begin(c, role, m, n)
      PROVE  LeaseTypeOK'
  <2>1. At("acquire", role, m, n) \in CallStates
        BY EndpointPoolAssumption DEF At, CallStates
  <2>2. call' \in [Calls -> CallStates] /\ \A d \in Calls \ {c} : call'[d] = call[d]
        BY <1>1, <2>1 DEF Begin, LeaseTypeOK
  <2>3. lease[c] = NoLease
        BY <1>1 DEF Begin, LeaseTypeOK
  <2> QED BY <1>1, <2>2, <2>3 DEF Begin, LeaseTypeOK
<1>2. ASSUME NEW e \in Endpoints, CoolDown(e) PROVE LeaseTypeOK'
      BY <1>2 DEF CoolDown, LeaseTypeOK
<1>3. CASE UNCHANGED leaseVars
      BY <1>3 DEF leaseVars, LeaseTypeOK
<1> QED BY <1>1, <1>2, <1>3, CallStepTypes DEF LeaseNext

\* Every variable of the pool always holds a value of its kind; a call has a lease
\* only while it prepares or makes a request.
THEOREM LeaseTypeCorrect == LeaseSpec => []LeaseTypeOK
BY InitialLeaseTypes, LeaseTypesStep, PTL DEF LeaseSpec

-----------------------------------------------------------------------------
(* Slots *)

\* The pool counts no more slots taken than there are.
LoadBounded == \A e \in Endpoints : active[e] <= MaxConcurrent[e]

LEMMA FiniteLeases ==
    ASSUME NEW e \in Endpoints
    PROVE  IsFiniteSet(Leases(e)) /\ Cardinality(Leases(e)) \in Nat
<1>1. Leases(e) \subseteq Calls
      BY DEF Leases
<1> QED BY <1>1, EndpointPoolAssumption, FS_Subset, FS_CardinalityType

\* The count of the leases of an endpoint before and after c drops its lease.
LEMMA LeasesDropped ==
    ASSUME LeaseTypeOK, NEW c \in Calls, lease' = [lease EXCEPT ![c] = NoLease], NEW e \in Endpoints
    PROVE  Cardinality(Leases(e)') = IF lease[c] = e THEN Cardinality(Leases(e)) - 1
                                     ELSE Cardinality(Leases(e))
<1>1. Leases(e)' = Leases(e) \ {c}
      BY EndpointPoolAssumption DEF Leases, LeaseTypeOK
<1>2. c \in Leases(e) <=> lease[c] = e
      BY DEF Leases
<1> QED BY <1>1, <1>2, FiniteLeases, FS_RemoveElement

\* An endpoint with a lease out has a slot taken.
LEMMA LeasedIsActive ==
    ASSUME LeaseTypeOK, LeasesCounted, NEW c \in Calls, lease[c] # NoLease
    PROVE  lease[c] \in Endpoints /\ active[lease[c]] > 0
<1>1. lease[c] \in Endpoints /\ c \in Leases(lease[c])
      BY DEF LeaseTypeOK, Leases
<1>2. Cardinality(Leases(lease[c])) # 0 /\ Cardinality(Leases(lease[c])) \in Nat
      BY <1>1, FiniteLeases, FS_EmptySet
<1>3. active[lease[c]] = Cardinality(Leases(lease[c])) + stray[lease[c]] /\ stray[lease[c]] \in Nat
      BY <1>1 DEF LeasesCounted, LeaseTypeOK
<1> QED BY <1>1, <1>2, <1>3, SMT

\* A release gives back the one slot of the lease, and nothing without a lease.
LEMMA ReleaseCounts ==
    ASSUME LeaseTypeOK, LeasesCounted, NEW c \in Calls, NEW ok \in BOOLEAN,
           ReleaseEndpoint(c, ok), stray' = stray
    PROVE  LeasesCounted' /\ \A e \in Endpoints : active'[e] <= active[e]
<1>1. lease' = [lease EXCEPT ![c] = NoLease]
      BY ReleaseType
<1>2. CASE lease[c] = NoLease
  <2>1. active' = active /\ lease' = lease
        BY <1>1, <1>2 DEF ReleaseEndpoint, Returned, LeaseTypeOK
  <2> QED BY <2>1 DEF LeasesCounted, Leases, LeaseTypeOK
<1>3. CASE lease[c] # NoLease
  <2>1. lease[c] \in Endpoints /\ active[lease[c]] > 0
        BY <1>3, LeasedIsActive
  <2>2. active' = [active EXCEPT ![lease[c]] = IF @ > 0 THEN @ - 1 ELSE 0]
        BY <1>3 DEF ReleaseEndpoint, Returned, Released
  <2>3. \A e \in Endpoints : active'[e] = IF lease[c] = e THEN active[e] - 1 ELSE active[e]
        BY <2>1, <2>2 DEF LeaseTypeOK
  <2>4. ASSUME NEW e \in Endpoints
        PROVE  active'[e] = Cardinality(Leases(e)') + stray'[e] /\ active'[e] <= active[e]
    <3>1. active[e] = Cardinality(Leases(e)) + stray[e] /\ active[e] \in Nat /\ stray[e] \in Nat
          BY DEF LeasesCounted, LeaseTypeOK
    <3>2. Cardinality(Leases(e)') = IF lease[c] = e THEN Cardinality(Leases(e)) - 1
                                    ELSE Cardinality(Leases(e))
          BY <1>1, LeasesDropped
    <3> QED BY <2>3, <3>1, <3>2, FiniteLeases, SMT
  <2> QED BY <2>4 DEF LeasesCounted
<1> QED BY <1>2, <1>3

\* A call that ends with its lease makes the slot a stray one.
LEMMA AbandonCounts ==
    ASSUME LeaseTypeOK, LeasesCounted, NEW c \in Calls, Abandon(c), active' = active
    PROVE  LeasesCounted'
<1>1. lease' = [lease EXCEPT ![c] = NoLease]
      BY DEF Abandon
<1>2. ASSUME NEW e \in Endpoints PROVE active'[e] = Cardinality(Leases(e)') + stray'[e]
  <2>1. active[e] = Cardinality(Leases(e)) + stray[e] /\ stray[e] \in Nat
        BY DEF LeasesCounted, LeaseTypeOK
  <2>2. stray'[e] = IF lease[c] = e THEN stray[e] + 1 ELSE stray[e]
        BY EndpointPoolAssumption DEF Abandon, LeaseTypeOK
  <2>3. Cardinality(Leases(e)') = IF lease[c] = e THEN Cardinality(Leases(e)) - 1
                                  ELSE Cardinality(Leases(e))
        BY <1>1, LeasesDropped
  <2> QED BY <2>1, <2>2, <2>3, FiniteLeases, SMT
<1> QED BY <1>2 DEF LeasesCounted

\* A grant takes one free slot of one endpoint.
LEMMA AcquireCounts ==
    ASSUME LeaseTypeOK, LeasesCounted, NEW c \in Calls, Acquire(c)
    PROVE  LeasesCounted' /\ (LoadBounded => LoadBounded')
<1>1. PICK e \in Endpoints : /\ active[e] < MaxConcurrent[e]
                             /\ active' = [active EXCEPT ![e] = @ + 1]
                             /\ lease' = [lease EXCEPT ![c] = e]
                             /\ stray' = stray
      BY DEF Acquire, LeastLoaded, Offered, Candidates, HasSlot
<1>2. lease[c] = NoLease
      BY DEF Acquire, LeaseTypeOK
<1>3. ASSUME NEW f \in Endpoints PROVE active'[f] = Cardinality(Leases(f)') + stray'[f]
  <2>1. active[f] = Cardinality(Leases(f)) + stray[f] /\ stray[f] \in Nat /\ active[f] \in Nat
        BY DEF LeasesCounted, LeaseTypeOK
  <2>2. CASE f = e
    <3>1. Leases(f)' = Leases(f) \cup {c} /\ c \notin Leases(f)
          BY <1>1, <1>2, <2>2, EndpointPoolAssumption DEF Leases, LeaseTypeOK
    <3>2. Cardinality(Leases(f)') = Cardinality(Leases(f)) + 1
          BY <3>1, FiniteLeases, FS_AddElement
    <3>3. active'[f] = active[f] + 1
          BY <1>1, <2>2 DEF LeaseTypeOK
    <3> QED BY <1>1, <2>1, <3>2, <3>3, FiniteLeases, SMT
  <2>3. CASE f # e
    <3>1. Leases(f)' = Leases(f)
          BY <1>1, <1>2, <2>3, EndpointPoolAssumption DEF Leases, LeaseTypeOK
    <3>2. active'[f] = active[f]
          BY <1>1, <2>3 DEF LeaseTypeOK
    <3> QED BY <1>1, <2>1, <3>1, <3>2
  <2> QED BY <2>2, <2>3
<1>4. ASSUME LoadBounded, NEW f \in Endpoints PROVE active'[f] <= MaxConcurrent[f]
  <2>1. active[f] <= MaxConcurrent[f] /\ active[f] \in Nat /\ MaxConcurrent[f] \in Nat
        BY <1>4, EndpointPoolAssumption DEF LoadBounded, LeaseTypeOK
  <2>2. active'[f] = IF f = e THEN active[f] + 1 ELSE active[f]
        BY <1>1 DEF LeaseTypeOK
  <2> QED BY <1>1, <2>1, <2>2, SMT
<1> QED BY <1>3, <1>4 DEF LeasesCounted, LoadBounded

\* No step makes the slots of an endpoint differ from the leases, or exceed its limit.
LEMMA SlotsStep ==
    LeaseTypeOK /\ LeasesCounted /\ LoadBounded /\ [LeaseNext]_leaseVars
      => LeasesCounted' /\ LoadBounded'
<1> SUFFICES ASSUME LeaseTypeOK, LeasesCounted, LoadBounded, [LeaseNext]_leaseVars
             PROVE  LeasesCounted' /\ LoadBounded'
    OBVIOUS
<1>1. ASSUME NEW c \in Calls, Acquire(c) PROVE LeasesCounted' /\ LoadBounded'
      BY <1>1, AcquireCounts
<1>2. ASSUME NEW c \in Calls, NEW ok \in BOOLEAN, ReleaseEndpoint(c, ok), stray' = stray
      PROVE  LeasesCounted' /\ LoadBounded'
  <2>1. LeasesCounted' /\ \A e \in Endpoints : active'[e] <= active[e]
        BY <1>2, ReleaseCounts
  <2>2. ASSUME NEW e \in Endpoints PROVE active'[e] <= MaxConcurrent[e]
    <3>1. /\ active'[e] \in Nat /\ active[e] \in Nat /\ MaxConcurrent[e] \in Nat
          /\ active[e] <= MaxConcurrent[e] /\ active'[e] <= active[e]
          BY <1>2, <2>1, ReleaseType, EndpointPoolAssumption DEF LoadBounded, LeaseTypeOK
    <3> QED BY <3>1, SMT
  <2> QED BY <2>1, <2>2 DEF LoadBounded
<1>3. ASSUME NEW c \in Calls,
             GiveUp(c) \/ Answered(c) \/ RateLimited(c) \/ Cancelled(c) \/ Rotate(c) \/ FallThrough(c)
      PROVE  LeasesCounted' /\ LoadBounded'
  <2>1. stray' = stray /\ \E ok \in BOOLEAN : ReleaseEndpoint(c, ok)
        BY <1>3 DEF GiveUp, Answered, RateLimited, Cancelled, Rotate, FallThrough
  <2> QED BY <1>2, <2>1
<1>4. ASSUME NEW c \in Calls, ProviderAnswers(c) \/ TokenTimesOut(c)
      PROVE  LeasesCounted' /\ LoadBounded'
  <2>1. Abandon(c) /\ active' = active
        BY <1>4 DEF ProviderAnswers, TokenTimesOut
  <2> QED BY <2>1, AbandonCounts DEF LoadBounded
<1>5. ASSUME UNCHANGED <<active, lease, stray>> PROVE LeasesCounted' /\ LoadBounded'
      BY <1>5 DEF LeasesCounted, LoadBounded, Leases
<1>6. ASSUME NEW c \in Calls,
             \/ AcquireTimesOut(c) \/ AcquireRefused(c) \/ TakeToken(c) \/ ProviderFails(c)
             \/ Collect(c) \/ \E role \in Roles, m, n \in 1..Models : Begin(c, role, m, n)
      PROVE  UNCHANGED <<active, lease, stray>>
      BY <1>6 DEF AcquireTimesOut, AcquireRefused, TakeToken, ProviderFails, Collect, Begin
<1>7. ASSUME UNCHANGED leaseVars \/ \E e \in Endpoints : CoolDown(e)
      PROVE  UNCHANGED <<active, lease, stray>>
      BY <1>7 DEF leaseVars, CoolDown
<1> QED BY <1>1, <1>3, <1>4, <1>5, <1>6, <1>7 DEF LeaseNext, CallStep

LEMMA InitialSlots == LeaseInit => LeasesCounted /\ LoadBounded
<1> SUFFICES ASSUME LeaseInit PROVE LeasesCounted /\ LoadBounded
    OBVIOUS
<1>1. \A e \in Endpoints : Leases(e) = {}
      BY EndpointPoolAssumption DEF LeaseInit, Leases
<1>2. LeasesCounted
      BY <1>1, FS_EmptySet DEF LeaseInit, LeasesCounted
<1>3. \A e \in Endpoints : active[e] = 0 /\ MaxConcurrent[e] \in Nat
      BY EndpointPoolAssumption DEF LeaseInit
<1>4. LoadBounded
      BY <1>3, SMT DEF LoadBounded
<1> QED BY <1>2, <1>4

LEMMA SlotsInvariant == LeaseSpec => [](LeasesCounted /\ LoadBounded)
<1>1. LeaseTypeOK /\ (LeasesCounted /\ LoadBounded) /\ [LeaseNext]_leaseVars
        => (LeasesCounted /\ LoadBounded)'
      BY SlotsStep
<1> QED BY InitialSlots, LeaseTypeCorrect, <1>1, PTL DEF LeaseSpec

\* The load the pool dispatches by is the truth: the slots taken are those of the
\* calls that hold a lease and of those that ended without a release.
THEOREM LoadIsTruth == LeaseSpec => []LeasesCounted
BY SlotsInvariant, PTL

\* An endpoint never has more leases out than max_concurrent, whoever calls.
THEOREM CapacityRespected == LeaseSpec => []WithinCapacity
<1>1. LeaseTypeOK /\ LeasesCounted /\ LoadBounded => WithinCapacity
  <2> SUFFICES ASSUME LeaseTypeOK, LeasesCounted, LoadBounded, NEW e \in Endpoints
               PROVE  Cardinality(Leases(e)) <= MaxConcurrent[e]
      BY DEF WithinCapacity
  <2>1. active[e] = Cardinality(Leases(e)) + stray[e] /\ active[e] <= MaxConcurrent[e]
        BY DEF LeasesCounted, LoadBounded
  <2>2. stray[e] \in Nat /\ active[e] \in Nat /\ MaxConcurrent[e] \in Nat
        BY EndpointPoolAssumption DEF LeaseTypeOK
  <2> QED BY <2>1, <2>2, FiniteLeases, SMT
<1> QED BY SlotsInvariant, LeaseTypeCorrect, <1>1, PTL

-----------------------------------------------------------------------------
(* BOTH *)

\* An invocation has calls, a turn and a cause only while its worker waits for it; a
\* call beside the first only when it hedges.
CrewTypeOK ==
    /\ way \in [Threads -> {"whole", "sliced", "hedged"}]
    /\ first \in [Threads -> Calls \cup {Nobody}]
    /\ second \in [Threads -> Calls \cup {Nobody}]
    /\ turn \in [Threads -> 1..Models + 1]
    /\ why \in [Threads -> Causes]
    /\ \A w \in Threads : first[w] # Nobody \/ second[w] # Nobody => at[w] = "invoke"

\* The scheduler is prepared for whatever becomes of an invocation.
LEMMA VerdictOutcome ==
    ASSUME CrewTypeOK, NEW w \in Threads
    PROVE  Verdict(w) \subseteq Outcomes /\ OutcomesOf("ok") \subseteq Outcomes
<1>1. why[w] \in Causes
      BY DEF CrewTypeOK
<1>2. \A o \in Causes \cup {"ok"} : OutcomesOf(o) \subseteq Outcomes
      BY DEF OutcomesOf, Outcomes, Causes, Over
<1> QED BY <1>1, <1>2 DEF Verdict, Outcomes

\* However an invocation ends, it ends for the scheduler, and leaves its calls.
LEMMA EndSteps ==
    ASSUME CrewTypeOK, NEW w \in Threads,
           AllFailed(w) \/ OwnWall(w) \/ HardTimeout(w) \/ \E c \in Calls : CallAnswers(w, c)
    PROVE  \E o \in Outcomes : Ends(w, o)
<1>1. CASE AllFailed(w)
      BY <1>1, VerdictOutcome DEF AllFailed
<1>2. CASE OwnWall(w) \/ HardTimeout(w)
      BY <1>2 DEF OwnWall, HardTimeout, Outcomes
<1>3. ASSUME NEW c \in Calls, CallAnswers(w, c) PROVE \E o \in Outcomes : Ends(w, o)
      BY <1>3, VerdictOutcome DEF CallAnswers
<1> QED BY <1>1, <1>2, <1>3

\* Every step is a step of the scheduler, or one that leaves it alone.
LEMMA PoolStep == CrewTypeOK /\ Next => [PoolNext]_poolVars
<1> SUFFICES ASSUME CrewTypeOK, Next PROVE PoolNext \/ UNCHANGED poolVars
    OBVIOUS
<1>1. ASSUME NEW w \in Threads, StartInvocation(w) PROVE PoolNext
      BY <1>1 DEF StartInvocation, PoolNext
<1>2. ASSUME NEW w \in Threads,
             AllFailed(w) \/ OwnWall(w) \/ HardTimeout(w) \/ \E c \in Calls : CallAnswers(w, c)
      PROVE  PoolNext
      BY <1>2, EndSteps DEF Ends, PoolNext
<1>3. ASSUME NEW w \in Threads,
             \/ SkipModel(w) \/ SliceOver(w)
             \/ \E c \in Calls : StartCall(w, c) \/ StartHedge(w, c) \/ CallFails(w, c)
      PROVE  UNCHANGED poolVars
      BY <1>3 DEF SkipModel, SliceOver, StartCall, StartHedge, NextCall, CallFails
<1>4. ASSUME NEW c \in Calls, OrphanEnds(c) PROVE UNCHANGED poolVars
      BY <1>4 DEF OrphanEnds
<1> QED BY <1>1, <1>2, <1>3, <1>4 DEF Next, InvocationStep, PoolNext

\* The next call takes a seat of an invocation that runs.
LEMMA NextCallStep ==
    ASSUME CrewTypeOK, NEW w \in Threads, NEW c \in Calls, NextCall(w, c)
    PROVE  /\ at[w] = "invoke"
           /\ turn' \in [Threads -> 1..Models + 1]
           /\ \E m, n \in 1..Models : Begin(c, Role, m, n)
           /\ UNCHANGED <<poolVars, way, why>>
<1>1. PICK n \in 1..Models : /\ at[w] = "invoke"
                             /\ turn[w] \in 1..Models
                             /\ Begin(c, Role, turn[w], n)
                             /\ turn' = [turn EXCEPT ![w] = n + 1]
  <2>1. turn[w] \in 1..Models + 1 /\ turn[w] <= Models
        BY DEF NextCall, CrewTypeOK
  <2>2. turn[w] \in 1..Models /\ Models \in 1..Models
        BY <2>1, EndpointPoolAssumption, SMT
  <2> QED BY <2>2 DEF NextCall
<1>2. n + 1 \in 1..Models + 1
      BY EndpointPoolAssumption, SMT
<1>3. turn' \in [Threads -> 1..Models + 1]
      BY <1>1, <1>2 DEF CrewTypeOK
<1> QED BY <1>1, <1>3 DEF NextCall

\* The invocations keep their kinds.
LEMMA CrewStep == PoolTypeOK /\ LeaseTypeOK /\ CrewTypeOK /\ [Next]_vars => CrewTypeOK'
<1> SUFFICES ASSUME PoolTypeOK, LeaseTypeOK, CrewTypeOK, [Next]_vars PROVE CrewTypeOK'
    OBVIOUS
<1>1. ASSUME NEW w \in Threads, StartInvocation(w) PROVE CrewTypeOK'
  <2>1. /\ at' = [at EXCEPT ![w] = "invoke"]
        /\ \E y \in Ways : way' = [way EXCEPT ![w] = y]
        /\ UNCHANGED <<first, second, turn, why>>
        BY <1>1 DEF StartInvocation, Invoke, Goes
  <2>2. way' \in [Threads -> {"whole", "sliced", "hedged"}]
        BY <2>1, DispatchAssumption DEF CrewTypeOK
  <2> QED BY <2>1, <2>2 DEF CrewTypeOK, PoolTypeOK
<1>2. ASSUME NEW w \in Threads,
             AllFailed(w) \/ OwnWall(w) \/ HardTimeout(w) \/ \E c \in Calls : CallAnswers(w, c)
      PROVE  CrewTypeOK'
  <2>1. /\ at' = [at EXCEPT ![w] = "handle"]
        /\ first' = [first EXCEPT ![w] = Nobody]
        /\ second' = [second EXCEPT ![w] = Nobody]
        /\ turn' = [turn EXCEPT ![w] = 1]
        /\ why' = [why EXCEPT ![w] = "none"]
        /\ way' = way
        BY <1>2, EndSteps DEF Ends, InvokeEnds, Goes
  <2>2. turn' \in [Threads -> 1..Models + 1] /\ why' \in [Threads -> Causes]
        BY <2>1, EndpointPoolAssumption DEF CrewTypeOK, Causes
  <2> QED BY <2>1, <2>2 DEF CrewTypeOK, PoolTypeOK
<1>3. ASSUME NEW w \in Threads, NEW c \in Calls, StartCall(w, c) \/ StartHedge(w, c) PROVE CrewTypeOK'
  <2>1. /\ NextCall(w, c)
        /\ \/ first' = [first EXCEPT ![w] = c] /\ second' = second
           \/ first' = first /\ second' = [second EXCEPT ![w] = c]
        BY <1>3 DEF StartCall, StartHedge
  <2>2. at[w] = "invoke" /\ turn' \in [Threads -> 1..Models + 1] /\ UNCHANGED <<at, way, why>>
        BY <2>1, NextCallStep DEF poolVars
  <2> QED BY <2>1, <2>2 DEF CrewTypeOK
<1>4. ASSUME NEW w \in Threads, SkipModel(w) PROVE CrewTypeOK'
  <2>1. turn[w] + 1 \in 1..Models + 1
        BY <1>4, EndpointPoolAssumption DEF SkipModel, CrewTypeOK
  <2> QED BY <1>4, <2>1 DEF SkipModel, CrewTypeOK, poolVars
<1>5. ASSUME NEW w \in Threads, NEW c \in Calls \cup {Nobody}, NEW o \in Causes, Vacate(w, c),
             why' = [why EXCEPT ![w] = o], UNCHANGED <<at, way, turn>>
      PROVE  CrewTypeOK'
      BY <1>5 DEF Vacate, CrewTypeOK
<1>6. ASSUME NEW w \in Threads, SliceOver(w) PROVE CrewTypeOK'
  <2>1. first[w] \in Calls \cup {Nobody} /\ "slice" \in Causes
        BY DEF CrewTypeOK, Causes
  <2> QED BY <1>5, <1>6, <2>1 DEF SliceOver, poolVars
<1>7. ASSUME NEW w \in Threads, NEW c \in Calls, CallFails(w, c) PROVE CrewTypeOK'
  <2>1. (IF call[c].pc = "ok" THEN "none" ELSE call[c].pc) \in Causes
        BY <1>7 DEF CallFails, Collect, Causes
  <2> QED BY <1>5, <1>7, <2>1 DEF CallFails, poolVars
<1>8. ASSUME NEW w \in Threads, WorkerStep(w), UNCHANGED crewVars PROVE CrewTypeOK'
  <2>1. at[w] # "invoke" /\ \E to \in Places : at' = [at EXCEPT ![w] = to]
        BY <1>8 DEF WorkerStep, CheckStop, Pull, PullNothing, LeaveIfDrained, Assign, HandleOk,
                    HandleLimited, HandleRetry, HandleFailed, BackoffEnds, Requeue, Goes, Places
  <2> QED BY <1>8, <2>1 DEF PoolTypeOK, CrewTypeOK, crewVars
<1>9. ASSUME UNCHANGED <<at, crewVars>> PROVE CrewTypeOK'
      BY <1>9 DEF CrewTypeOK, crewVars
<1>10. MainStep => UNCHANGED at
       BY DEF MainStep, WaveDone, WallHit, StopWorkers, CloseQueue, Return
<1> QED BY <1>1, <1>2, <1>3, <1>4, <1>6, <1>7, <1>8, <1>9, <1>10
        DEF Next, InvocationStep, OrphanEnds, vars, poolVars

\* Every step is a step of the endpoint pool, or one that leaves it alone.
LEMMA LeaseStep == CrewTypeOK /\ Next => [LeaseNext]_leaseVars
<1> SUFFICES ASSUME CrewTypeOK, Next PROVE LeaseNext \/ UNCHANGED leaseVars
    OBVIOUS
<1>1. ASSUME NEW w \in Threads, NEW c \in Calls, StartCall(w, c) \/ StartHedge(w, c) PROVE LeaseNext
  <2>1. \E m, n \in 1..Models : Begin(c, Role, m, n)
        BY <1>1, NextCallStep DEF StartCall, StartHedge
  <2> QED BY <2>1, DispatchAssumption DEF LeaseNext
<1>2. ASSUME NEW w \in Threads, NEW c \in Calls, CallAnswers(w, c) \/ CallFails(w, c) PROVE LeaseNext
      BY <1>2 DEF CallAnswers, CallFails, LeaseNext
<1>3. ASSUME NEW w \in Threads,
             \/ StartInvocation(w) \/ SkipModel(w) \/ SliceOver(w) \/ AllFailed(w) \/ OwnWall(w)
             \/ HardTimeout(w)
      PROVE  UNCHANGED leaseVars
      BY <1>3 DEF StartInvocation, SkipModel, SliceOver, AllFailed, OwnWall, HardTimeout
<1>4. ASSUME NEW c \in Calls, OrphanEnds(c) PROVE LeaseNext
      BY <1>4 DEF OrphanEnds, LeaseNext
<1> QED BY <1>1, <1>2, <1>3, <1>4 DEF Next, InvocationStep, LeaseNext

LEMMA BothInvariant == Spec => [](PoolTypeOK /\ LeaseTypeOK /\ CrewTypeOK)
<1>1. Init => PoolTypeOK /\ LeaseTypeOK /\ CrewTypeOK
  <2>1. Init => PoolTypeOK /\ LeaseTypeOK
        BY InitialTypes, InitialLeaseTypes DEF Init
  <2>2. ASSUME Init PROVE CrewTypeOK
    <3>1. way \in [Threads -> {"whole", "sliced", "hedged"}]
          BY <2>2, DispatchAssumption DEF Init
    <3>2. 1 \in 1..Models + 1 /\ "none" \in Causes
          BY EndpointPoolAssumption DEF Causes
    <3> QED BY <2>2, <3>1, <3>2 DEF Init, CrewTypeOK
  <2> QED BY <2>1, <2>2
<1>2. PoolTypeOK /\ LeaseTypeOK /\ CrewTypeOK /\ [Next]_vars => (PoolTypeOK /\ LeaseTypeOK /\ CrewTypeOK)'
  <2>1. CrewTypeOK /\ [Next]_vars => [PoolNext]_poolVars
        BY PoolStep DEF vars
  <2>2. CrewTypeOK /\ [Next]_vars => [LeaseNext]_leaseVars
        BY LeaseStep DEF vars
  <2> QED BY <2>1, <2>2, TypesStep, LeaseTypesStep, CrewStep
<1> QED BY <1>1, <1>2, PTL DEF Spec

\* The composition is an implementation of the scheduler alone: the endpoint pool,
\* and calls that live on after a slice, a hedge or a wall, only choose among the
\* outcomes that the scheduler is prepared for.
THEOREM ImplementsPool == Spec => PoolSpec
<1>1. Init => PoolInit
      BY DEF Init
<1>2. CrewTypeOK /\ [Next]_vars => [PoolNext]_poolVars
      BY PoolStep DEF vars
<1> QED BY BothInvariant, <1>1, <1>2, PTL DEF Spec, PoolSpec

\* ... and of the endpoint pool alone: the scheduler starts calls as any caller may.
THEOREM ImplementsLeases == Spec => LeaseSpec
<1>1. Init => LeaseInit
      BY DEF Init
<1>2. CrewTypeOK /\ [Next]_vars => [LeaseNext]_leaseVars
      BY LeaseStep DEF vars
<1> QED BY BothInvariant, <1>1, <1>2, PTL DEF Spec, LeaseSpec

\* The calls that sit in the seats f of the threads in S are no more than those.
LEMMA SeatedCount ==
    ASSUME NEW S \in SUBSET Threads, NEW f, f \in [Threads -> Calls \cup {Nobody}]
    PROVE  /\ IsFiniteSet(S) /\ Cardinality(S) \in Nat
           /\ IsFiniteSet({f[w] : w \in S})
           /\ Cardinality({f[w] : w \in S}) \in Nat
           /\ Cardinality({f[w] : w \in S}) <= Cardinality(S)
<1>1. IsFiniteSet(S) /\ Cardinality(S) \in Nat
      BY CapacityPoolAssumption, FS_Subset, FS_CardinalityType
<1> DEFINE T == {f[w] : w \in S}
           g == [w \in S |-> f[w]]
<1>2. g \in Surjection(S, T)
      BY DEF Surjection
<1> HIDE DEF g, T
<1>3. IsFiniteSet(T) /\ Cardinality(T) <= Cardinality(S)
      BY <1>1, <1>2, FS_Surjection
<1>4. Cardinality(T) \in Nat
      BY <1>3, FS_CardinalityType
<1> QED BY <1>1, <1>3, <1>4 DEF T

\* The members of three finite sets, counted.
LEMMA ThreeParts ==
    ASSUME NEW A, NEW B, NEW C, NEW S, IsFiniteSet(A), IsFiniteSet(B), IsFiniteSet(C),
           S \subseteq A \cup B \cup C
    PROVE  Cardinality(S) \in Nat /\ Cardinality(S) <= Cardinality(A) + Cardinality(B) + Cardinality(C)
<1>1. /\ IsFiniteSet(A \cup B)
      /\ Cardinality(A \cup B) = Cardinality(A) + Cardinality(B) - Cardinality(A \cap B)
      BY FS_Union
<1>2. /\ IsFiniteSet(A \cup B \cup C)
      /\ Cardinality(A \cup B \cup C)
           = Cardinality(A \cup B) + Cardinality(C) - Cardinality((A \cup B) \cap C)
      BY <1>1, FS_Union
<1>3. IsFiniteSet(S) /\ Cardinality(S) <= Cardinality(A \cup B \cup C)
      BY <1>2, FS_Subset
<1>4. /\ IsFiniteSet(A \cap B) /\ IsFiniteSet((A \cup B) \cap C)
      BY <1>1, FS_Intersection
<1>5. /\ Cardinality(S) \in Nat /\ Cardinality(A) \in Nat /\ Cardinality(B) \in Nat
      /\ Cardinality(C) \in Nat /\ Cardinality(A \cup B) \in Nat
      /\ Cardinality(A \cup B \cup C) \in Nat /\ Cardinality(A \cap B) \in Nat
      /\ Cardinality((A \cup B) \cap C) \in Nat
      BY <1>1, <1>2, <1>3, <1>4, FS_CardinalityType
<1> QED BY <1>1, <1>2, <1>3, <1>5, SMT

\* A permit stands for one lease, and for a second while its invocation hedges; every
\* other lease is one of a call that a slice, a hedge or a wall has left behind.
THEOREM GateBoundsLoad == Spec => []GateBounds
<1>1. PoolInit => PermitsBack
      BY InitialPermits
<1>2. PoolTypeOK /\ PermitsBack /\ [PoolNext]_poolVars => PermitsBack'
      BY PermitsStep
<1>3. PoolTypeOK /\ LeaseTypeOK /\ CrewTypeOK /\ PermitsBack => GateBounds
  <2> SUFFICES ASSUME PoolTypeOK, LeaseTypeOK, CrewTypeOK, PermitsBack PROVE GateBounds
      OBVIOUS
  <2> DEFINE alone  == {first[w] : w \in Invoking}
             beside == {second[w] : w \in Hedging}
  <2>1. Leased \subseteq alone \cup beside \cup LeftBehind
    <3>1. \A c \in Leased : c \in Calls /\ call[c].pc # "idle"
          BY DEF LeaseTypeOK, Leased
    <3>2. \A w \in Threads : first[w] \in Calls => w \in Invoking
          BY DispatchAssumption DEF CrewTypeOK, Invoking
    <3>3. \A w \in Threads : second[w] \in Calls => w \in Hedging
          BY DispatchAssumption DEF Hedging
    <3> QED BY <3>1, <3>2, <3>3 DEF LeftBehind
  <2>2. /\ Invoking \in SUBSET Threads /\ Hedging \in SUBSET Threads
        /\ first \in [Threads -> Calls \cup {Nobody}] /\ second \in [Threads -> Calls \cup {Nobody}]
        BY DEF Invoking, Hedging, CrewTypeOK
  <2>3. /\ IsFiniteSet(alone) /\ Cardinality(alone) \in Nat
        /\ Cardinality(alone) <= Cardinality(Invoking) /\ Cardinality(Invoking) \in Nat
        BY <2>2, SeatedCount
  <2>4. /\ IsFiniteSet(beside) /\ Cardinality(beside) \in Nat
        /\ Cardinality(beside) <= Cardinality(Hedging) /\ Cardinality(Hedging) \in Nat
        BY <2>2, SeatedCount
  <2>5. IsFiniteSet(LeftBehind) /\ Cardinality(LeftBehind) \in Nat
    <3>1. LeftBehind \subseteq Calls
          BY DEF LeftBehind
    <3> QED BY <3>1, EndpointPoolAssumption, FS_Subset, FS_CardinalityType
  <2> HIDE DEF alone, beside
  <2>6. /\ Cardinality(Leased) \in Nat
        /\ Cardinality(Leased) <= Cardinality(alone) + Cardinality(beside) + Cardinality(LeftBehind)
        BY <2>1, <2>3, <2>4, <2>5, ThreeParts
  <2>7. permits \in Nat /\ Capacity \in Nat /\ permits + Cardinality(Invoking) = Capacity
        BY CapacityPoolAssumption DEF PoolTypeOK, PermitsBack
  <2>8. Cardinality(Leased) <= (Capacity - permits) + Cardinality(Hedging) + Cardinality(LeftBehind)
        BY <2>3, <2>4, <2>5, <2>6, <2>7, SMT
  <2> QED BY <2>8 DEF GateBounds
<1> QED BY ImplementsPool, BothInvariant, <1>1, <1>2, <1>3, PTL DEF PoolSpec
=============================================================================

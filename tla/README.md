# EcoRoute AI: a TLA+ model of the document-processing system

The repository is a document-RAG product: a Next.js frontend, a FastAPI API with a
durable job worker (`backend/src/`), a separate carbon router and an MCP server. A user
uploads a document; the API stores it and enqueues a *job*; a worker claims the job and
runs a long pipeline of model calls in a thread of its own: the file is cut into chunks,
each chunk is summarised, the summaries are validated, escalated and compiled into one.
The summary is published as early as it can be and completed by background services; the
page polls, and a chat answers questions from the stored chunks. What is hard to get right
is in the joints: several threads and processes write one row through per-process caches, a
pipeline may outlive the worker that gave up on it, model calls hang, are hedged and
compete for endpoint slots, and the browser applies answers that overtake each other.
This directory models these parts, checks them with TLC and proves some of them with TLAPS.

Source paths below are relative to `src/backend/src/`, or to `src/frontend/` for files
that end in `.ts` or `.tsx`.

## 1. Inventory

| Component | State it keeps | What is hard | What makes it correct | Modules |
|---|---|---|---|---|
| **Job store and durable queue** (`db/jobs.py`) | the `jobs` table; per process `JOB_STATUSES`, `_CANCEL_REQUESTS` | a cached snapshot is persisted as a whole; a guard is a read and then a commit; a failed commit is swallowed | finished jobs stay finished, one runner per job, every enqueued job ends | `JobQueue` |
| **Worker loop, runner** (`worker/`) | loop position, supervised thread, heartbeat | restart under the same id; runtime limit and cancellation while the pipeline goes on | a cancelled job frees its worker; nothing is run twice | `JobQueue` |
| **Result state store** (`core/result_state_store.py`) | revisioned result payload | merge, compare-and-swap and caches in several processes | an acknowledged patch stays, nothing goes back | `ResultStore` |
| **Capacity scheduler** (`core/execution_scheduler.py`) | queue, semaphore, counters, results | abandoned invocations, back-off sleeps, closing | every task is settled once, the wave returns | `CapacityPool` |
| **Model endpoint pool** (`agents/nim_endpoint_pool.py`) | load and cool-down per endpoint | every way for a call to end must release, once | counts are true and within each endpoint's limit; the gate bounds all but what is left behind | `EndpointPool`, `Dispatch` |
| **Document DAG and repair** (`core/pipeline_executor.py`, `core/dag_scheduler.py`, `core/repair_queue.py`) | nodes with text and state | zombie attempts, ceilings, fallback, repair | no chunk is dropped, no stale text, the document returns | `DocumentDag` |
| **Compile planning** (`core/pipeline_dag.py`, `core/hierarchy.py`, `core/planning.py`) | none | budgets, fan-in, layers | the graph is a tree over all chunks | `CompilePlan` |
| **Model clients and hedging** (`agents/models.py`) | passes, attempts, cancel events | hedges, slices, hangs, one deadline | no live success is thrown away, nothing is lost | `HedgedCompile`, `Dispatch` |
| **Progress reporting** (`perf/progress.py`) | active cycle, throttle | lines of concurrent passes and older cycles | the gate only goes forward | `HedgedCompile` |
| **Pipeline workflow** (`core/orchestrator.py` and the agents it calls) | workflow state | incremental re-validation, escalation, many fallbacks | verdicts are current, an unflagged summary is complete | `StagedGraph`, `Routing` |
| **Chunking and structure** (`agents/triage.py`, `structure/`, `chunking/service.py`) | blocks, sections, chunks | merging, splitting and packing in passes | every block is in one chunk, once | `Sections`, `Chunking` |
| **Carbon accounting** (`carbon/accounting.py`) | none | routing, telemetry and escalations know a chunk's model at different times | every chunk is charged once, as it was run | `Routing` |
| **Retrieval and document stores** (`retrieval/`, `memory/`, `context/assembler.py`) | rows, vectors, BM25 file, caches per process | stale caches, vectors by place, purge in between | a searchable document is found; vectors match texts | `Retrieval`, `DocumentIndex`, `QueryPath` |
| **Guest sessions, conversations** (`db/guests.py`, `db/conversations.py`) | session, its documents, jobs, chats | clean-up races uploads, worker and upgrade | nothing of a user or of a running job is purged | `GuestLifecycle` |
| **Results page** (`page.tsx`, `finalized-metrics-store.ts`) | shown result, snapshot | awaited answers that overtake each other | what is shown only grows, the final result is shown | `MetricsStore`, `ResultsPage` |
| **Document chat** (`document-chat.tsx`, `agents/response_agent.py`) | messages, stream, stored copies | abort, wall, fallback, painter, a new mount per document | answers reach their own question, loading ends | `AnswerStream`, `ChatPage` |
| Accounts and tokens, evaluation, carbon router service, MCP server | | | | not modelled (section 9) |

How they interact: API and worker processes share the database, the object store and
Chroma; within a process all threads share `JOB_STATUSES`, the endpoint pool, the BM25
index and the chunk cache. The runner starts the pipeline and the heartbeat as threads; the
pipeline starts one thread of background services. A stage of the pipeline is a *wave* of
the capacity scheduler, whose worker function makes calls through the endpoint pool. The
tab talks to the API only.

The hazards of this code, each at its line and with the properties aimed at it, are
listed under `hazards` in `PROJECT.json`.

## 2. Modules and how they compose

    JobQueue                                     row, caches, worker, runner, API
    ResultStore     implements ResultRegister    the result of one job
    CapacityPool \
    EndpointPool  > Dispatch                     implements both (proved)
    DocumentDag     uses what CapacityPool!ReturnsAll promises, and a tree (CompilePlan)
    Sections > Chunking \
    CompilePlan          > StagedGraph           one document, file to report
    Routing             /
    HedgedCompile                                one compile of one list of summaries
    Retrieval > DocumentIndex > QueryPath        questions to one document
    MetricsStore > ResultsPage                   one tab, two jobs
    AnswerStream > ChatPage                      one chat, server and tab
    GuestLifecycle                               one guest session

`>` is EXTENDS; `InOrder`, the positions a loop keeps, is used by `DocumentIndex` and `ChatPage`. Each `MC...` module
instantiates the module it is named after; `CapacityPool`, `ChatPage` and `GuestLifecycle` need no such module, their `.cfg` gives all values. The theorems about a module are in the `...Proofs` module of its name, but those about
`CapacityPool`, `EndpointPool` and `Dispatch` in `DispatchProofs`, about `ResultStore` and `ResultsPage` in `ResultProofs`, and about
`DocumentIndex` and `ChatPage` in `QuestionProofs`. Every type invariant is proved, alone or as a conjunct of an inductive
invariant, but `StagedTypeOK`, which documents the shape of the state and holds on the instance below when added to the `.cfg`.

### Plan

Done: everything above. What a continuation would take up, in order:

1. The lemmas of `PlanIsTree` and `TextKeptOnce` about one call of `Combine`, `Cut` and `Batches`; what
   the folds over them compute needs induction (section 6).
2. An abstract job life cycle that `JobQueue` implements under the premises of `FinishedIsFinal`.


## 3. JobQueue

### State and correspondence

| Variable | Code |
|---|---|
| `row[j]` | row of `jobs`: `status`, `attempts`, `claimed_by`, heartbeat age (`none`, `fresh`, `stale`), whether progress/message say "done"; `Blank` if there is none |
| `result` | rows with a `result_json` |
| `mem[p][j]` | `JOB_STATUSES` of process `p`; keys of the dict may be absent (`Unset`) |
| `cancelReq[p]` | `_CANCEL_REQUESTS` |
| `io[t]` | the write thread `t` is in: the snapshot taken from the cache, then the row read, then the result |
| `seen[t]` | what thread `t` last got from `get_job` |
| `pc`, `cur`, `gr`, `beating`, `abandoned` | loop and runner thread of a worker, its claimed job, the thread it joins, the heartbeat thread, the `abandoned` event |
| `graph`, `bg` | pipeline threads and the background thread each starts |
| `api` | requests in flight |
| `enqueued`, `purged`, `happened` | history, for properties and bounds |

`upsert_job` is the heart of the model: it merges the update into the cache of the
process (a step of the calling handler), then `_persist` writes the *whole cached
record* (`Flush`; when the transaction overlaps another thread's, `ReadRow` and then
`CommitRow`, which spends an `overlap` event), and then the result if there is one (`StoreResult`). A failed commit is
swallowed (`FlushLost`), as is a failed result write (`ResultLost`). `get_job` reads the row and
overwrites the cache, so that a read before someone's write, stored after it, takes the
cache back.

The actions follow the functions: `Loop(w)` is `worker_loop`; `Runner(w)` is
`process_claimed_job`, one action per stretch of code between two shared reads or
writes; `Beat(w)` is the heartbeat thread; `Graph(g)` the pipeline's calls to the store;
`Background(g)` the post-summary thread; `Api(r)` the endpoints, split where the code
reads, decides and then writes; `Crash(p)` a process that dies, with its cache and
threads; `StallWindow(j)` the passage of the stall window without a heartbeat.

### Abstractions

- Time is the age of the heartbeat: `StallWindow` turns a heartbeat stale, at any
  moment if the worker is slow (the `stall` budget), and eventually if nobody beats.
- `available_at` (the back-off of a retry) is left out: a row may be claimed any time,
  which includes the times after the delay.
- A claim, a reclaim, a release and a delete are one transaction and one step; the order
  in which pending rows are claimed is left open. `_persist`
  is one step, or two for each `overlap` event of the budget.
- The cache store at the end of `get_job` happens at the next step of the handler that
  called it, so that another thread's write may come between read and store. `Forget` drops what a
  handler has read when its call ends, since no later step looks at it.
- `purge_job_completely` calls `cancel_job`, whose own `get_job` is folded into it. The
  healing branch of the `/job-result` endpoint cannot be reached with the cache that
  precedes it and is not an action.
- `worker_heartbeats` (liveness display), the document artifacts of a job and the last net of the
  runner around a failed result write are left out. The consecutive `_set_bg` calls of the background
  thread are abstracted to three.
- A row that is `processing` without any heartbeat counts as one that ages.
- `WORKER_ID` is configured, so a restarted worker keeps it, as the deployment files do.

### Properties and runs

| Property | Says |
|---|---|
| `TypeOK` | type invariant, with `Awaited`: a thread that stores a result waits for it (proved) |
| `NoDirectReopen` | no write sets a finished row back to `processing` unless two transactions overlap (proved) |
| `DoneIsFinal` | as long as the workers run apart from the API (`Apart`) and nothing has stalled, timed out, failed to commit or been taken back (`Calm`), a finished row stays finished until it is deleted (proved) |
| `FinalWithoutRetries` | with one attempt a job and one worker a finished row stays finished through time-outs, stalls, crashes and failed writes too, until it is cancelled or purged |
| `SingleRunner` | no two runners at work on one job (proved if `Apart` and `Undisturbed`) |
| `CompleteBacked` | unless a process died, a commit failed or a job was purged, a `complete` row has its result or a thread about to store it (proved) |
| `Settles` | every enqueued job ends finished or deleted, for good |
| `CancelFreesWorker` | a cancelled job frees its worker, even if the pipeline hangs |

An event *budget* lists the disturbing events a history may contain (`stall`,
`timeout`, `crash`, `slow`, `dbfail`, `cancel`, `purge`, `poll`, `overlap`); `Budgets` is a set of
them, one of which the history has to respect. Every run has one job, since jobs only
meet in the worker that chooses among them.

- `MCJobQueueSafety`: two worker processes and the API, two attempts, one poll or one crash at any moment, with one
  overlap of transactions: `SingleRunner`, `DoneIsFinal`.
- `MCJobQueueEvents`: one worker and the API, one attempt, a pipeline that may hang for ever, and every
  kind of event: a stall, a time-out or a slow pipeline with an overlap; a failed commit; a cancellation; a
  purge; a crash with a stall that a poll finds. `CompleteBacked`, `NoDirectReopen`, `FinalWithoutRetries`, `Settles`, `CancelFreesWorker`.

Two attempts give a first and a last one, and with them a retry that meets the leftovers of
the attempt before. Two workers suffice for a pairwise property. One request at a time,
but a request may span any number of other steps. Each disturbing event happens once, at
any moment; a property that fails under another combination is not claimed. A finished row may be put back to work
after a runtime limit, after a stall with two workers, and after a cancellation or a failed commit next to an overlap: `DoneIsFinal` says so in its premise `Calm`; what is left of it with
most of those events is `FinalWithoutRetries`. `CompleteBacked` says nothing after a crash, as status and result are two commits.
`NoDirectReopen` says nothing after an overlap, which lets a write that read an unfinished row commit after the finish.
Deadlock is checked in both runs: the system may always go on polling.

Fairness: `FairSpec` assumes what the threads and the operating system give: a started
write ends; a started worker, runner, heartbeat, background service or request takes its
next step (weak fairness each); an idle worker that again and again finds a pending row
claims one (strong, as the row may be taken and put back in between); a heartbeat that
nobody keeps fresh goes stale. `Settles` adds the premise
`PipelineReturns`, that the pipeline ends, by an error or a summary; each of its remote calls has a time-out.
`CancelFreesWorker` does without it. Nothing is assumed of crashes, time-outs, failed
writes, cancellations, polls or purges.

## 4. The scheduler and the endpoint pool

### CapacityPool

`queue`, `progress`, `results`, `permits`, `stop` and `closed` are the locals of
`run_capacity_pool` that its threads share; `at` and `item` are each worker
thread's position and work item, `outcome` how its invocation ended, `main` the calling
thread. A worker checks `stop`, pulls, counts the item as running, takes a permit,
invokes the worker function in a thread of its own, waits for it up to the hard wall,
gives the permit back and handles the result under the lock (`HandleOk`, `HandleLimited`,
`HandleRetry`, `HandleFailed`, `BackoffEnds`).

Every wave has one priority, so the queue is a set and any item may be pulled. What
the worker function does is one of five outcomes. The semaphore's
time-out branch is no action, because `NeverWaits` (proved) shows it unreachable:
there are never more workers than permits. `queue.put` on a closed queue raises and
ends the thread, which is modelled. Counters for display only (`retrying`, throughput)
are left out.

`MCCapacityPool`: three tasks, two threads, two attempts, three requeues, safety wall
allowed: 1.0 M states. Three tasks and two threads let one worker sleep for its
back-off, one find nothing and a task wait; the two limits differ so that the two
budgets are told apart. Deadlock is off as the wave really ends.
Fairness (`PoolFairness`): threads run, the hard wall or the function ends each
invocation, sleeps end, the calling thread runs. The safety wall is *not* fair, so
`WaveReturns` says the wave ends without it.

### EndpointPool

`active[e]` is the endpoint's `active` count, `cooling` its back-off, `call[c]` where the call
is in `_call_chat_with_fallback_unsliced` with its model, attempt and exclusions,
`lease[c]` the endpoint it holds a slot of. `stray[e]` is history: slots whose call
ended without a release. Actions: acquire (least loaded among those with the role, not
excluded, not cooling and not full, with the code's fall-backs when no candidate is left), its time-out (the call
goes on with the primary client and no lease), the global token bucket, answer, rate
limit with rotation to the next endpoint, cancellation by a hedge, fall-through to the
next model, an answer by another provider.

Clock and latency averages are abstracted: a cool-down ends any time, any of the
least-loaded endpoints may be chosen, a time-out may happen whenever the call is not
served. The pool is loaded once at start-up and not reloaded.

### Dispatch

`Dispatch` composes the two. Under the one permit of its worker an invocation calls in one of three ways (`way`):
*whole*, one call for the whole chain of models; *sliced*, one call a model in turn, each of which may overrun its slice
and is then left behind with its lease while the next model is called (`call_chat_with_fallback`); *hedged*, the first
model alone for its slice, then the others on two threads with or without it, until one succeeds (`_call_compile_llm_hedged`).
`first` and `second` are the calls an invocation waits for, `turn` the next model of its chain, `why` how its last failed
call ended. A call is left behind by a slice (`SliceOver`), by the end of a hedge, by the invocation's own wall (`OwnWall`)
or by the scheduler's (`HardTimeout`); it keeps its lease and ends by itself (`OrphanEnds`), while its task may be retried.
An invocation beyond the scheduler's wall starts no further call, since every deadline it was given has passed.

`GateBounds` is what the capacity semaphore bounds: leases out are at most the permits taken, plus one for each invocation that
hedges, plus the calls left behind. So the gate does *not* bound the load of the pool, as the
number of calls left behind is bounded by nothing but their own time-outs; what does is `WithinCapacity`, an endpoint's own limit.

`MCDispatch`: one task on one thread, three attempts, so that an abandoned call, its retry and a second retry meet; two
calls in any of the three ways, two endpoints with a slot each, two models of which one is served by another
provider, two tries per model; call symmetry (calls
are only compared). `LeasesCounted` says that an endpoint's count is its leases plus the slots of
calls that ended without a release (section 8): no path releases twice. Two calls are enough for a slice left behind beside the next
model's call, for a hedge, and for an abandoned call beside its retry; with three, everything holds too, at one try a model (2.2 M states). One task is enough for the interference of calls, which is what the
pool sees; interference of tasks is the matter of `MCCapacityPool`. Deadlock is off: the wave ends.

## 5. The other models

Each part: what the state is, what a step is, what is left out, the properties, the bounds.

### ResultStore (`MCResultStore`)

`db` is the row's result with its revision, `mem[p]` the copy in `JOB_STATUSES` of process
`p`, `lock[p]` the per-job lock of `update_result`, `w[a]` the writer of attempt `a`, `poll`
what a poll has read and not stored. `DeliverSummary` and `PatchBuild` make the two patches of an attempt;
`Read`, `Store`, `Check`, `ReadRow`, `Commit`, `NotCommitted`, `Keep` are the compare-and-swap
with its retries; a poll stores what it read later than it read it.
A value is a number ordered as the merge orders it; 0 is everything the store calls empty.

`ImplementsRegister`: the row implements `ResultRegister`, a register that only grows.
`AckedKept`: from the commit on, what the caller's patch had is in the row. Two attempts, in one process under read committed or in two with
serializable transactions (`Sound`): a summary and a report each, longer or shorter, with
figures that differ; two retries. In two processes under read committed `AckedKept`
fails (section 8). Safety only: the retries are counted, and the code waits for nothing but the lock.

### DocumentDag (`MCDocumentDag`)

`execute_document_dag` with `run_dag_compile`: the calling thread goes through map, escalation, waves of
compile nodes, weak-node repair and recomputation of the branch above; `run[n][s]` are
invocations of a node, of which the wall may abandon one and a slot keeps the zombie. A text
is its quality (`none`, `stitch`, `notice`, `weak`, `good`; a `notice` says that content is missing) and what went into it, so that
staleness and loss can be seen. `late` is the pre-executive ceiling, `cancelled` the nodes it cancels. The branch that a repair
clears is a set, recomputed from below; `mending` is the node of it that is being recomputed.

`NothingDropped`: every chunk's text, or its fallback, goes into the final summary, or it says that content is missing; this needs `OneTop`: one executive, alone at the greatest depth and above all
chunks. With an overflow node at the executive's depth, or with the several nodes of level three that `pipeline_dag.py:271` makes executives, the
text delivered may be one part's only (section 8), while `EveryTextWhole` still holds.
`Fresh`: no text in the result was made of an input that has changed since. `ModelTextKept`: a fallback never replaces what a model wrote, outside the
repairs. `DocumentReturns`: there is a summary in the end, whatever fails or hangs.
Two chunks, an overflow layer and an executive; two tries per node, one escalation, two repairs, three passes, one
abandoned invocation. One input per regional is enough, since sharing inputs is what `CompilePlan!IsTree`
excludes. Fair: the calling thread and each invocation that does not hang; a hung one is abandoned by the wall.

### HedgedCompile (`MCHedgedCompile`)

`run_compile_with_models`: rounds of concurrent batches and a final pass, each pass with its
attempts `att[p][i]` on the models of its chain, hedged or sliced, under one deadline `wall`.
A text is the set of the summaries it covers and whether it is raw; a batch is the set of its places in the level. Passes are numbered, and a
round starts only if enough of `Passes` are left (a bound that the instance does not meet). A pass reports Planning, Trying and Completed through the progress gate, whose
throttled writers look first and write later.

`NothingLost`: the outcome covers every summary, in order. `LiveSuccessKept`: before the deadline a
hedged pass fails only when no fallback succeeded. `GateForward`: cycle and phase only go forward, and
a sealed cycle stays sealed. `CompileReturns`: although every request may hang. Compiles of four and two summaries, two and three models, hedged and
sliced, with a reporter beside the final pass. Fair: the coordinating threads, the start and
the cancellation of attempts, and the deadline; *not* the answers of providers.

### StagedGraph and its algorithms (`MCStagedGraph`)

One document from its file to its carbon report. `Chunking` reads elements, validates
headings, merges sections in passes and packs chunks (structure parser), fills and packs (chunking service), or takes
one chunk per element. `Routing` gives strategy, domain floor and a tier per chunk. Then map,
`Validate`, `Escalate` in batches, the hierarchy (`CompilePlan`), compile with stitch and repair, the final verdict, delivery
and `AccountCarbon`. Every outcome of every model call is a step. The unified branch ends with the
plan that `DocumentDag` executes.

| Property | Says |
|---|---|
| `VerdictsCurrent` | after incremental re-validation each verdict is that of the summary that is there |
| `UnflaggedIsComplete` | a document delivered without a warning has no empty summary, passed its checks, is no stitch and at most a quarter of its chunks fail |
| `LeftOutOnlyWithErrors` | packing, cutting and batching leave out no summary, but for texts joined with an error text and for regions that share an id |
| `PlanIsTree` | the planned graph is a tree over all chunks with a text, one executive on top, unless two regions have one id |
| `TextKeptOnce` | each block of the file is in one chunk, once, paragraphs in order |
| `ChargedAsRun` | each chunk is charged once, at the tier that made its summary |

A node is what has one id: `Ids` makes the ids of the regions as `build_hierarchy_levels` does, from the parent of a lone
chunk or the count of regions, and `Onto` gives regions of one id one node, with the chunks of the last of them. Two ids are equal only
in layouts with a mixed pack that is split. The instance has one of four chunks, in which the chunks of one region are then in no node (section 8):
`PlanIsTree` and `LeftOutOnlyWithErrors` say that nothing else breaks the tree or leaves a chunk out.

The carbon report weighs the chunks `Chunking` wrote, counts the calls the compile made
(`used`) and charges the compile at the tier of `routing_decision` (`lead`), which `cre.py` sets and an
escalation raises; its numbers are whole seventy-thousandths of a Joule, so that `ChargedAsRun` is an exact
equation. Two remarks on that tier, which no run states: the methodology text says "medium or heavy"
(`carbon/accounting.py:77`), but a plain document of few chunks is given the light one (`cre.py:128`), whose rate is then
charged although every compile begins with the medium models; and heavy calls that repair a branch (`orchestrator.py:1651`)
do not raise it when the recompile after them is refused.

Six cases for the staged branch (simple on a dirty grid, medical without budget, legal with planning off,
single chunk without pool, many pages, two regions of one id) with up to four chunks; 64 plans of two to four chunks on two layouts; 700-odd
files of up to four blocks over two palettes and five longer ones, for three chunkers, with limits
scaled so that a section overflows with two paragraphs. A document is one behaviour: nothing is shared with others. No fairness: the
graph has no loop but the bounded escalation, and deadlock is checked.

`MaxTurns` (40) bounds the turns in which one node and what is put under it are made to fit; the instance needs twelve at most, and
a plan that needed more would stop the run with an error, as no turn with an empty work list could be chosen.

Left out: the words of prompts and summaries; how a heading is scored and two texts are found alike (any
outcome); which model answers for a tier; the node assigner; slices of the time budget (only whether one more call may
start); the guard of 500 merge passes; grams, PUE and uncertainty of the report.

### Retrieval, DocumentIndex and QueryPath (`MCQueryPath`)

Writers: background embedding, `store_chunks`, the BM25 thread, purge, a second attempt, a
restart; one step per call to a store. Readers: questions that take the chunk cache, Chroma and the index one after the
other and fill what they find missing; then fusion, rerank, parent expansion, de-duplication and packing.

`VectorsMatchText`: a chunk's vector was computed from its own text. `Findable`: a question is not
answered with "not found" while rows and vectors are there. `NoTextTwice`: no passage of the
packed context repeats another. Five chunks of which two have the same text and one is empty, two processes, one attempt, one
purge, one restart, two questions, two rankings of the dense search, three of the reranker. Safety only: questions and purges end with
their calls.

### GuestLifecycle (`MCGuestLifecycle`)

One session with its jobs, documents and conversation; requests split at each commit; the
clean-up thread (mark expired, look for running jobs, delete one by one, mark purged); the worker with its late writers; the
upgrade. `PurgedOwnsNothing` (but what failed to be deleted), `UserDataKept` (the clean-up deletes nothing that
belongs to a user), `RunningKept` (no running job is purged), `Cleaned` (an expired session is purged
in the end). Two jobs, one conversation, two threads, four requests, one failing delete. Fair: requests, worker and clean-up go on.
An upgrade may read the session while it is active, and commit when it has run out, when it is listed, or in the middle of the
purge (`LateUpgrades`). `cleaner.late` remembers that an upgrade has committed since the clean-up read what the guest owns: from then on the code
deletes what is a user's by now, and `UserDataKept` excuses that purge and no other. (Such an upgrade
should not be possible, section 8.) No second tab uses a session after its upgrade
(`StaleIds` is off): with one, `PurgedOwnsNothing` and `RunningKept` fail (section 8); the theorems name this premise.

### MetricsStore and ResultsPage (`MCResultsPage`)

JavaScript runs to the next await: a step is the code between two awaits. `thread[t]` is where
an effect or a click of the refresh button is, `inflight` the shared request; `snapshot`, `session` and `flight` are
the store that dashboard and sidebar read. The module's specification is `PageSpec` (`FairPageSpec` with fairness). `ShownOnlyGrows`: neither
the page nor the store takes a revision back, until two callers have waited for the end of one request (`crowd`; proved for any number of clicks). Then
both send their own, and an older answer may come last (section 8). `FinalIsShown`: once the server has the final result, a page that stays on its job shows it, unless the job is lost, the poll's
time is up or callers have crowded. `GET /jobs` lists one row, so `Latest` is the newest
job if that is complete, and the remembered one otherwise. Two jobs, two effects, two clicks, one reader, three revisions; six combinations of events, each
event once, but for two clicks in one (larger budgets exceed the time a run may take). Fair: requests are answered or fail, timers fire, the job goes on.

### AnswerStream and ChatPage (`MCChatPage`)

The server streams tokens of a model, retries and falls through a chain; the page reads events, paints by a timer, gives up by
abort or the 90-second wall, falls back on the blocking endpoint, and keeps a copy per document. `Open` mounts the chat: the document is
the `key` of the component (`page.tsx`), so a reload and a change of the document both give a new one, and
what still runs sets the state of one that is gone. A new chat in the same mount leaves the fallback and the timer at work.
The specification is `ChatSpec` (`FairChatSpec` with fairness). `OneVoice`: an
answer comes from one model call (proved). `OwnAnswer`: tokens reach the message and the document of their question,
on the page and in the copies (proved). `LoadingEnds`: the page can always be asked again. Two requests, two documents, two moves, two models tried twice, two
tokens a call, a channel of two events. Fair: server, client and timers of each request go on.

## 6. What is proved

All theorems hold for every value of the constants that satisfies the assumption named in the module that declares them
(`JobQueueAssumption`, `CapacityPoolAssumption`, `EndpointPoolAssumption`, `DispatchAssumption`, `ResultStoreAssumption`,
`DocumentDagAssumption`, `GuestAssumption`, `HedgedAssumption`, `ProgressAssumption`, `StoreAssumption`, `PageAssumption`, `IndexAssumption`,
`ChatAssumption`), with the premises the table gives. TLC evaluates each assumption on its instance.

| Theorem | States | Argument |
|---|---|---|
| `JobQueueProofs!TypeCorrect` | `TypeOK` | Inductive as it stands thanks to `Awaited`: when a result write fails, the thread moves on from the place where it waits, and only there. One lemma per action group. |
| `…!FinishedNotReopened` | `NoDirectReopen` | Until transactions overlap no thread is between read and commit, so `Persist` refuses the write (`PersistGuard`); every other step writes a row that was not finished, or not to `processing`. |
| `…!CompleteIsBacked` | `CompleteBacked` | `BackedInv`: `Accounted`, that the history knows of crashes and purges under way, and, as long as the history has no crash, failed commit or purge, `Supported`: wherever `complete` is written down or about to be (row, caches, writes under way, pipelines, requests), a result is stored or a thread has it in hand. A cached `complete` counts too, since a heartbeat may persist it. |
| `…!OneRunner` | `SingleRunner` | If `Apart` (no worker is embedded in the API process) and `Undisturbed` (the history polls, or processes die, and transactions overlap; no stall, time-out, slow pipeline, failed commit, cancellation or purge). `RunnerInv` says who owns a record and what each write under way may still do to it: from the claim to the delivery the row, the cached record and every write of the runner, its heartbeat and its pipeline are the worker's own and fresh (`Ours`), so nobody may claim or reclaim the row; once it is handed in they are over (`HandsIn`, `AfterWork`, `GraphWrites`, `BgWrites`); what a recovery gives back or gives up is nobody's until the write is through (`GivesBack`, `GivesUp`); the API process knows of a job only that it waits or that it is over (`Known`). One frame lemma per kind of thread says what steps of others leave it. |
| `…!FinishedIsFinal` | `DoneIsFinal` | No premise: `Apart` and `Calm` stand in the property. The same invariant holds of every calm part of a history (`CalmBefore`: what has not happened has not happened before), and `Safely` adds to each step that a row that is over stays so, since no write under way on such a row still carries an unfinished record. |
| `DispatchProofs!PoolTypeCorrect` | `PoolTypeOK` | Inductive. |
| `…!TaskInOnePlace` | `OnePlace` | Inductive with the types: what the two ends of `_handle_result` do to the places of a task. |
| `…!ResultsStay` | `SettledOnce` | From `OnePlace`: a task that is held is not settled. |
| `…!TasksNotLost` | `NoneLost` | Inductive. A worker that sleeps holds its item. |
| `…!PermitsSuffice` | `NeverWaits` | Permits plus invoking threads equal the capacity, and threads are at most the capacity. |
| `…!CountersTrue` | `CountersExact` | Each counter equals a cardinality; needs `OnePlace`. |
| `…!AllReturned` | `ReturnsAll` | Completed and failed sum to the number of tasks once the calling thread has left its loop without the wall. |
| `DispatchProofs!LeaseTypeCorrect` | `LeaseTypeOK` | Inductive. |
| `…!LoadIsTruth`, `…!CapacityRespected` | `LeasesCounted`, `WithinCapacity` | Proved together: a release of a held lease finds a positive count, so the clamp at zero never bites. |
| `DispatchProofs!ImplementsPool`, `…!ImplementsLeases` | refinement | Each step of `Dispatch` is a step or a stutter of each part, whichever way invocations call. |
| `DispatchProofs!GateBoundsLoad` | `GateBounds` | A leased call has a seat (`first`, `second`) or is left behind (`CrewTypeOK`: a seat is taken only while its thread invokes). First seats are at most the invoking threads, which are the permits taken; second seats are at most the hedging ones. |
| `ResultProofs!MergeOnlyAdds` | – | For each kind of field, merge and guards give something not below the base. |
| `…!ResultTypes` | `ResTypeOK` | Inductive. |
| `…!CachesBacked`, `…!AckedPatchKept`, `…!RegisterImplemented` | `CacheBacked`, `AckedKept`, `ImplementsRegister` | For deployments that are serializable or of one process (`SoundDeployments`). The inductive `StoreInv` adds that a writer's base is a result the row has had, that revisions name results, and that of one process only the holder of the lock is between read and commit; so `SameRevision` at the commit means the base *is* the row. The refinement then follows from `MergeOnlyAdds`. |
| `…!ShownNeverShrinks` | `ShownOnlyGrows` | `PageInv`: as long as the page stays on its first job and no two callers have waited for one request, one request is out at most and whoever waits, waits for it (`OneRequest`), and the answer on its way is not older than what is shown (`NothingOlder`); so the answer that is applied late is still the newest. |
| `DocumentDagProofs!DagTypesCorrect` | `DagTypeOK` | Inductive, with what the pool owes the loop: at most one awaited invocation of a node, only of the current wave, only while it is unsettled. |
| `…!TextsAreWhole` | `EveryTextWhole` | `Coverage`: every chunk has its text once the map is over; no text, no input and no invocation's input loses a part of what is below its node unless it holds the notice; a completed node has a text, and a node is compiled only from nodes with texts. The last part makes the first inductive: joining texts loses nothing if none is missing. |
| `…!SummaryIsWhole` | `NothingDropped` | If `OneTop`: the summary is the executive's text, which is whole. |
| `…!SummariesAreFresh` | `Fresh` | `Freshness`: before repairs everything is made of texts of done nodes, and these do not change; during a repair the branch that is left is upward closed and without text, and the node being mended is made of texts outside it. An abandoned invocation may write at any time and ends the claim. |
| `…!ModelTextsKept` | `ModelTextKept` | From both: what replaces a text is an awaited invocation's, whose node has none. |
| `GuestLifecycleProofs!GuestTypesCorrect` | `GuestTypeOK` | Inductive. |
| `…!NothingLeftBehind` | `PurgedOwnsNothing` | If `~StaleIds`. `GuestInv`: `RecordsOK` (the cache has no job the table has not; a claimed job is marked `processing` or gone; an identifier is given out once), `Quiet` (an ending session has no request at work but a late upgrade), `Listing` (the clean-up works on an expired session, or on one a late upgrade took over), and `OwnershipOK` with `Sides`: while the clean-up deletes, every job has ended, what a worker may still stamp is accounted for, and all the guest owns is listed. |
| `…!RunningSpared` | `RunningKept` | If `~StaleIds`, from the same invariant. |
| `…!UserDataSafe` | `UserDataKept` | If `~StaleIds`, for upgrades at any time: an upgrade that commits on an overdue session leaves the guest nothing, so a clean-up that reads after it finds an empty list, and one that has read before it is marked `late`. |
| `HedgedCompileProofs!HedgeTypesCorrect` | `HedgeTypeOK` | Inductive; every step of a pass or an attempt is a `PassStep`. |
| `…!AllSummariesKept` | `NothingLost` | `InRound` (between rounds every pass has ended) and `RoundCovers` (the passes of a round have the texts of their batches). `BatchesOfLevel` shows from two facts about division that the batches partition the level in its order. |
| `…!SuccessesKept` | `LiveSuccessKept` | `Waited`: before the deadline a fallback that a hedged call no longer waits for has failed, and an attempt that has failed stays so. |
| `…!GateGoesForward` | `GateForward` | A publication opens a cycle or is of the active one and not behind; only a queued pass opens one, and `InRound` says that none is queued once the compile has returned. |
| `QuestionProofs!VectorsOwnText` | `VectorsMatchText` | `VectorsKept`: wherever a vector is on its way to Chroma (prefetch, the attempt's hands, what it adds) it is at the place of its own chunk. Two filters change places, the chunks without text and the texts that miss the cache; both are `InOrder`, whose places the lemmas determine by cardinalities. |
| `…!AnswerOneVoice` | `OneVoice` | `ChatInv`, which follows a text from the model's call through the channel, the reader and the painter to the page and the copies (`SaidGood`, `HeardGood`, `ShownGood`, `KeptGood`): what is anywhere on its way continues what the server has said since it chose the call that spoke first. `Onward`: nothing that was said is taken back. |
| `…!AnswersOwn` | `OwnAnswer` | From `ChatInv`: an answer follows its question on the page and in each copy, and both are of the document the page was mounted for. |
| `StagedGraphProofs!VerdictsAreCurrent` | `VerdictsCurrent` | `StagedInv`: `VerdictsKnown`, that between an escalation and the next validation only the chunks in `again` are ahead of their verdicts, and a chunk that got nothing is not among them; `NothingJudged` before the first validation. |
| `…!UnflaggedComplete` | `UnflaggedIsComplete` | From `StagedInv`: once the summaries are settled they are complete or there is a warning (`WarnedOrComplete`), which no later node takes back, and the end has checked the text (`EndsChecked`). |

Each premise is needed: TLC finds `NothingDropped` violated without `OneTop`, `PurgedOwnsNothing` and `RunningKept` with
`StaleIds`, `UserDataKept` without its premise `~cleaner.late`, `ShownOnlyGrows` without `~crowd`. Without `Apart`, or with a poll and a crash in one history, or with
one stall, time-out or slow pipeline next to an overlap, it finds `SingleRunner` violated; with one failed commit, cancellation or purge
next to an overlap, `DoneIsFinal`. `SingleRunner` and `DoneIsFinal` hold for any number of workers, jobs and overlaps, and of polls or of crashes; the run below is one instance of them, whose `Pair` and `PollOrCrash` satisfy both premises.

Only model-checked: all liveness properties, since the prover handles neither fairness nor ENABLED; and the properties of the
planning, chunking, accounting and retrieval *algorithms*: `PlanIsTree`, `LeftOutOnlyWithErrors`, `TextKeptOnce`, `ChargedAsRun`, `Findable` and
`NoTextTwice`. Their loops are folds (`FoldLeft`, `MapThenSumSet`, `SelectSeq`) and, in `CompilePlan`, a function of the turn; what a fold computes for every
input is a fact by induction whose theorem takes an operator as its parameter, which no back-end instantiates.

## 7. Runs

| Run | Distinct states | Shows |
|---|---|---|
| `MCJobQueueSafety` | 747,902 | `SingleRunner`, `DoneIsFinal` |
| `MCJobQueueEvents` | 276,296 | `CompleteBacked`, `NoDirectReopen`, `FinalWithoutRetries`, `Settles`, `CancelFreesWorker` |
| `MCCapacityPool` | 1,004,671 | `NoneLost`, `ReturnsAll`, `WaveReturns` |
| `MCDispatch` | 2,175,327 | `LeasesCounted`, `GateBounds` |
| `MCResultStore` | 290,254 | `AckedKept`, `ImplementsRegister` |
| `MCDocumentDag` | 1,079,768 | `NothingDropped`, `Fresh`, `ModelTextKept`, `DocumentReturns` |
| `MCGuestLifecycle` | 604,550 | `PurgedOwnsNothing`, `UserDataKept`, `RunningKept`, `Cleaned` |
| `MCHedgedCompile` | 200,754 | `NothingLost`, `GateForward`, `LiveSuccessKept`, `CompileReturns` |
| `MCResultsPage` | 909,189 | `ShownOnlyGrows`, `FinalIsShown` |
| `MCStagedGraph` | 4,944,303 | `VerdictsCurrent`, `UnflaggedIsComplete`, `LeftOutOnlyWithErrors`, `PlanIsTree`, `TextKeptOnce`, `ChargedAsRun` |
| `MCQueryPath` | 388,371 | `VectorsMatchText`, `Findable`, `NoTextTwice` |
| `MCChatPage` | 649,021 | `OneVoice`, `OwnAnswer`, `LoadingEnds` |

Bounds are in the sections above. `CHECK_DEADLOCK FALSE` stands where the modelled activity really ends (a wave, a
compile, a page at rest); the other runs check deadlock.

## 8. Where code and comments differ

Found while modelling. None of these is a run of its own: the properties above are stated so
that they hold of the code as it is, and either name the exception or hold of instances that leave it out.

Job queue.
- At the runtime limit the runner gives up on the pipeline, which delivers its summary anyway and
  completes the row; `fail_or_retry_job` then sets it to `pending` (`db/jobs.py:855`), although the runner "guarantees a
  terminal transition out of ``processing``" (`worker/runner.py:31`). Its cached `pending` also passes the guard that is to
  "never let a late heartbeat / progress write reopen a finished job" (`db/jobs.py:1301`), which looks for `processing` only: once
  another worker has finished the job, a progress write of the pipeline left behind reopens it.
- The pipeline is not told of a cancellation, and the guard in `_persist` refuses only `processing`:
  a cancelled job may become `complete` (`core/orchestrator.py:1998`), against "do not retry or overwrite with complete"
  (`worker/runner.py:188`).
- With a worker embedded in the API process, a poll's read from before the claim lands in the cache after it, and the heartbeat
  persists the old `pending` record: a second worker claims the job (`db/jobs.py:435`).
- `_persist` inserts when it finds no row: a late writer brings a purged job back (`db/jobs.py:1295`). A purged
  job with a hung pipeline frees its worker only at the runtime limit.
- With read and commit apart, a purge lets a late writer reopen a finished row.

Endpoint pool. `acquire_nim_request_slot` raises when it times out (`core/nim_rate_limit.py:200`), which
`_call_chat_with_fallback_unsliced` re-raises before its releases (`agents/models.py:1061`); the answer of another provider returns at
line 828 with the lease of line 728. The slot is lost until a restart; `SYSTEM_ARCHITECTURE.md:188-190` and
`core/execution_scheduler.py:602` say leases are released. The model counts these slots in `stray`.

Result store.
- "Monotonic, concurrency-safe job result_json store" (`core/result_state_store.py:2`): two processes under read
  committed may pass the same revision check (`db/jobs.py:170`), and the later commit loses an acknowledged patch.
- "Authoritative keys from finalize / accounting — always win on background patch"
  (`core/carbon_result_merge.py:136`): the patch of `core/background_services.py:252` is merged monotonically, so the
  report of a second attempt with smaller figures is mixed with the first.

Document DAG and pipeline.
- "Never replace a durable executive with stitch/failure" (`core/dag_scheduler.py:579`): the repair of a weak regional clears the
  executive and applies whatever the second attempt returns, a stitch included (`recompute_branch`, 533-539).
- A chunk left `pending` by a rate-limited escalation, or `failed` after healing, turns the whole document into a stitch.
  A stitch of nothing counts as a success (`agents/models.py:1911`, against 1930-1937).
- When every re-escalated chunk is still empty, `ThreadPoolExecutor(max_workers=0)` raises (`agents/quality_validation.py:351-360`), and a
  document that has its summaries fails.
- An escalation's error text replaces a real summary; finalize turns error and cancelled rows into complete; a cancellation during the compile
  becomes a stitch that is delivered as complete.
- An error text joined into a region makes `_normalize_compile_summaries` drop the region (see `LeftOutOnlyWithErrors`); a stitch keeps 40 summaries.
- `_combine` (`structure/semantic_merge.py`) loses the first section's heading when the second is more major and writes
  the second's twice; headings are therefore not part of `TextKeptOnce`. `_split_oversized` moves tables and lists to the tail. An error of the structure
  parser fails the job (`core/orchestrator.py:298-312`). Page text is cut at 20,000 characters (`agents/triage.py:149`, 175), plain text at 2 MB.
- The energy of the first call of an escalated chunk is not counted; the rounding of shares may change the mass by half a token a chunk.

- "Avoid collisions when multiple single-parent groups share parent" (`core/hierarchy.py:378`): the id a region falls back to may be the one
  that is taken; `core/pipeline_dag.py:272` then skips its node and line 303 gives the first one's its chunks, so that the chunks of the first are in no
  node.
- The text delivered is that of the deepest executive with a text; `core/pipeline_dag.py:271` makes every compile node of level three
  and above an executive, and an overflow layer may bring another node to its depth, so a document planned that way may be summarised by one part.

Compile and progress.
- A primary's success that falls into the gap between its slice and the hedge is dropped; a line that was resolved before Planning overwrites the
  lifecycle line afterwards (`perf/progress.py:13-14` says never); `clear_progress_state` is never called.

Retrieval.
- `store_chunks` and `store_document_data` swallow every exception: the job completes and cannot be searched.
- A question before the commit caches an empty chunk map for the life of the process (`memory/storage.py:119` invalidates before the
  commit at 265). Without vectors the answer is 404, although "Query path rebuilds on demand if the index is
  missing" (`memory/storage.py:269-271`).
- The BM25 thread, or a rebuild, after a purge recreates the index file; a failed delete in Chroma leaves index and caches; a second store with fewer
  chunks keeps the tail; chunk positions are compared as strings, which differs beyond ten chunks.

Guests.
- "Reassign all guest-owned resources to an authenticated user" (`db/guests.py:353`): the worker that runs a job during the upgrade
  writes the guest back as its owner (`db/jobs.py:1353`, `worker/runner.py:88-95`).
- "Only sessions with status=active are transferable" (`db/guests.py:355`): the status is read once, and an upgrade may commit on a session
  that has been marked expired since, in the middle of its purge, which then deletes a user's data.
- `touch_guest_session` marks purged and upgraded sessions `expired` (116-119): with a second tab
  the clean-up then deletes a user's data.
- `retain_only_latest` purges newer jobs too (`db/jobs.py:1267`); background services after a purge recreate ownerless rows.

Browser.
- `fetchResult` returns `resultRef.current` on failure, which may be another job's, and `applyResult` does not compare
  jobs: `page.tsx:473`, "Never stop polling or freeze metricsReady on a Summary Ready stub", fails when the user goes back or forward to another job.
- "Always replace React state with the newest payload" (`page.tsx:336`): two callers that wait for one request, as two refresh clicks, may replace a full
  result by an older stub. Selecting the open job blanks the page without a poll.
- Chat: the flush timer is not cleared on an abort or a network error, and the message streams for ever although `document-chat.tsx:748` has a "Hard client wall
  so hung NIM/primary never leaves chat spinning forever". The `finally` of a fallback that was given up clears `loading` under a newer request; a drop between
  `done` and the end of the stream overwrites the final answer; a change of the document in mid-stream loses the question, since the copy is
written only when the stream has ended.

## 9. Not modelled

- *Accounts, tokens, abuse protection*: security controls, no protocol with the parts above.
- *Evaluation and benchmarks*: offline tools.
- *Carbon router service, MCP server*: read-only services behind one call each.
- *Object storage, database and Chroma themselves*: their calls are atomic steps that may fail where the code handles it.
- *Clocks*: time-outs and deadlines may strike at any time; durations are not compared. Token bucket arithmetic and latency averages are left out with them.
- *Legacy overflow path of `run_dag_compile`* (`core/dag_scheduler.py:905-925`) and the heuristics of `node_assigner`, `document_capability` and heading
  detection: any outcome.
- *Accounting of the unified branch*, the RAG-query report and the formatting of reports.
- *Rendering, uploads and sign-in of the frontend.*

## 10. Running it

    tlc -workers 2 -config MCJobQueueSafety.cfg MCJobQueue
    tlapm DispatchProofs.tla          # and the seven other ...Proofs modules

Each `.cfg` belongs to the module whose name it starts with, with or without `MC`. The longest run takes about four minutes.

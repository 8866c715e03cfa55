--------------------------- MODULE JobQueueProofs ---------------------------
(***************************************************************************)
(* What is proved of JobQueue for every set of jobs, workers, processes and *)
(* budgets: the type invariant; that the guard of _persist keeps a finished  *)
(* job from going back to processing as long as no transaction overlaps; and *)
(* that a row that says complete has its result, or a thread about to store  *)
(* it, as long as nothing tears the pair of writes apart.                   *)
(***************************************************************************)
EXTENDS JobQueue, TLAPS

USE JobQueueAssumption

-----------------------------------------------------------------------------
(* Records *)

LEMMA UnsetIsNew ==
    /\ Unset \notin Statuses /\ Unset \notin Nat /\ Unset \notin Workers \cup {NoWorker}
    /\ Unset \notin {"none", "fresh", "stale"} /\ Unset \notin 0..2
BY DEF Statuses, Active, Done

LEMMA StatusNames ==
    /\ "pending" \in Statuses /\ "processing" \in Statuses
    /\ "complete" \in Statuses /\ "error" \in Statuses /\ "cancelled" \in Statuses
BY DEF Statuses, Active, Done

LEMMA BlankIsEntry == Blank \in Entry /\ Blank \notin Row
BY UnsetIsNew DEF Blank, Entry, Row

LEMMA RowIsEntry == ASSUME NEW r \in Row PROVE r \in Entry
BY DEF Row, Entry

LEMMA NewRowIsRow == NewRow \in Row
BY DEF NewRow, Row, Statuses, Active

\* {**d, **e} is an entry; it has every column if d has.
LEMMA MergeType ==
    ASSUME NEW e \in Entry, NEW d \in Entry
    PROVE  Merge(e, d) \in Entry /\ (d \in Row => Merge(e, d) \in Row)
BY DEF Merge, Or, Entry, Row

LEMMA PersistType ==
    ASSUME NEW r \in Row \cup {Blank}, NEW s \in Entry
    PROVE  Persist(r, s) \in Row
<1> DEFINE base == IF r = Blank THEN NewRow ELSE r
           new  == Merge(s, base)
<1>1. base \in Row
  BY NewRowIsRow
<1>2. new \in Row
  BY <1>1, MergeType, RowIsEntry
<1>. HIDE DEF base, new
<1>3. Persist(r, s) = [new EXCEPT
           !.status = IF Refused(base, s) THEN base.status ELSE @,
           !.owner  = IF s.status \in Done THEN NoWorker ELSE @,
           !.hb     = IF s.status \in Done THEN "none" ELSE @,
           !.prog   = IF Refused(base, s) /\ base.prog = 1 /\ @ = 0 THEN 1 ELSE @]
  BY DEF Persist, base, new
<1>. QED
  BY <1>1, <1>2, <1>3 DEF Row

LEMMA ViewType ==
    ASSUME NEW r \in Row, NEW m \in Entry
    PROVE  View(r, m) \in Entry
<1> DEFINE status == IF CacheWins(r, m) THEN m.status ELSE r.status
           hb     == IF r.hb = "none" THEN Unset ELSE r.hb
           prog   == IF m.prog \in {1, 2} /\ m.prog > r.prog THEN m.prog ELSE r.prog
<1>1. status \in Statuses \cup {Unset}
  BY DEF Row, Entry
<1>2. hb \in {"none", "fresh", "stale", Unset}
  BY DEF Row
<1>3. prog \in 0..2 \cup {Unset}
  BY DEF Row, Entry
<1>4. View(r, m) = [r EXCEPT !.status = status, !.hb = hb, !.prog = prog]
  BY DEF View
<1>. HIDE DEF status, hb, prog
<1>. QED
  BY <1>1, <1>2, <1>3, <1>4 DEF Row, Entry

LEMMA AgeType ==
    ASSUME NEW e
    PROVE  (e \in Entry => Age(e) \in Entry) /\ (e \in Row => Age(e) \in Row)
BY DEF Age, Entry, Row

LEMMA FieldsType ==
    ASSUME NEW status \in Statuses \cup {Unset}, NEW owner \in Workers \cup {NoWorker, Unset},
           NEW hb \in {"none", "fresh", "stale", Unset}, NEW prog \in 0..2 \cup {Unset}
    PROVE  Fields(status, owner, hb, prog) \in Entry
BY DEF Fields, Blank, Entry

LEMMA ProgressType ==
    ASSUME NEW e \in Entry, NEW status \in Statuses
    PROVE  [e EXCEPT !.status = status, !.prog = 0] \in Entry
<1> DEFINE f == [e EXCEPT !.status = status]
<1>1. f \in Entry
  BY DEF Entry
<1>. HIDE DEF f
<1>2. [f EXCEPT !.prog = 0] \in Entry
  BY <1>1 DEF Entry
<1>. QED
  BY <1>2 DEF f

LEMMA RequeuedType ==
    ASSUME NEW r \in Row, NEW status \in Statuses
    PROVE  Requeued(r, status) \in Row
<1>1. KeptProg(r.prog) \in 0..2
  BY DEF KeptProg
<1>. QED
  BY <1>1 DEF Requeued, Row

-----------------------------------------------------------------------------
(* Steps on the parts of the state *)

\* A part whose variables do not change keeps its type.
LEMMA Kept ==
    /\ RowOK /\ UNCHANGED row => RowOK'
    /\ MemOK /\ UNCHANGED mem => MemOK'
    /\ IoOK /\ UNCHANGED io => IoOK'
    /\ SeenOK /\ UNCHANGED seen => SeenOK'
    /\ WorkerOK /\ UNCHANGED worker => WorkerOK'
    /\ PipelineOK /\ UNCHANGED <<graph, bg>> => PipelineOK'
    /\ ApiOK /\ UNCHANGED api => ApiOK'
    /\ RestOK /\ UNCHANGED <<result, cancelReq, history, happened>> => RestOK'
    /\ Awaited /\ UNCHANGED <<io, pc, graph>> => Awaited'
BY DEF RowOK, MemOK, IoOK, InFlight, SeenOK, WorkerOK, worker, PipelineOK, ApiOK,
       RestOK, history, Awaited

LEMMA ThreadNames ==
    /\ \A w \in Workers : Run(w) \in Threads /\ Hb(w) \in Threads
    /\ \A g \in Graphs : Gt(g) \in Threads /\ Bt(g) \in Threads
    /\ \A r \in Requests : Rt(r) \in Threads
    /\ \A v, w \in Workers : Run(v) = Run(w) => v = w
    /\ \A g, h \in Graphs : Gt(g) = Gt(h) => g = h
    /\ \A w \in Workers, g \in Graphs : Run(w) # Gt(g) /\ Run(w) # Bt(g)
    /\ \A g, h \in Graphs : Gt(g) # Bt(h)
BY DEF Threads, Run, Hb, Gt, Bt, Rt

LEMMA ProcTypes ==
    ASSUME PipelineOK
    PROVE  /\ \A w \in Workers : ProcOf[w] \in Procs
           /\ \A g \in Graphs : GraphProc(g) \in Procs
           /\ \A t \in Threads : ProcOfThread(t) \in Procs
<1>1. \A w \in Workers : ProcOf[w] \in Procs
  OBVIOUS
<1>2. \A g \in Graphs : GraphProc(g) \in Procs
  BY DEF GraphProc, PipelineOK
<1>3. ASSUME NEW t \in Threads PROVE ProcOfThread(t) \in Procs
  <2>1. CASE t \in {"run", "hb"} \X Workers
    BY <2>1 DEF ProcOfThread
  <2>2. CASE t \in {"graph", "bg"} \X Graphs
    BY <2>2, <1>2 DEF ProcOfThread
  <2>3. CASE t \in {"api"} \X Requests
    BY <2>3 DEF ProcOfThread
  <2>. QED
    BY <2>1, <2>2, <2>3 DEF Threads
<1>. QED
  BY <1>1, <1>2, <1>3

LEMMA IdleType == Idle \in InFlight /\ Idle.stage = "idle"
BY BlankIsEntry DEF Idle, InFlight, Stages

LEMMA RowUpdate ==
    ASSUME RowOK, NEW j \in Jobs, NEW r \in Row \cup {Blank},
           row' = [row EXCEPT ![j] = r]
    PROVE  RowOK'
BY DEF RowOK

LEMMA MemUpdate ==
    ASSUME MemOK, NEW p \in Procs, NEW j \in Jobs, NEW e \in Entry,
           mem' = [mem EXCEPT ![p][j] = e]
    PROVE  MemOK'
BY DEF MemOK

LEMMA IoUpdate ==
    ASSUME IoOK, NEW t \in Threads, NEW x \in InFlight,
           x.stage # "idle" => x.job \in Jobs,
           io' = [io EXCEPT ![t] = x]
    PROVE  IoOK'
BY DEF IoOK

\* No thread turns to storing a result.
NoNewResult ==
    \A t \in Threads : io'[t] = io[t] \/ (io'[t].stage # "result" /\ ~io'[t].withResult)

\* Who moves on has no result on its way, so whoever has one still waits for it.
LEMMA AwaitedKept ==
    ASSUME Awaited, NoNewResult,
           \A w \in Workers : pc'[w] = pc[w] \/ ~io[Run(w)].withResult,
           \A g \in Graphs : graph'[g].pc = graph[g].pc \/ ~io[Gt(g)].withResult
    PROVE  Awaited'
BY ThreadNames DEF Awaited, NoNewResult

LEMMA AwaitedByRunner ==
    ASSUME WorkerOK, Awaited, NoNewResult, NEW w \in Workers, NEW label,
           At(w, label) \/ io[Run(w)] = Idle,
           NEW next, Goto(w, next), UNCHANGED graph
    PROVE  Awaited'
BY AwaitedKept DEF At, Goto, WorkerOK, Idle

\* upsert_job leaves an entry in the cache and a snapshot on its way to the row.
LEMMA UpsertType ==
    ASSUME MemOK, IoOK, NEW m \in Entry, NEW f \in Entry, NEW t \in Threads,
           NEW p \in Procs, NEW j \in Jobs, NEW b \in BOOLEAN,
           UpsertOn(m, t, p, j, f, b)
    PROVE  MemOK' /\ IoOK' /\ (~b => NoNewResult)
<1>1. Merge(f, m) \in Entry
  BY MergeType
<1>2. MemOK'
  BY <1>1, MemUpdate DEF UpsertOn
<1>3. [stage |-> "row", job |-> j, snap |-> Merge(f, m), base |-> Blank,
       withResult |-> b] \in InFlight
  BY <1>1 DEF InFlight, Stages
<1>4. IoOK'
  BY <1>3, IoUpdate DEF UpsertOn
<1>5. ~b => NoNewResult
  BY DEF UpsertOn, NoNewResult, IoOK
<1>. QED
  BY <1>2, <1>4, <1>5

LEMMA AdvanceType ==
    ASSUME IoOK, Awaited, NEW t \in Threads, io[t].stage # "idle", Advance(t),
           UNCHANGED <<pc, graph>>
    PROVE  IoOK' /\ Awaited'
<1> DEFINE x == IF ~io[t].withResult THEN Idle
                ELSE [stage |-> "result", job |-> io[t].job, snap |-> Blank,
                      base |-> Blank, withResult |-> TRUE]
<1>1. io' = [io EXCEPT ![t] = x]
  BY DEF Advance, IoOK
<1>2. x \in InFlight /\ (x.stage # "idle" => x.job \in Jobs)
  BY BlankIsEntry, IdleType DEF IoOK, InFlight, Stages
<1>3. /\ x.stage = "result" => x.withResult
      /\ x.withResult => io[t].withResult
  BY DEF Idle
<1>. HIDE DEF x
<1>4. IoOK'
  BY <1>1, <1>2, IoUpdate
<1>5. Awaited'
  BY <1>1, <1>3, ThreadNames DEF Awaited, IoOK
<1>. QED
  BY <1>4, <1>5

LEMMA CurrentType ==
    ASSUME RowOK, MemOK, NEW p \in Procs, NEW j \in Jobs
    PROVE  mem[p][j] \in Entry /\ Current(p, j) \in Entry
BY ViewType DEF RowOK, MemOK, Current

LEMMA GetJobType ==
    ASSUME RowOK, MemOK, SeenOK, NEW t \in Threads, NEW p \in Procs, NEW j \in Jobs,
           GetJob(t, p, j)
    PROVE  SeenOK'
BY ViewType DEF RowOK, MemOK, SeenOK, GetJob

LEMMA ForgetType ==
    ASSUME SeenOK, NEW t \in Threads, Forget(t)
    PROVE  SeenOK'
BY BlankIsEntry DEF SeenOK, Forget, Nothing

LEMMA ReturnedType ==
    ASSUME MemOK, SeenOK, NEW t \in Threads, NEW p \in Procs, NEW j \in Jobs
    PROVE  Returned(t, p, j) \in Entry
BY DEF MemOK, SeenOK, Returned

LEMMA SpendType ==
    ASSUME happened \in [Kinds -> Nat], NEW k \in Kinds, Spend(k)
    PROVE  happened' \in [Kinds -> Nat]
BY DEF Spend

LEMMA SpendKeepsRest ==
    ASSUME RestOK, NEW k \in Kinds, Spend(k), UNCHANGED <<result, cancelReq, history>>
    PROVE  RestOK'
BY SpendType DEF RestOK, history

LEMMA InTimeType ==
    ASSUME RestOK, NEW b, InTime(b), UNCHANGED <<result, cancelReq, history>>
    PROVE  RestOK'
BY SpendKeepsRest, Kept DEF InTime, Kinds

LEMMA InTimeBudget ==
    ASSUME RestOK, NEW b, InTime(b)
    PROVE  happened' \in [Kinds -> Nat]
BY SpendType DEF InTime, RestOK, Kinds

LEMMA UnflagType ==
    ASSUME RestOK, NEW w \in Workers, Unflag(w), happened' \in [Kinds -> Nat],
           UNCHANGED <<result, history>>
    PROVE  RestOK'
BY DEF RestOK, Unflag, history

\* The runner moves on while it holds its job.
LEMMA GotoType ==
    ASSUME WorkerOK, NEW w \in Workers, pc[w] \notin {"down", "poll"},
           NEW label \in RunPcs \ {"join"}, Goto(w, label), UNCHANGED cur,
           gr' = gr \/ gr' = [gr EXCEPT ![w] = NoGraph],
           beating' \subseteq beating, abandoned' \subseteq Workers
    PROVE  WorkerOK'
BY DEF WorkerOK, Goto

LEMMA ReturnType ==
    ASSUME WorkerOK, NEW w \in Workers, Return(w)
    PROVE  WorkerOK'
BY DEF WorkerOK, Return, Goto, RunPcs

LEMMA RecoverType ==
    ASSUME RowOK, MemOK, NEW p \in Procs, NEW S, NEW failed,
           \A j \in S : row[j].status = "processing", Recover(p, S, failed)
    PROVE  RowOK' /\ MemOK'
<1>1. ASSUME NEW j \in Jobs PROVE row'[j] \in Row \cup {Blank}
  <2>1. j \in S => row[j] \in Row
    BY UnsetIsNew DEF RowOK, Blank, Statuses, Active
  <2>. QED
    BY <2>1, RequeuedType DEF Recover, RowOK, Statuses, Active, Done
<1>2. RowOK'
  BY <1>1 DEF RowOK, Recover
<1>3. MemOK'
  BY BlankIsEntry DEF MemOK, Recover
<1>. QED
  BY <1>2, <1>3

-----------------------------------------------------------------------------
(* The initial states *)

LEMMA InitType == Init => TypeOK
<1>. SUFFICES ASSUME Init PROVE TypeOK
  OBVIOUS
<1>1. RowOK /\ MemOK /\ IoOK /\ SeenOK
  BY BlankIsEntry, IdleType DEF Init, RowOK, MemOK, IoOK, SeenOK, Nothing
<1>2. WorkerOK /\ PipelineOK /\ ApiOK /\ Awaited
  BY ThreadNames DEF Init, WorkerOK, PipelineOK, ApiOK, RunPcs, GraphPcs, BgPcs, ApiPcs,
         NoThread, NoRequest, Awaited, Idle
<1>3. RestOK
  BY DEF Init, RestOK
<1>. QED
  BY <1>1, <1>2, <1>3 DEF TypeOK

-----------------------------------------------------------------------------
(* Writes in flight *)

LEMMA WriteType ==
    ASSUME TypeOK, NEW t \in Threads, Write(t)
    PROVE  TypeOK'
<1>. USE DEF TypeOK
<1>1. CASE Flush(t)
  <2>1. io[t].job \in Jobs /\ io[t].snap \in Entry
    BY <1>1 DEF Flush, IoOK, InFlight
  <2>2. RowOK'
    BY <1>1, <2>1, PersistType, RowUpdate DEF Flush, RowOK
  <2>3. IoOK' /\ Awaited'
    BY <1>1, AdvanceType DEF Flush, worker
  <2>. QED
    BY <1>1, <2>2, <2>3, Kept DEF Flush
<1>2. CASE ReadRow(t)
  <2>1. row[io[t].job] \in Row \cup {Blank}
    BY <1>2 DEF ReadRow, IoOK, RowOK
  <2> DEFINE x == [io[t] EXCEPT !.stage = "commit", !.base = row[io[t].job]]
  <2>2. io' = [io EXCEPT ![t] = x]
    BY <1>2 DEF ReadRow
  <2>3. io[t].job \in Jobs /\ io[t] \in InFlight
    BY <1>2 DEF ReadRow, IoOK
  <2>4. x.job \in Jobs
    BY <2>3 DEF InFlight
  <2>5. x \in InFlight
    BY <2>1, <2>3 DEF InFlight, Stages
  <2>. HIDE DEF x
  <2>6. IoOK'
    BY <2>2, <2>4, <2>5, IoUpdate
  <2>7. \A u \in Threads : /\ io'[u].withResult = io[u].withResult
                           /\ io'[u].stage = "result" => io[u].stage = "result"
    BY <1>2 DEF ReadRow, IoOK, InFlight
  <2>8. pc' = pc /\ graph' = graph
    BY <1>2 DEF ReadRow, worker
  <2>9. Awaited'
    BY <2>7, <2>8, ThreadNames DEF Awaited
  <2>10. RestOK'
    BY <1>2, SpendKeepsRest DEF ReadRow, Kinds, table
  <2>. QED
    BY <1>2, <2>6, <2>9, <2>10, Kept DEF ReadRow, table
<1>3. CASE CommitRow(t)
  <2> DEFINE j    == io[t].job
             base == io[t].base
             new  == Persist(base, io[t].snap)
             cell == [c \in DOMAIN Blank |->
                        IF new[c] = base[c] /\ ~(c = "hb" /\ new.hb = "fresh")
                        THEN row[j][c] ELSE new[c]]
  <2>1. /\ j \in Jobs
        /\ base \in Row \cup {Blank}
        /\ io[t].snap \in Entry
    BY <1>3 DEF CommitRow, IoOK, InFlight
  <2>2. new \in Row
    BY <2>1, PersistType
  <2>3. row[j] \in Row => cell \in Row
    <3>1. cell = [status   |-> cell.status, attempts |-> cell.attempts,
                  owner    |-> cell.owner, hb |-> cell.hb, prog |-> cell.prog]
      BY DEF Blank
    <3>. HIDE DEF new, base, j
    <3>. QED
      BY <3>1, <2>2 DEF Blank, Row
  <2>. HIDE DEF cell
  <2>4. row' = IF (base = Blank) # (row[j] = Blank) THEN row
               ELSE [row EXCEPT ![j] = cell]
    BY <1>3 DEF CommitRow, cell
  <2>5. row[j] \notin Row => row[j] = Blank
    BY <2>1 DEF RowOK
  <2>6. ASSUME (base = Blank) # (row[j] = Blank) PROVE RowOK'
    BY <2>4, <2>6 DEF RowOK
  <2>7. ASSUME (base = Blank) = (row[j] = Blank) PROVE RowOK'
    <3>1. cell \in Row
      <4>1. ASSUME row[j] \in Row PROVE cell \in Row
        BY <2>3, <4>1
      <4>2. ASSUME row[j] = Blank PROVE cell \in Row
        <5>1. base = Blank
          BY <2>7, <4>2
        <5>2. cell = [c \in DOMAIN Blank |-> new[c]]
          BY <5>1, <2>2, UnsetIsNew DEF cell, Blank, Row
        <5>. QED
          BY <5>2, <2>2 DEF Blank, Row
      <4>. QED
        BY <2>5, <4>1, <4>2
    <3>. QED
      BY <3>1, <2>1, <2>4, <2>7, RowUpdate
  <2>8. RowOK'
    BY <2>6, <2>7
  <2>9. IoOK' /\ Awaited'
    BY <1>3, AdvanceType DEF CommitRow, worker
  <2>. QED
    BY <1>3, <2>8, <2>9, Kept DEF CommitRow
<1>4. CASE FlushLost(t)
  <2>1. IoOK' /\ Awaited'
    BY <1>4, AdvanceType DEF FlushLost, worker
  <2>2. RestOK'
    BY <1>4, SpendKeepsRest DEF FlushLost, Kinds, table
  <2>. QED
    BY <1>4, <2>1, <2>2, Kept DEF FlushLost, table
<1>5. CASE StoreResult(t)
  <2> DEFINE j == io[t].job
             p == ProcOfThread(t)
  <2>1. j \in Jobs /\ p \in Procs
    BY <1>5, ProcTypes DEF StoreResult, IoOK
  <2>2. RowOK'
    <3>1. row[j] = Blank \/ row[j] \in Row
      BY <2>1 DEF RowOK
    <3>. QED
      BY <1>5, <2>1, <3>1, NewRowIsRow, RowUpdate DEF StoreResult
  <2>3. MemOK'
    <3>1. (IF row[j] = Blank THEN mem[p][j] ELSE View(row[j], mem[p][j])) \in Entry
      BY <2>1, CurrentType DEF Current
    <3>2. mem' = [mem EXCEPT ![p][j] = IF row[j] = Blank THEN mem[p][j]
                                       ELSE View(row[j], mem[p][j])]
      BY <1>5, <2>1 DEF StoreResult, MemOK
    <3>. QED
      BY <2>1, <3>1, <3>2, MemUpdate
  <2>4. IoOK'
    BY <1>5, IdleType, IoUpdate DEF StoreResult
  <2>5. RestOK'
    BY <1>5, <2>1 DEF StoreResult, RestOK, history
  <2>6. Awaited'
    BY <1>5, AwaitedKept DEF StoreResult, NoNewResult, IoOK, Idle, worker
  <2>. QED
    BY <1>5, <2>2, <2>3, <2>4, <2>5, <2>6, Kept DEF StoreResult
<1>6. CASE ResultLost(t)
  <2>1. IoOK' /\ RestOK'
    BY <1>6, IdleType, IoUpdate, SpendKeepsRest DEF ResultLost, Kinds, table
  <2>2. io[t].withResult
    BY <1>6 DEF ResultLost, Awaited
  <2>3. NoNewResult
    BY <1>6 DEF ResultLost, NoNewResult, IoOK, Idle
  <2>4. WorkerOK' /\ \A w \in Workers : pc'[w] = pc[w] \/ t = Run(w)
    <3>1. CASE t[1] = "run"
      <4>1. PICK w \in Workers : t = Run(w)
        BY <3>1 DEF Threads, Run
      <4>2. pc[w] = "published" /\ Goto(w, "fail")
        BY <1>6, <2>2, <3>1, <4>1 DEF ResultLost, Awaited, Goto, Run
      <4>3. WorkerOK'
        BY <1>6, <4>2, GotoType DEF ResultLost, RunPcs, WorkerOK
      <4>. QED
        BY <4>1, <4>2, <4>3 DEF Goto, WorkerOK
    <3>2. CASE t[1] # "run"
      BY <1>6, <3>2, Kept DEF ResultLost, worker
    <3>. QED
      BY <3>1, <3>2
  <2>5. PipelineOK' /\ \A g \in Graphs : graph'[g].pc = graph[g].pc \/ t = Gt(g)
    <3>1. CASE t[1] = "graph"
      <4>1. PICK g \in Graphs : t = Gt(g)
        BY <3>1 DEF Threads, Gt
      <4>2. graph[g].pc = "enqueue" /\ GraphGoto(g, "failed") /\ UNCHANGED bg
        BY <1>6, <2>2, <3>1, <4>1 DEF ResultLost, Awaited, GraphGoto, Gt
      <4>. QED
        BY <4>1, <4>2 DEF GraphGoto, PipelineOK, GraphPcs
    <3>2. CASE t[1] # "graph"
      BY <1>6, <3>2, Kept DEF ResultLost
    <3>. QED
      BY <3>1, <3>2
  <2>6. Awaited'
    <3>1. \A x \in Threads : x # t => io'[x] = io[x]
      BY <1>6 DEF ResultLost, IoOK
    <3>2. ~io'[t].withResult /\ io'[t].stage # "result"
      BY <1>6 DEF ResultLost, IoOK, Idle
    <3>. QED
      BY <3>1, <3>2, <2>4, <2>5, ThreadNames DEF Awaited
  <2>. QED
    BY <1>6, <2>1, <2>4, <2>5, <2>6, Kept DEF ResultLost, table
<1>. QED
  BY <1>1, <1>2, <1>3, <1>4, <1>5, <1>6 DEF Write

-----------------------------------------------------------------------------
(* The worker loop *)

\* A process that ends takes its threads' state with it.
LEMMA HaltType ==
    ASSUME TypeOK, NEW p \in Procs, Halt(p), happened' \in [Kinds -> Nat]
    PROVE  TypeOK'
<1>. USE DEF TypeOK
<1>1. RowOK' /\ MemOK'
  BY BlankIsEntry DEF Halt, RowOK, MemOK, table
<1>2. IoOK'
  BY IdleType DEF Halt, IoOK
<1>3. SeenOK'
  BY BlankIsEntry DEF Halt, SeenOK, Nothing
<1>4. WorkerOK'
  BY DEF Halt, WorkerOK, RunPcs
<1>5. PipelineOK' /\ ApiOK'
  BY DEF Halt, PipelineOK, ApiOK, NoThread, NoRequest, GraphPcs, BgPcs, ApiPcs
<1>6. RestOK'
  BY DEF Halt, RestOK, table, history
<1>7. Awaited'
  <2>1. \A t \in Threads : /\ ProcOfThread(t) = p => io'[t] = Idle
                           /\ ProcOfThread(t) # p => io'[t] = io[t]
    BY DEF Halt
  <2>2. \A w \in Workers : ProcOfThread(Run(w)) = ProcOf[w]
    BY DEF ProcOfThread, Run
  <2>3. \A g \in Graphs : ProcOfThread(Gt(g)) = GraphProc(g)
    BY DEF ProcOfThread, Gt
  <2>4. \A w \in Workers : ProcOf[w] # p => pc'[w] = pc[w]
    BY DEF Halt
  <2>5. \A g \in Graphs : GraphProc(g) # p => graph'[g].pc = graph[g].pc
    BY DEF Halt
  <2>. QED
    BY <2>1, <2>2, <2>3, <2>4, <2>5, ThreadNames DEF Awaited, Idle
<1>. QED
  BY <1>1, <1>2, <1>3, <1>4, <1>5, <1>6, <1>7

LEMMA LoopType ==
    ASSUME TypeOK, NEW w \in Workers, Loop(w)
    PROVE  TypeOK'
<1>. USE DEF TypeOK
<1>p. ProcOf[w] \in Procs /\ Run(w) \in Threads
  BY ThreadNames
<1>1. CASE StartWorker(w)
  <2>1. RowOK' /\ MemOK'
    BY <1>1, <1>p, RecoverType DEF StartWorker
  <2>2. WorkerOK'
    BY <1>1 DEF StartWorker, WorkerOK, RunPcs
  <2>3. Awaited'
    BY <1>1, AwaitedKept, ThreadNames DEF StartWorker, NoNewResult, Awaited, WorkerOK
  <2>. QED
    BY <1>1, <2>1, <2>2, <2>3, Kept DEF StartWorker
<1>2. CASE ClaimNextJob(w)
  <2>1. PICK j \in Jobs :
          LET new == [row[j] EXCEPT !.status = "processing", !.attempts = @ + 1,
                                    !.owner = w, !.hb = "fresh", !.prog = KeptProg(@)]
          IN  /\ row[j].status = "pending"
              /\ InTime(\A t \in Threads : io[t].job # j)
              /\ row' = [row EXCEPT ![j] = new]
              /\ mem' = [mem EXCEPT ![ProcOf[w]][j] = new]
              /\ cur' = [cur EXCEPT ![w] = j]
    BY <1>2 DEF ClaimNextJob, Claimable
  <2> DEFINE new == [row[j] EXCEPT !.status = "processing", !.attempts = @ + 1,
                                   !.owner = w, !.hb = "fresh", !.prog = KeptProg(@)]
  <2>2. new \in Row
    <3>1. row[j] \in Row
      BY <2>1, UnsetIsNew DEF RowOK, Blank, Statuses, Active
    <3>2. KeptProg(row[j].prog) \in 0..2
      BY DEF KeptProg
    <3>3. row[j].attempts + 1 \in Nat
      BY <3>1 DEF Row
    <3>. QED
      BY <3>1, <3>2, <3>3 DEF new, Row, Statuses, Active
  <2>. HIDE DEF new
  <2>3. RowOK'
    BY <2>1, <2>2, RowUpdate DEF new
  <2>4. MemOK'
    BY <2>1, <2>2, <1>p, MemUpdate, RowIsEntry DEF new
  <2>5. WorkerOK'
    BY <1>2, <2>1 DEF ClaimNextJob, WorkerOK, RunPcs
  <2>6. RestOK'
    <3>1. happened' \in [Kinds -> Nat]
      BY <2>1, SpendType DEF InTime, RestOK, Kinds
    <3>. QED
      BY <1>2, <3>1 DEF ClaimNextJob, RestOK
  <2>7. Awaited'
    BY <1>2, AwaitedByRunner DEF ClaimNextJob, Goto, NoNewResult
  <2>. QED
    BY <1>2, <2>3, <2>4, <2>5, <2>6, <2>7, Kept DEF ClaimNextJob
<1>3. CASE ReclaimStaleJobs(w)
  <2>1. RowOK' /\ MemOK'
    BY <1>3, <1>p, RecoverType DEF ReclaimStaleJobs, Stale
  <2>. QED
    BY <1>3, <2>1, Kept DEF ReclaimStaleJobs, worker
<1>4. CASE IdlePoll(w)
  BY <1>4, Kept DEF IdlePoll, vars, worker, history
<1>5. CASE ReleaseOnShutdown(w)
  <2>1. cur[w] \in Jobs
    BY <1>5 DEF ReleaseOnShutdown, WorkerOK
  <2>2. Fields("pending", NoWorker, "none", 0) \in Entry /\ mem[ProcOf[w]][cur[w]] \in Entry
    BY <1>p, <2>1, FieldsType DEF Statuses, Active, MemOK
  <2>3. MemOK' /\ IoOK' /\ NoNewResult
    BY <1>5, <1>p, <2>1, <2>2, UpsertType DEF ReleaseOnShutdown, Upsert
  <2>4. WorkerOK'
    BY <1>5 DEF ReleaseOnShutdown, WorkerOK, RunPcs
  <2>5. RestOK'
    BY <1>5, SpendKeepsRest DEF ReleaseOnShutdown, Kinds, table
  <2>6. Awaited'
    BY <1>5, <2>3, AwaitedByRunner DEF ReleaseOnShutdown, Goto
  <2>. QED
    BY <1>5, <2>3, <2>4, <2>5, <2>6, Kept DEF ReleaseOnShutdown, table
<1>6. CASE ExitProcess(w)
  BY <1>6, <1>p, HaltType DEF ExitProcess, RestOK
<1>. QED
  BY <1>1, <1>2, <1>3, <1>4, <1>5, <1>6 DEF Loop

-----------------------------------------------------------------------------
(* The runner *)

LEMMA Holding ==
    ASSUME WorkerOK, MemOK, NEW w \in Workers, pc[w] \notin {"down", "poll"} \/ w \in beating
    PROVE  cur[w] \in Jobs /\ mem[ProcOf[w]][cur[w]] \in Entry
BY DEF WorkerOK, MemOK

LEMMA TouchType ==
    ASSUME MemOK, IoOK, NEW w \in Workers, NEW t \in Threads, cur[w] \in Jobs,
           TouchHeartbeat(t, w)
    PROVE  MemOK' /\ IoOK' /\ NoNewResult
<1>1. CASE UNCHANGED <<mem, io>>
  BY <1>1, Kept DEF NoNewResult
<1>2. CASE Upsert(t, ProcOf[w], cur[w], Fields(Unset, w, "fresh", Unset))
  <2> DEFINE f == Fields(Unset, w, "fresh", Unset)
  <2>1. f \in Entry
    BY FieldsType
  <2>2. mem[ProcOf[w]][cur[w]] \in Entry /\ ProcOf[w] \in Procs
    BY ProcTypes DEF MemOK
  <2>3. UpsertOn(mem[ProcOf[w]][cur[w]], t, ProcOf[w], cur[w], f, FALSE)
    BY <1>2 DEF Upsert
  <2>. HIDE DEF f
  <2>. QED
    BY <2>1, <2>2, <2>3, UpsertType
<1>. QED
  BY <1>1, <1>2 DEF TouchHeartbeat

LEMMA SetProgressType ==
    ASSUME MemOK, IoOK, NEW t \in Threads, NEW p \in Procs, NEW j \in Jobs,
           NEW prog \in 0..2, SetProgress(t, p, j, prog)
    PROVE  MemOK' /\ IoOK' /\ NoNewResult
<1> DEFINE f == Fields(Or(mem[p][j].status, "processing"), Unset, Unset, prog)
<1>1. CASE UNCHANGED <<mem, io>>
  BY <1>1, Kept DEF NoNewResult
<1>2. CASE Upsert(t, p, j, f)
  <2>1. mem[p][j] \in Entry
    BY DEF MemOK
  <2>2. Or(mem[p][j].status, "processing") \in Statuses \cup {Unset}
    BY <2>1 DEF Or, Entry, Statuses, Active
  <2>3. f \in Entry
    BY <2>2, FieldsType
  <2>. HIDE DEF f
  <2>. QED
    BY <1>2, <2>1, <2>3, UpsertType DEF Upsert
<1>. QED
  BY <1>1, <1>2 DEF SetProgress

LEMMA RunnerType ==
    ASSUME TypeOK, NEW w \in Workers, Runner(w)
    PROVE  TypeOK'
<1>. USE DEF TypeOK
<1> DEFINE p == ProcOf[w]
           j == cur[w]
<1>p. p \in Procs /\ Run(w) \in Threads
  BY ThreadNames
<1>a. ASSUME NEW label, At(w, label), label \notin {"down", "poll"}
      PROVE  /\ pc[w] = label /\ io[Run(w)] = Idle
             /\ j \in Jobs /\ mem[p][j] \in Entry
             /\ Current(p, j) \in Entry
             /\ Returned(Run(w), p, j) \in Entry
  BY <1>a, <1>p, Holding, CurrentType, ReturnedType DEF At
<1>. HIDE DEF p, j
<1>1. CASE BeginProcessing(w)
  <2>1. At(w, "claimed") /\ pc[w] = "claimed"
    BY <1>1 DEF BeginProcessing, At
  <2>2. Fields("processing", w, "fresh", 0) \in Entry
    BY FieldsType, StatusNames
  <2>3. MemOK' /\ IoOK' /\ NoNewResult
    BY <1>1, <1>p, <1>a, <2>1, <2>2, UpsertType DEF BeginProcessing, Upsert, p, j
  <2>4. WorkerOK'
    BY <1>1, <2>1, GotoType DEF BeginProcessing, RunPcs, WorkerOK
  <2>5. Awaited'
    BY <1>1, <2>1, <2>3, AwaitedByRunner DEF BeginProcessing
  <2>. QED
    BY <1>1, <2>3, <2>4, <2>5, Kept DEF BeginProcessing, table
<1>2. CASE FirstHeartbeat(w)
  <2>1. At(w, "begun") /\ pc[w] = "begun"
    BY <1>2 DEF FirstHeartbeat, At
  <2>2. MemOK' /\ IoOK' /\ NoNewResult
    BY <1>2, <1>p, <1>a, <2>1, TouchType DEF FirstHeartbeat, j
  <2>3. WorkerOK'
    BY <1>2, <2>1, GotoType DEF FirstHeartbeat, RunPcs, WorkerOK
  <2>4. Awaited'
    BY <1>2, <2>1, <2>2, AwaitedByRunner DEF FirstHeartbeat
  <2>. QED
    BY <1>2, <2>2, <2>3, <2>4, Kept DEF FirstHeartbeat, table
<1>3. CASE StorageFails(w)
  <2>1. pc[w] \in {"claimed", "download"} /\ io[Run(w)] = Idle
    BY <1>3 DEF StorageFails, At
  <2>2. WorkerOK'
    BY <1>3, <2>1, GotoType DEF StorageFails, RunPcs, WorkerOK
  <2>3. Awaited'
    BY <1>3, <2>1, AwaitedByRunner DEF StorageFails, NoNewResult
  <2>. QED
    BY <1>3, <2>2, <2>3, Kept DEF StorageFails, table
<1>4. CASE Downloaded(w)
  <2>1. At(w, "download") /\ pc[w] = "download"
    BY <1>4 DEF Downloaded, At
  <2>2. MemOK' /\ IoOK' /\ NoNewResult
    BY <1>4, <1>p, <1>a, <2>1, SetProgressType DEF Downloaded, p, j
  <2>3. WorkerOK'
    BY <1>4, <2>1, GotoType DEF Downloaded, RunPcs, WorkerOK
  <2>4. Awaited'
    BY <1>4, <2>1, <2>2, AwaitedByRunner DEF Downloaded
  <2>. QED
    BY <1>4, <2>2, <2>3, <2>4, Kept DEF Downloaded, table
<1>5. CASE LaunchGraph(w)
  <2>1. PICK g \in Graphs :
          /\ graph[g] = NoThread
          /\ graph' = [graph EXCEPT ![g] = [pc |-> "begin", job |-> j, worker |-> w]]
          /\ gr' = [gr EXCEPT ![w] = g]
    BY <1>5 DEF LaunchGraph, j
  <2>2. At(w, "launch") /\ pc[w] = "launch" /\ j \in Jobs
    BY <1>5, <1>a DEF LaunchGraph, At
  <2>3. WorkerOK'
    BY <1>5, <2>1, <2>2 DEF LaunchGraph, WorkerOK, Goto, RunPcs, j
  <2>4. PipelineOK'
    BY <1>5, <2>1, <2>2 DEF LaunchGraph, PipelineOK, GraphPcs
  <2>5. Awaited'
    <3>1. ~io[Gt(g)].withResult
      BY <2>1 DEF Awaited, NoThread
    <3>. QED
      BY <1>5, <2>1, <2>2, <3>1, AwaitedKept
      DEF LaunchGraph, NoNewResult, At, Idle, Goto, WorkerOK, PipelineOK
  <2>. QED
    BY <1>5, <2>3, <2>4, <2>5, Kept DEF LaunchGraph, table
<1>6. CASE RuntimeExceeded(w)
  <2>1. At(w, "join") /\ pc[w] = "join"
    BY <1>6 DEF RuntimeExceeded, At
  <2>2. WorkerOK'
    BY <1>6, <2>1, GotoType DEF RuntimeExceeded, RunPcs, WorkerOK
  <2>3. Awaited'
    BY <1>6, <2>1, AwaitedByRunner DEF RuntimeExceeded, NoNewResult
  <2>4. RestOK'
    BY <1>6, SpendKeepsRest DEF RuntimeExceeded, Kinds, table
  <2>. QED
    BY <1>6, <2>2, <2>3, <2>4, Kept DEF RuntimeExceeded, table

<1>7. CASE JoinCancelled(w)
  <2>1. At(w, "join") /\ pc[w] = "join"
    BY <1>7 DEF JoinCancelled, At
  <2>2. SeenOK'
    BY <1>7, <1>p, <1>a, <2>1, GetJobType DEF JoinCancelled, p, j
  <2>3. WorkerOK'
    BY <1>7, <2>1, GotoType DEF JoinCancelled, RunPcs, WorkerOK
  <2>4. Awaited'
    BY <1>7, <2>1, AwaitedByRunner DEF JoinCancelled, NoNewResult
  <2>5. RestOK'
    BY <1>7, UnflagType DEF JoinCancelled, table, RestOK
  <2>. QED
    BY <1>7, <2>2, <2>3, <2>4, <2>5, Kept DEF JoinCancelled, table
<1>8. CASE WriteCancelled(w)
  <2> DEFINE e == Returned(Run(w), p, j)
             f == Fields("cancelled", NoWorker, "none", Unset)
  <2>1. At(w, "cancelling")
    BY <1>8 DEF WriteCancelled
  <2>2. f \in Entry
    BY FieldsType, StatusNames
  <2>3. MemOK' /\ IoOK' /\ NoNewResult
    <3>1. CASE mem' = [mem EXCEPT ![p][j] = e] /\ UNCHANGED io
      BY <3>1, <1>p, <1>a, <2>1, MemUpdate, Kept DEF NoNewResult
    <3>2. CASE UpsertOn(e, Run(w), p, j, f, FALSE)
      BY <3>2, <1>p, <1>a, <2>1, <2>2, UpsertType
    <3>. QED
      BY <1>8, <3>1, <3>2 DEF WriteCancelled, p, j
  <2>4. WorkerOK'
    BY <1>8, ReturnType DEF WriteCancelled
  <2>5. Awaited'
    BY <1>8, <2>1, <2>3, AwaitedByRunner DEF WriteCancelled, Return
  <2>. QED
    BY <1>8, <2>3, <2>4, <2>5, <1>p, ForgetType, Kept DEF WriteCancelled, table
<1>9. CASE JoinFailed(w)
  <2>1. At(w, "join") /\ pc[w] = "join"
    BY <1>9 DEF JoinFailed, At
  <2>2. WorkerOK'
    BY <1>9, <2>1, GotoType DEF JoinFailed, RunPcs, WorkerOK
  <2>3. Awaited'
    BY <1>9, <2>1, AwaitedByRunner DEF JoinFailed, NoNewResult
  <2>. QED
    BY <1>9, <2>2, <2>3, Kept DEF JoinFailed, table
<1>10. CASE JoinDone(w)
  <2>1. At(w, "join") /\ pc[w] = "join"
    BY <1>10 DEF JoinDone, At
  <2>2. WorkerOK'
    BY <1>10, <2>1, GotoType DEF JoinDone, RunPcs, WorkerOK
  <2>3. Awaited'
    BY <1>10, <2>1, AwaitedByRunner DEF JoinDone, NoNewResult
  <2>. QED
    BY <1>10, <2>2, <2>3, Kept DEF JoinDone, table
<1>11. CASE FinishCancelled(w)
  <2>1. At(w, "finished")
    BY <1>11 DEF FinishCancelled
  <2>2. WorkerOK'
    BY <1>11, ReturnType DEF FinishCancelled
  <2>3. Awaited'
    BY <1>11, <2>1, AwaitedByRunner DEF FinishCancelled, Return, NoNewResult
  <2>4. RestOK'
    BY <1>11, UnflagType, InTimeBudget DEF FinishCancelled, HeartbeatStopped, table, RestOK
  <2>. QED
    BY <1>11, <2>2, <2>3, <2>4, Kept DEF FinishCancelled, table
<1>12. CASE FinishAbandoned(w) \/ FinishChecked(w)
  <2>1. At(w, "finished") /\ pc[w] = "finished"
    BY <1>12 DEF FinishAbandoned, FinishChecked, At
  <2>2. MemOK'
    BY <1>12, <1>p, <1>a, <2>1, MemUpdate DEF FinishAbandoned, FinishChecked, Reload, p, j
  <2>3. WorkerOK'
    BY <1>12, <2>1, GotoType DEF FinishAbandoned, FinishChecked, RunPcs, WorkerOK
  <2>4. Awaited'
    BY <1>12, <2>1, AwaitedByRunner DEF FinishAbandoned, FinishChecked, NoNewResult
  <2>5. RestOK'
    BY <1>12, InTimeType DEF FinishAbandoned, FinishChecked, HeartbeatStopped, table
  <2>. QED
    BY <1>12, <2>2, <2>3, <2>4, <2>5, Kept DEF FinishAbandoned, FinishChecked, table
<1>13. CASE PublishResult(w)
  <2> DEFINE e == Current(p, j)
             prog == IF j \in result /\ e.prog # 2 THEN 1 ELSE 2
             f == Fields("complete", NoWorker, "none", prog)
  <2>1. At(w, "publish") /\ pc[w] = "publish"
    BY <1>13 DEF PublishResult, At
  <2>a. prog \in 0..2
    BY DEF prog
  <2>b. HIDE DEF prog
  <2>2. f \in Entry
    BY <2>a, StatusNames, FieldsType
  <2>3. UpsertOn(e, Run(w), p, j, f, TRUE)
    BY <1>13 DEF PublishResult, p, j, prog
  <2>4. e \in Entry /\ j \in Jobs
    BY <1>a, <2>1
  <2>. HIDE DEF e, f
  <2>5. MemOK' /\ IoOK'
    BY <1>p, <2>2, <2>3, <2>4, UpsertType
  <2>6. WorkerOK'
    BY <1>13, <2>1, GotoType DEF PublishResult, RunPcs, WorkerOK
  <2>7. Awaited'
    BY <1>13, <2>1, <2>3, ThreadNames
    DEF PublishResult, UpsertOn, Goto, Awaited, IoOK, WorkerOK
  <2>. QED
    BY <1>13, <2>5, <2>6, <2>7, Kept DEF PublishResult, table
<1>14. CASE Published(w)
  <2>1. At(w, "published")
    BY <1>14 DEF Published
  <2>2. WorkerOK'
    BY <1>14, ReturnType DEF Published
  <2>3. Awaited'
    BY <1>14, <2>1, AwaitedByRunner DEF Published, Return, NoNewResult
  <2>. QED
    BY <1>14, <2>2, <2>3, Kept DEF Published, table
<1>15. CASE FailRead(w)
  <2>1. At(w, "fail") /\ pc[w] = "fail"
    BY <1>15 DEF FailRead, At
  <2>2. SeenOK'
    BY <1>15, <1>p, <1>a, <2>1, GetJobType DEF FailRead, p, j
  <2>3. WorkerOK'
    BY <1>15, <2>1, GotoType DEF FailRead, RunPcs, WorkerOK
  <2>4. Awaited'
    BY <1>15, <2>1, AwaitedByRunner DEF FailRead, NoNewResult
  <2>5. RestOK'
    BY <1>15, InTimeType DEF FailRead, HeartbeatStopped, table
  <2>. QED
    BY <1>15, <2>2, <2>3, <2>4, <2>5, Kept DEF FailRead, table
<1>16. CASE FailOrRetry(w)
  <2> DEFINE e == Returned(Run(w), p, j)
             f == IF MayRetry(Or(e.attempts, 0))
                  THEN Fields("pending", NoWorker, "none", 0)
                  ELSE Fields("error", NoWorker, "none", 2)
  <2>1. At(w, "failing")
    BY <1>16 DEF FailOrRetry
  <2>2. f \in Entry
    BY FieldsType, StatusNames
  <2>3. e \in Entry /\ j \in Jobs
    BY <1>a, <2>1
  <2>4. \/ mem' = [mem EXCEPT ![p][j] = e] /\ Unflag(w) /\ UNCHANGED io
        \/ UpsertOn(e, Run(w), p, j, f, FALSE) /\ UNCHANGED cancelReq
    BY <1>16 DEF FailOrRetry, p, j
  <2>. HIDE DEF e, f
  <2>5. MemOK' /\ IoOK' /\ NoNewResult
    <3>1. CASE mem' = [mem EXCEPT ![p][j] = e] /\ UNCHANGED io
      BY <3>1, <1>p, <2>3, MemUpdate, Kept DEF NoNewResult
    <3>2. CASE UpsertOn(e, Run(w), p, j, f, FALSE)
      BY <3>2, <1>p, <2>2, <2>3, UpsertType
    <3>. QED
      BY <2>4, <3>1, <3>2
  <2>6. WorkerOK'
    BY <1>16, ReturnType DEF FailOrRetry
  <2>7. Awaited'
    BY <1>16, <2>1, <2>5, AwaitedByRunner DEF FailOrRetry, Return
  <2>8. RestOK'
    BY <1>16, <2>4, UnflagType, Kept DEF FailOrRetry, table, RestOK
  <2>. QED
    BY <1>16, <2>5, <2>6, <2>7, <2>8, <1>p, ForgetType, Kept DEF FailOrRetry, table
<1>. QED
  BY <1>1, <1>2, <1>3, <1>4, <1>5, <1>6, <1>7, <1>8, <1>9, <1>10, <1>11, <1>12,
     <1>13, <1>14, <1>15, <1>16 DEF Runner

LEMMA BeatType ==
    ASSUME TypeOK, NEW w \in Workers, Beat(w)
    PROVE  TypeOK'
<1>. USE DEF TypeOK
<1>1. cur[w] \in Jobs /\ Hb(w) \in Threads
  BY Holding, ThreadNames DEF Beat
<1>2. MemOK' /\ IoOK' /\ NoNewResult
  <2>1. CASE UNCHANGED <<mem, io>>
    BY <2>1, Kept DEF NoNewResult
  <2>2. CASE TouchHeartbeat(Hb(w), w)
    BY <2>2, <1>1, TouchType
  <2>. QED
    BY <2>1, <2>2 DEF Beat
<1>3. WorkerOK'
  BY DEF Beat, WorkerOK
<1>4. Awaited'
  BY <1>2, AwaitedKept DEF Beat
<1>. QED
  BY <1>2, <1>3, <1>4, Kept DEF Beat, table

-----------------------------------------------------------------------------
(* The pipeline *)

LEMMA GraphGotoType ==
    ASSUME PipelineOK, NEW g \in Graphs, graph[g].pc # "idle",
           NEW label \in GraphPcs, GraphGoto(g, label),
           bg' = bg \/ \E next \in BgPcs : bg' = [bg EXCEPT ![g] = next]
    PROVE  PipelineOK'
<1>1. bg' \in [Graphs -> BgPcs]
  BY DEF PipelineOK
<1>2. graph' \in [Graphs -> [pc : GraphPcs, job : Jobs \cup {NoJob},
                            worker : Workers \cup {NoWorker}]]
  BY DEF PipelineOK, GraphGoto
<1>3. \A h \in Graphs : graph'[h].job = graph[h].job /\ (h # g => graph'[h] = graph[h])
  BY DEF PipelineOK, GraphGoto
<1>4. \A h \in Graphs : h # g => bg'[h] = bg[h]
  BY DEF PipelineOK
<1>. QED
  BY <1>1, <1>2, <1>3, <1>4 DEF PipelineOK

LEMMA GraphType ==
    ASSUME TypeOK, NEW g \in Graphs, Graph(g)
    PROVE  TypeOK'
<1>. USE DEF TypeOK
<1> DEFINE p == GraphProc(g)
           j == graph[g].job
<1>p. p \in Procs /\ Gt(g) \in Threads
  BY ThreadNames, ProcTypes
<1>a. ASSUME NEW label, GraphAt(g, label), label # "idle"
      PROVE  graph[g].pc = label /\ io[Gt(g)] = Idle /\ j \in Jobs /\ mem[p][j] \in Entry
  BY <1>a, <1>p DEF GraphAt, PipelineOK, MemOK
<1>b. ASSUME NEW label, GraphAt(g, label), NoNewResult, UNCHANGED pc,
             graph' = graph \/ \E next : GraphGoto(g, next)
      PROVE  Awaited'
  <2>1. ~io[Gt(g)].withResult
    BY <1>b DEF GraphAt, Idle
  <2>2. \A h \in Graphs : graph'[h].pc = graph[h].pc \/ h = g
    BY <1>b DEF GraphGoto, PipelineOK
  <2>. QED
    BY <1>b, <2>1, <2>2, AwaitedKept
<1>. HIDE DEF p, j
<1>1. CASE StartJob(g)
  <2>1. GraphAt(g, "begin")
    BY <1>1 DEF StartJob
  <2>2. Fields("processing", Unset, Unset, 0) \in Entry
    BY FieldsType, StatusNames
  <2>3. MemOK' /\ IoOK' /\ NoNewResult
    BY <1>1, <1>p, <1>a, <2>1, <2>2, UpsertType DEF StartJob, Upsert, p, j
  <2>4. PipelineOK' /\ Awaited'
    BY <1>1, <1>a, <1>b, <2>1, <2>3, GraphGotoType DEF StartJob, GraphPcs, worker
  <2>. QED
    BY <1>1, <2>3, <2>4, Kept DEF StartJob, table
<1>2. CASE ProgressTick(g)
  <2>1. GraphAt(g, "work")
    BY <1>2 DEF ProgressTick
  <2>2. MemOK' /\ IoOK' /\ NoNewResult
    <3>1. CASE SetProgress(Gt(g), p, j, 0)
      BY <3>1, <1>p, <1>a, <2>1, SetProgressType
    <3>2. CASE /\ mem' = [mem EXCEPT ![p][j] = [mem[p][j] EXCEPT
                                !.status = Or(@, "processing"), !.prog = 0]]
               /\ UNCHANGED io
      <4>1. mem[p][j].status = Unset \/ mem[p][j].status \in Statuses
        BY <1>a, <2>1 DEF Entry
      <4>2. Or(mem[p][j].status, "processing") \in Statuses
        BY <4>1, StatusNames DEF Or
      <4> DEFINE e == [mem[p][j] EXCEPT !.status = Or(@, "processing"), !.prog = 0]
      <4>3. e \in Entry
        BY <1>a, <2>1, <4>2, ProgressType
      <4>4. mem' = [mem EXCEPT ![p][j] = e]
        BY <3>2
      <4>. HIDE DEF e
      <4>5. MemOK'
        BY <1>p, <1>a, <2>1, <4>3, <4>4, MemUpdate
      <4>. QED
        BY <3>2, <4>5, Kept DEF NoNewResult
    <3>. QED
      BY <1>2, <3>1, <3>2 DEF ProgressTick, p, j
  <2>3. Awaited'
    BY <1>2, <1>b, <2>1, <2>2 DEF ProgressTick, worker
  <2>. QED
    BY <1>2, <2>2, <2>3, Kept DEF ProgressTick, table
<1>3. CASE GraphFails(g)
  <2>1. GraphAt(g, "work")
    BY <1>3 DEF GraphFails
  <2>2. PipelineOK' /\ Awaited'
    BY <1>3, <1>a, <1>b, <2>1, GraphGotoType DEF GraphFails, GraphPcs, NoNewResult, worker
  <2>. QED
    BY <1>3, <2>2, Kept DEF GraphFails, table
<1>4. CASE SummaryReady(g)
  <2>1. GraphAt(g, "work")
    BY <1>4 DEF SummaryReady
  <2>2. MemOK' /\ IoOK' /\ NoNewResult
    BY <1>4, <1>p, <1>a, <2>1, SetProgressType DEF SummaryReady, p, j
  <2>3. PipelineOK' /\ Awaited'
    BY <1>4, <1>a, <1>b, <2>1, <2>2, GraphGotoType DEF SummaryReady, GraphPcs, worker
  <2>. QED
    BY <1>4, <2>2, <2>3, Kept DEF SummaryReady, table
<1>5. CASE DeliverSummary(g)
  <2> DEFINE f == Fields("complete", Unset, Unset, 1)
  <2>1. GraphAt(g, "deliver")
    BY <1>5 DEF DeliverSummary
  <2>2. UpsertOn(mem[p][j], Gt(g), p, j, f, TRUE) /\ GraphGoto(g, "enqueue")
    BY <1>5 DEF DeliverSummary, p, j
  <2>3. f \in Entry
    BY FieldsType, StatusNames
  <2>. HIDE DEF f
  <2>4. MemOK' /\ IoOK'
    BY <1>p, <1>a, <2>1, <2>2, <2>3, UpsertType
  <2>5. PipelineOK'
    BY <1>5, <1>a, <2>1, <2>2, GraphGotoType DEF DeliverSummary, GraphPcs
  <2>6. Awaited'
    BY <1>5, <1>p, <2>2, ThreadNames
    DEF DeliverSummary, UpsertOn, GraphGoto, Awaited, IoOK, PipelineOK, worker
  <2>. QED
    BY <1>5, <2>4, <2>5, <2>6, Kept DEF DeliverSummary, table
<1>6. CASE EnqueuePostSummary(g)
  <2>1. GraphAt(g, "enqueue")
    BY <1>6 DEF EnqueuePostSummary
  <2>2. /\ GraphGoto(g, "done")
        /\ bg' = bg \/ bg' = [bg EXCEPT ![g] = "index"]
        /\ UNCHANGED <<io, pc>>
    BY <1>6 DEF EnqueuePostSummary, worker
  <2>3. PipelineOK'
    BY <1>a, <2>1, <2>2, GraphGotoType DEF GraphPcs, BgPcs
  <2>4. Awaited'
    BY <1>b, <2>1, <2>2 DEF NoNewResult
  <2>. QED
    BY <1>6, <2>3, <2>4, Kept DEF EnqueuePostSummary, table
<1>7. CASE ReapGraph(g)
  <2>1. PipelineOK'
    BY <1>7 DEF ReapGraph, PipelineOK, NoThread, GraphPcs
  <2>2. SeenOK'
    BY <1>7, BlankIsEntry DEF ReapGraph, SeenOK, Nothing
  <2>3. Awaited'
    BY <1>7, AwaitedKept DEF ReapGraph, NoNewResult, Awaited, PipelineOK, worker
  <2>. QED
    BY <1>7, <2>1, <2>2, <2>3, Kept DEF ReapGraph, table
<1>. QED
  BY <1>1, <1>2, <1>3, <1>4, <1>5, <1>6, <1>7 DEF Graph

LEMMA BackgroundType ==
    ASSUME TypeOK, NEW g \in Graphs, Background(g)
    PROVE  TypeOK'
<1>. USE DEF TypeOK
<1> DEFINE p == GraphProc(g)
           j == graph[g].job
<1>p. p \in Procs /\ Bt(g) \in Threads
  BY ThreadNames, ProcTypes
<1>a. ASSUME NEW label, BgAt(g, label), label # "off"
      PROVE  /\ bg[g] = label /\ j \in Jobs /\ mem[p][j] \in Entry
             /\ Current(p, j) \in Entry
             /\ Returned(Bt(g), p, j) \in Entry
  BY <1>a, <1>p, CurrentType, ReturnedType DEF BgAt, PipelineOK
<1>b. ASSUME NEW from, NEW next \in BgPcs, bg[g] = from, from # "off", BgGoto(g, next),
             UNCHANGED graph
      PROVE  PipelineOK'
  BY <1>b DEF PipelineOK, BgGoto
<1>. HIDE DEF p, j
<1>1. ASSUME NEW from \in {"index", "carbon", "wrapup"}, NEW floor \in 1..2,
             NEW to \in BgPcs, SetBg(g, from, floor, to)
      PROVE  TypeOK'
  <2> DEFINE old == Or(mem[p][j].prog, 0)
             f == Fields(Unset, Unset, Unset, IF old > floor THEN old ELSE floor)
  <2>1. BgAt(g, from)
    BY <1>1 DEF SetBg
  <2>2. f \in Entry
    <3>1. old \in 0..2
      BY <1>a, <2>1 DEF Or, Entry
    <3>. HIDE DEF old
    <3>. QED
      BY <3>1, FieldsType
  <2>3. Upsert(Bt(g), p, j, f)
    BY <1>1 DEF SetBg, p, j
  <2>. HIDE DEF f
  <2>4. MemOK' /\ IoOK' /\ NoNewResult
    BY <1>p, <1>a, <2>1, <2>2, <2>3, UpsertType DEF Upsert
  <2>5. PipelineOK'
    BY <1>1, <1>a, <1>b, <2>1 DEF SetBg
  <2>6. Awaited'
    BY <1>1, <2>4, AwaitedKept DEF SetBg, worker
  <2>. QED
    BY <1>1, <2>4, <2>5, <2>6, Kept DEF SetBg, table
<1>2. CASE FinalizeRead(g)
  <2>1. BgAt(g, "finalize")
    BY <1>2 DEF FinalizeRead
  <2>2. SeenOK'
    BY <1>2, <1>p, <1>a, <2>1, GetJobType DEF FinalizeRead, p, j
  <2>3. PipelineOK'
    BY <1>2, <1>a, <1>b, <2>1 DEF FinalizeRead, BgPcs
  <2>. QED
    BY <1>2, <2>2, <2>3, Kept DEF FinalizeRead, table, worker
<1>3. CASE FinalizeMetrics(g)
  <2> DEFINE e == Returned(Bt(g), p, j)
             f == Fields(IF e.status \in Done THEN "complete" ELSE "processing",
                         Unset, Unset, 2)
  <2>1. BgAt(g, "finalizing")
    BY <1>3 DEF FinalizeMetrics
  <2>2. f \in Entry
    BY FieldsType, StatusNames
  <2>3. UpsertOn(e, Bt(g), p, j, f, FALSE)
    BY <1>3 DEF FinalizeMetrics, p, j
  <2>. HIDE DEF f
  <2>4. MemOK' /\ IoOK' /\ NoNewResult
    BY <1>p, <1>a, <2>1, <2>2, <2>3, UpsertType
  <2>5. PipelineOK'
    BY <1>3, <1>a, <1>b, <2>1 DEF FinalizeMetrics, BgPcs
  <2>6. Awaited'
    BY <1>3, <2>4, AwaitedKept DEF FinalizeMetrics, worker
  <2>. QED
    BY <1>3, <2>4, <2>5, <2>6, <1>p, ForgetType, Kept DEF FinalizeMetrics, table
<1>4. CASE FinalizeFails(g)
  <2>1. BgAt(g, "finalizing")
    BY <1>4 DEF FinalizeFails
  <2>2. PipelineOK'
    BY <1>4, <1>a, <1>b, <2>1 DEF FinalizeFails, BgPcs
  <2>. QED
    BY <1>4, <2>2, <1>p, ForgetType, Kept DEF FinalizeFails, table, worker
<1>5. CASE PatchResultCarbon(g)
  <2> DEFINE f == Fields("complete", Unset, Unset, 2)
  <2>1. BgAt(g, "patch")
    BY <1>5 DEF PatchResultCarbon
  <2>2. f \in Entry
    BY FieldsType, StatusNames
  <2>3. UpsertOn(Current(p, j), Bt(g), p, j, f, TRUE)
    BY <1>5 DEF PatchResultCarbon, p, j
  <2>. HIDE DEF f
  <2>4. MemOK' /\ IoOK'
    BY <1>p, <1>a, <2>1, <2>2, <2>3, UpsertType
  <2>5. PipelineOK'
    BY <1>5, <1>a, <1>b, <2>1 DEF PatchResultCarbon, BgPcs
  <2>6. Awaited'
    BY <1>5, <1>p, <2>3, ThreadNames
    DEF PatchResultCarbon, UpsertOn, Awaited, IoOK, worker
  <2>. QED
    BY <1>5, <2>4, <2>5, <2>6, Kept DEF PatchResultCarbon, table
<1>. QED
  BY <1>1, <1>2, <1>3, <1>4, <1>5 DEF Background, BgPcs

-----------------------------------------------------------------------------
(* The API *)

LEMMA ApiType ==
    ASSUME TypeOK, NEW r \in Requests, Api(r)
    PROVE  TypeOK'
<1>. USE DEF TypeOK
<1> DEFINE p == ApiProc
           j == ApiJob(r)
           e == ApiEntry(r)
<1>p. p \in Procs /\ Rt(r) \in Threads
  BY ThreadNames
<1>a. ASSUME NEW label, ApiAt(r, label), label # "idle"
      PROVE  /\ j \in Jobs /\ mem[p][j] \in Entry /\ e \in Entry
             /\ \A next \in ApiPcs : ApiGoto(r, next) => ApiOK'
  <2>1. api[r].pc = label /\ j \in Jobs
    BY <1>a DEF ApiAt, ApiJob, ApiOK
  <2>2. e \in Entry
    BY <1>p, <2>1, ReturnedType DEF ApiEntry, ApiJob
  <2>3. ASSUME NEW next \in ApiPcs, ApiGoto(r, next) PROVE ApiOK'
    BY <2>1, <2>3 DEF ApiGoto, ApiOK, NoRequest, ApiPcs, ApiJob
  <2>. QED
    BY <1>p, <2>1, <2>2, <2>3 DEF MemOK
<1>r. ASSUME NEW label, ApiAt(r, label), label # "idle", Refresh(r)
      PROVE  MemOK'
  BY <1>p, <1>a, <1>r, MemUpdate DEF Refresh
<1>u. ASSUME NEW label, ApiAt(r, label), label # "idle",
             NEW f \in Entry, ApiUpsert(r, f)
      PROVE  MemOK' /\ IoOK' /\ NoNewResult
  BY <1>p, <1>a, <1>u, UpsertType DEF ApiUpsert
<1>w. ASSUME NoNewResult, UNCHANGED worker, UNCHANGED graph
      PROVE  WorkerOK' /\ Awaited'
  BY <1>w, Kept, AwaitedKept DEF worker
<1>i. UNCHANGED io => NoNewResult
  BY DEF NoNewResult
<1>c. ASSUME NEW label, ApiAt(r, label), label # "idle", CancelActive(r),
             UNCHANGED <<result, history, happened>>
      PROVE  MemOK' /\ IoOK' /\ NoNewResult /\ RestOK'
  <2>1. Fields("cancelled", NoWorker, "none", Unset) \in Entry
    BY FieldsType, StatusNames
  <2>2. CASE /\ cancelReq' = [cancelReq EXCEPT ![ApiProc] = @ \cup {j}]
             /\ ApiUpsert(r, Fields("cancelled", NoWorker, "none", Unset))
    <3>1. RestOK'
      BY <1>a, <1>c, <2>2 DEF RestOK, history
    <3>. QED
      BY <1>c, <1>u, <2>1, <2>2, <3>1
  <2>3. CASE Refresh(r) /\ UNCHANGED <<cancelReq, io>>
    BY <1>c, <1>r, <1>i, <2>3, Kept
  <2>. QED
    BY <1>c, <2>2, <2>3 DEF CancelActive
<1>. HIDE DEF p, j, e
<1>1. ASSUME NEW k \in Jobs, EnqueueJob(r, k) PROVE TypeOK'
  <2>1. MemOK' /\ IoOK' /\ NoNewResult
    <3>1. NewRow \in Entry /\ mem[p][k] \in Entry
      BY <1>p, NewRowIsRow, RowIsEntry DEF MemOK
    <3>2. UpsertOn(mem[p][k], Rt(r), p, k, NewRow, FALSE)
      BY <1>1 DEF EnqueueJob, Upsert, p
    <3>. QED
      BY <1>p, <3>1, <3>2, UpsertType
  <2>2. RestOK'
    BY <1>1 DEF EnqueueJob, RestOK, table
  <2>. QED
    BY <1>1, <1>w, <2>1, <2>2, Kept DEF EnqueueJob, table
<1>2. ASSUME NEW k \in Jobs, NEW kind \in {"poll", "cancel", "purge"},
             Request(r, k, kind, kind)
      PROVE  TypeOK'
  <2>1. SeenOK'
    BY <1>2, <1>p, GetJobType DEF Request, p
  <2>2. ApiOK'
    BY <1>2 DEF Request, ApiOK, ApiPcs
  <2>3. RestOK'
    BY <1>2, SpendKeepsRest DEF Request, Kinds, table
  <2>. QED
    BY <1>2, <1>i, <1>w, <2>1, <2>2, <2>3, Kept DEF Request, table
<1>3. CASE PollDecide(r)
  <2>1. ApiAt(r, "poll") /\ Refresh(r) /\ \E next \in ApiPcs : ApiGoto(r, next)
    BY <1>3 DEF PollDecide, ApiPcs
  <2>2. MemOK' /\ ApiOK'
    BY <1>a, <1>r, <2>1
  <2>. QED
    BY <1>3, <1>i, <1>w, <2>2, <1>p, ForgetType, Kept DEF PollDecide, table
<1>4. ASSUME NEW from, from # "idle", NEW to \in ApiPcs, Reread(r, from, to)
      PROVE  TypeOK'
  <2>1. SeenOK' /\ ApiOK'
    BY <1>4, <1>p, <1>a, GetJobType DEF Reread, p, j
  <2>. QED
    BY <1>4, <1>i, <1>w, <2>1, Kept DEF Reread, table
<1>5. CASE RequeueStalled(r)
  <2>1. ApiAt(r, "requeue")
    BY <1>5 DEF RequeueStalled
  <2>2. /\ \E next \in ApiPcs : ApiGoto(r, next)
        /\ \/ Refresh(r) /\ UNCHANGED io
           \/ \E status \in Statuses :
                ApiUpsert(r, Fields(status, NoWorker, "none", KeptProg(Or(e.prog, 0))))
    BY <1>5, StatusNames DEF RequeueStalled, ApiPcs, e
  <2>3. KeptProg(Or(e.prog, 0)) \in 0..2
    BY DEF KeptProg
  <2>4. MemOK' /\ IoOK' /\ NoNewResult
    <3>1. CASE Refresh(r) /\ UNCHANGED io
      BY <1>r, <1>i, <2>1, <3>1, Kept
    <3>2. CASE \E status \in Statuses :
                 ApiUpsert(r, Fields(status, NoWorker, "none", KeptProg(Or(e.prog, 0))))
      <4>1. PICK status \in Statuses :
                 ApiUpsert(r, Fields(status, NoWorker, "none", KeptProg(Or(e.prog, 0))))
        BY <3>2
      <4>2. Fields(status, NoWorker, "none", KeptProg(Or(e.prog, 0))) \in Entry
        BY <2>3, FieldsType
      <4>. QED
        BY <1>u, <2>1, <4>1, <4>2
    <3>. QED
      BY <2>2, <3>1, <3>2
  <2>5. ApiOK'
    BY <1>a, <2>1, <2>2
  <2>. QED
    BY <1>5, <1>w, <2>4, <2>5, <1>p, ForgetType, Kept DEF RequeueStalled, table
<1>6. CASE HealRead(r)
  BY <1>4, <1>6 DEF HealRead, ApiPcs
<1>7. CASE Heal(r)
  <2>1. ASSUME ApiAt(r, "healing"),
               ApiUpsert(r, Fields("complete", NoWorker, "none", 2)),
               ApiGoto(r, "confirm"),
               UNCHANGED <<table, cancelReq, worker, graph, bg, history, happened>>,
               Forget(Rt(r))
        PROVE  TypeOK'
    <3>1. Fields("complete", NoWorker, "none", 2) \in Entry
      BY FieldsType, StatusNames
    <3>2. MemOK' /\ IoOK' /\ NoNewResult
      BY <1>u, <2>1, <3>1
    <3>3. ApiOK'
      BY <1>a, <2>1 DEF ApiPcs
    <3>. QED
      BY <1>p, <1>w, <2>1, <3>2, <3>3, ForgetType, Kept DEF table
  <2>2. ASSUME ApiAt(r, "settle"), Refresh(r), ApiGoto(r, "idle"),
               UNCHANGED <<table, cancelReq, io, worker, graph, bg, history, happened>>,
               Forget(Rt(r))
        PROVE  TypeOK'
    <3>1. MemOK' /\ ApiOK'
      BY <1>a, <1>r, <2>2 DEF ApiPcs
    <3>. QED
      BY <1>p, <1>i, <1>w, <2>2, <3>1, ForgetType, Kept DEF table
  <2>. QED
    BY <1>7, <2>1, <2>2 DEF Heal
<1>8. CASE CancelJob(r)
  <2>1. MemOK' /\ IoOK' /\ NoNewResult /\ RestOK' /\ ApiOK'
    BY <1>8, <1>a, <1>c DEF CancelJob, ApiPcs, table
  <2>. QED
    BY <1>8, <1>w, <2>1, <1>p, ForgetType, Kept DEF CancelJob, table
<1>9. CASE PurgeCancel(r)
  <2>1. MemOK' /\ IoOK' /\ NoNewResult /\ RestOK' /\ ApiOK'
    BY <1>9, <1>a, <1>c DEF PurgeCancel, ApiPcs, table
  <2>. QED
    BY <1>9, <1>w, <2>1, <1>p, ForgetType, Kept DEF PurgeCancel, table
<1>10. CASE DeleteRecord(r)
  <2>1. ApiAt(r, "erase") /\ j \in Jobs /\ ApiOK'
    BY <1>10, <1>a DEF DeleteRecord, ApiPcs
  <2>2. RowOK' /\ MemOK'
    BY <1>10, <1>p, <2>1, BlankIsEntry, RowUpdate, MemUpdate DEF DeleteRecord, p, j
  <2>3. RestOK'
    BY <1>10, <2>1 DEF DeleteRecord, RestOK, j
  <2>. QED
    BY <1>10, <1>i, <1>w, <2>1, <2>2, <2>3, Kept DEF DeleteRecord
<1>. QED
  BY <1>1, <1>2, <1>3, <1>4, <1>5, <1>6, <1>7, <1>8, <1>9, <1>10 DEF Api, ApiPcs

-----------------------------------------------------------------------------
(* Time, and the theorems *)

LEMMA StallType ==
    ASSUME TypeOK, NEW j \in Jobs, StallWindow(j)
    PROVE  TypeOK'
<1>. USE DEF TypeOK
<1>1. RowOK'
  <2>1. row[j] \in Row
    <3>1. row[j].status = "processing"
      BY DEF StallWindow
    <3>. QED
      BY <3>1, UnsetIsNew DEF RowOK, Blank, Statuses, Active
  <2>2. [row[j] EXCEPT !.hb = "stale"] \in Row
    BY <2>1 DEF Row
  <2>3. row' = [row EXCEPT ![j] = [row[j] EXCEPT !.hb = "stale"]]
    BY DEF StallWindow
  <2>. QED
    BY <2>2, <2>3, RowUpdate
<1>2. MemOK'
  BY AgeType DEF StallWindow, MemOK
<1>3. \A t \in Threads : /\ io'[t] \in InFlight
                         /\ io'[t].job = io[t].job /\ io'[t].stage = io[t].stage
                         /\ io'[t].withResult = io[t].withResult
  <2> SUFFICES ASSUME NEW t \in Threads
               PROVE  /\ io'[t] \in InFlight
                      /\ io'[t].job = io[t].job /\ io'[t].stage = io[t].stage
                      /\ io'[t].withResult = io[t].withResult
    OBVIOUS
  <2>1. io[t] \in InFlight
    BY DEF IoOK
  <2>2. io'[t] = IF io[t].job = j THEN [io[t] EXCEPT !.snap = Age(@), !.base = Age(@)]
                 ELSE io[t]
    BY DEF StallWindow
  <2>3. Age(io[t].snap) \in Entry /\ Age(io[t].base) \in Row \cup {Blank}
    BY <2>1, AgeType, UnsetIsNew DEF InFlight, Age, Blank
  <2>. QED
    BY <2>1, <2>2, <2>3 DEF InFlight
<1>4. IoOK' /\ Awaited'
  BY <1>3, ThreadNames DEF IoOK, Awaited, StallWindow, worker
<1>5. SeenOK'
  BY AgeType DEF StallWindow, SeenOK
<1>6. RestOK'
  BY SpendType DEF StallWindow, RestOK, Kinds, history
<1>. QED
  BY <1>1, <1>2, <1>4, <1>5, <1>6, Kept DEF StallWindow

LEMMA NextType == TypeOK /\ [Next]_vars => TypeOK'
<1>. SUFFICES ASSUME TypeOK, [Next]_vars PROVE TypeOK'
  OBVIOUS
<1>1. CASE UNCHANGED vars
  BY <1>1, Kept DEF TypeOK, vars, worker, history
<1>2. ASSUME NEW p \in Procs, Crash(p) PROVE TypeOK'
  BY <1>2, HaltType, SpendType DEF Crash, TypeOK, RestOK, Kinds
<1>. QED
  BY <1>1, <1>2, WriteType, LoopType, RunnerType, BeatType, GraphType, BackgroundType,
     ApiType, StallType DEF Next

\* Type correctness: rows keep all their columns, whoever is at work is at work
\* on a job, and a result is stored only from the step that waits for it, for
\* any number of jobs, workers, processes, threads and failures.
THEOREM TypeCorrect == Spec => []TypeOK
<1>1. Init => TypeOK
  BY InitType
<1>2. TypeOK /\ [Next]_vars => TypeOK'
  BY NextType
<1>. QED
  BY <1>1, <1>2, PTL DEF Spec

-----------------------------------------------------------------------------
(* A finished job is not set back to processing *)

\* What _persist leaves in a finished row is not `processing`.
LEMMA PersistGuard ==
    ASSUME NEW r \in Row, NEW s \in Entry, r.status \in Done
    PROVE  Persist(r, s).status # "processing"
<1> DEFINE new == Merge(s, r)
<1>1. r # Blank
  BY BlankIsEntry
<1>2. new \in Row /\ new.status = Or(s.status, r.status)
  BY RowIsEntry, MergeType DEF Merge
<1>. HIDE DEF new
<1>3. Persist(r, s).status = IF Refused(r, s) THEN r.status ELSE new.status
  BY <1>1, <1>2 DEF Persist, new, Row
<1>4. s.status = "processing" => Refused(r, s)
  BY DEF Refused
<1>5. "processing" \notin Done
  BY DEF Done
<1>. QED
  BY <1>2, <1>3, <1>4, <1>5 DEF Or

NotReopened == \A j \in Jobs : row[j].status \in Done => row'[j].status # "processing"

\* A transaction is between its read and its commit only if one has overlapped.
OverlapCounted == happened["overlap"] = 0 => \A t \in Threads : io[t].stage # "commit"

\* No thread turns to a transaction that overlaps, and none is uncounted.
NoOverlap ==
    /\ \A t \in Threads : io'[t].stage = "commit" => io[t].stage = "commit"
    /\ happened'["overlap"] = 0 => happened["overlap"] = 0

LEMMA SpendCounts ==
    ASSUME RestOK, happened' = happened \/ \E k \in Kinds : Spend(k)
    PROVE  happened'["overlap"] = 0 => happened["overlap"] = 0
BY DEF Spend, RestOK, Kinds

\* A step that spends nothing or one event, and hands in a snapshot or nothing.
LEMMA UpsertNoOverlap ==
    ASSUME TypeOK, happened' = happened \/ \E k \in Kinds : Spend(k),
           \/ UNCHANGED io
           \/ \E t \in Threads : \E x : io' = [io EXCEPT ![t] = x] /\ x.stage # "commit"
    PROVE  NoOverlap
BY SpendCounts DEF NoOverlap, TypeOK, IoOK

LEMMA UpsertIsRow ==
    ASSUME NEW m, NEW t \in Threads, NEW p, NEW j, NEW f, NEW b, UpsertOn(m, t, p, j, f, b)
    PROVE  \E u \in Threads : \E x : io' = [io EXCEPT ![u] = x] /\ x.stage # "commit"
<1> DEFINE x == [stage |-> "row", job |-> j, snap |-> Merge(f, m), base |-> Blank,
                 withResult |-> b]
<1>1. io' = [io EXCEPT ![t] = x]
  BY DEF UpsertOn
<1>2. x.stage # "commit"
  OBVIOUS
<1>. HIDE DEF x
<1>. QED
  BY <1>1, <1>2

\* What the steps of a thread do to the writes in flight and to the counts.
OneSpent == happened' = happened \/ \E k \in Kinds : Spend(k)
IoStep(t) == UNCHANGED io \/ \E m, p, j, f, b : UpsertOn(m, t, p, j, f, b)

LEMMA LoopSteps ==
    ASSUME NEW w \in Workers, Loop(w), ~ExitProcess(w)
    PROVE  OneSpent /\ IoStep(Run(w))
<1>1. CASE ReleaseOnShutdown(w)
  BY <1>1 DEF ReleaseOnShutdown, OneSpent, IoStep, Upsert, Kinds
<1>2. CASE ClaimNextJob(w)
  BY <1>2 DEF ClaimNextJob, InTime, OneSpent, IoStep, Kinds
<1>. QED
  BY <1>1, <1>2 DEF Loop, StartWorker, ReclaimStaleJobs, IdlePoll, vars, OneSpent, IoStep

LEMMA RunnerSteps ==
    ASSUME NEW w \in Workers, Runner(w)
    PROVE  OneSpent /\ IoStep(Run(w))
<1>1. OneSpent
  BY DEF Runner, BeginProcessing, FirstHeartbeat, StorageFails, Downloaded,
       LaunchGraph, RuntimeExceeded, JoinCancelled, WriteCancelled, JoinFailed, JoinDone,
       FinishCancelled, FinishAbandoned, FinishChecked, PublishResult, Published,
       FailRead, FailOrRetry, HeartbeatStopped, InTime, OneSpent, Kinds
<1>2. IoStep(Run(w))
  <2>1. CASE BeginProcessing(w) \/ FirstHeartbeat(w) \/ Downloaded(w)
    BY <2>1 DEF BeginProcessing, FirstHeartbeat, TouchHeartbeat, Downloaded, SetProgress,
         Upsert, IoStep
  <2>2. CASE WriteCancelled(w) \/ PublishResult(w)
    BY <2>2 DEF WriteCancelled, PublishResult, IoStep
  <2>3. CASE FailOrRetry(w)
    BY <2>3 DEF FailOrRetry, IoStep
  <2>. QED
    BY <2>1, <2>2, <2>3 DEF Runner, StorageFails,
       LaunchGraph, RuntimeExceeded, JoinCancelled, JoinFailed, JoinDone,
       FinishCancelled, FinishAbandoned, FinishChecked, Published, FailRead, IoStep
<1>. QED
  BY <1>1, <1>2

LEMMA PipelineSteps ==
    ASSUME NEW g \in Graphs, Graph(g) \/ Background(g)
    PROVE  OneSpent /\ (IoStep(Gt(g)) \/ IoStep(Bt(g)))
<1>1. OneSpent
  BY DEF Graph, StartJob, ProgressTick, GraphFails, SummaryReady, DeliverSummary,
       EnqueuePostSummary, ReapGraph, Background, SetBg, FinalizeRead, FinalizeMetrics,
       FinalizeFails, PatchResultCarbon, OneSpent
<1>2. Graph(g) => IoStep(Gt(g))
  <2>1. CASE StartJob(g) \/ DeliverSummary(g)
    BY <2>1 DEF StartJob, DeliverSummary, Upsert, IoStep
  <2>2. CASE ProgressTick(g) \/ SummaryReady(g)
    BY <2>2 DEF ProgressTick, SummaryReady, SetProgress, Upsert, IoStep
  <2>. QED
    BY <2>1, <2>2 DEF Graph, GraphFails, EnqueuePostSummary, ReapGraph, IoStep
<1>3. Background(g) => IoStep(Bt(g))
  BY DEF Background, SetBg, FinalizeRead, FinalizeMetrics, FinalizeFails,
       PatchResultCarbon, Upsert, IoStep
<1>. QED
  BY <1>1, <1>2, <1>3

LEMMA ApiSteps ==
    ASSUME NEW r \in Requests, Api(r)
    PROVE  OneSpent /\ IoStep(Rt(r))
<1>1. ASSUME NEW f, ApiUpsert(r, f) PROVE IoStep(Rt(r))
  BY <1>1 DEF ApiUpsert, IoStep
<1>2. CancelActive(r) => IoStep(Rt(r))
  BY <1>1 DEF CancelActive, IoStep
<1>3. ASSUME NEW j \in Jobs, EnqueueJob(r, j) PROVE OneSpent /\ IoStep(Rt(r))
  BY <1>3 DEF EnqueueJob, Upsert, IoStep, OneSpent
<1>4. ASSUME NEW j \in Jobs, NEW kind \in Kinds, NEW label, Request(r, j, kind, label)
      PROVE OneSpent /\ IoStep(Rt(r))
  BY <1>4 DEF Request, IoStep, OneSpent
<1>5. RequeueStalled(r) => OneSpent /\ IoStep(Rt(r))
  BY <1>1 DEF RequeueStalled, IoStep, OneSpent
<1>6. Heal(r) => OneSpent /\ IoStep(Rt(r))
  BY <1>1 DEF Heal, IoStep, OneSpent
<1>7. CancelJob(r) \/ PurgeCancel(r) => OneSpent /\ IoStep(Rt(r))
  BY <1>2 DEF CancelJob, PurgeCancel, IoStep, OneSpent
<1>. QED
  BY <1>3, <1>4, <1>5, <1>6, <1>7
  DEF Api, PollDecide, Reread, HealRead, DeleteRecord, IoStep, OneSpent, Kinds

LEMMA OverlapStep ==
    ASSUME TypeOK, OverlapCounted, [Next]_vars
    PROVE  OverlapCounted'
<1>1. NoOverlap => OverlapCounted'
  BY DEF NoOverlap, OverlapCounted
<1>2. ASSUME NEW t \in Threads, Write(t) PROVE OverlapCounted'
  <2>1. CASE ReadRow(t)
    <3>1. happened'["overlap"] # 0
      BY <2>1 DEF ReadRow, Spend, TypeOK, RestOK, Kinds
    <3>. QED
      BY <3>1 DEF OverlapCounted
  <2>2. CASE ~ReadRow(t)
    <3>1. OneSpent
      BY <1>2, <2>2 DEF Write, Flush, CommitRow, FlushLost, StoreResult, ResultLost,
           OneSpent, Kinds
    <3>2. \E x : io' = [io EXCEPT ![t] = x] /\ x.stage # "commit"
      BY <1>2, <2>2 DEF Write, Flush, CommitRow, FlushLost, StoreResult, ResultLost,
           Advance, Idle, TypeOK, IoOK
    <3>. QED
      BY <1>1, <3>1, <3>2, UpsertNoOverlap DEF OneSpent
  <2>. QED
    BY <2>1, <2>2
<1>3. ASSUME NEW t \in Threads, OneSpent, IoStep(t) PROVE OverlapCounted'
  BY <1>1, <1>3, UpsertIsRow, UpsertNoOverlap DEF OneSpent, IoStep
<1>4. ASSUME NEW p \in Procs, Halt(p), OneSpent PROVE OverlapCounted'
  <2>1. \A t \in Threads : io'[t] = Idle \/ io'[t] = io[t]
    BY <1>4 DEF Halt
  <2>. QED
    BY <1>1, <1>4, <2>1, SpendCounts DEF NoOverlap, OneSpent, TypeOK, Idle
<1>5. ASSUME NEW w \in Workers, ExitProcess(w) PROVE OverlapCounted'
  BY <1>4, <1>5 DEF ExitProcess, OneSpent
<1>6. ASSUME NEW p \in Procs, Crash(p) PROVE OverlapCounted'
  BY <1>4, <1>6 DEF Crash, OneSpent, Kinds
<1>7. ASSUME NEW w \in Workers, Beat(w) PROVE OverlapCounted'
  <2>1. OneSpent /\ IoStep(Hb(w))
    BY <1>7 DEF Beat, TouchHeartbeat, Upsert, IoStep, OneSpent
  <2>. QED
    BY <1>3, <2>1, ThreadNames
<1>8. ASSUME NEW j \in Jobs, StallWindow(j) PROVE OverlapCounted'
  <2>1. OneSpent
    BY <1>8 DEF StallWindow, OneSpent, Kinds
  <2>2. \A t \in Threads : io'[t].stage = io[t].stage
    BY <1>8 DEF StallWindow, TypeOK, IoOK, InFlight
  <2>. QED
    BY <1>1, <2>1, <2>2, SpendCounts DEF NoOverlap, OneSpent, TypeOK
<1>9. CASE UNCHANGED vars
  BY <1>9 DEF vars, OverlapCounted
<1>. QED
  BY <1>2, <1>3, <1>5, <1>6, <1>7, <1>8, <1>9, LoopSteps, RunnerSteps, PipelineSteps,
     ApiSteps, ThreadNames DEF Next

LEMMA WriteGuard ==
    ASSUME happened["overlap"] = 0, OverlapCounted, TypeOK, NEW t \in Threads, Write(t)
    PROVE  NotReopened
<1>. USE DEF TypeOK
<1>1. CASE Flush(t)
  <2>1. io[t].job \in Jobs /\ io[t].snap \in Entry
    BY <1>1 DEF Flush, IoOK, InFlight
  <2> SUFFICES ASSUME NEW j \in Jobs, row[j].status \in Done
               PROVE  row'[j].status # "processing"
    BY DEF NotReopened
  <2>2. row[j] \in Row
    BY UnsetIsNew DEF RowOK, Blank, Statuses
  <2>3. CASE j = io[t].job
    <3>1. row'[j] = Persist(row[j], io[t].snap)
      BY <1>1, <2>3 DEF Flush, RowOK
    <3>. QED
      BY <2>1, <2>2, <3>1, PersistGuard
  <2>4. CASE j # io[t].job
    BY <1>1, <2>4 DEF Flush, RowOK, Done
  <2>. QED
    BY <2>3, <2>4
<1>2. CASE StoreResult(t)
  BY <1>2, UnsetIsNew DEF StoreResult, NotReopened, RowOK, Blank, Statuses, Active, Done
<1>3. CASE UNCHANGED row
  BY <1>3 DEF NotReopened, Done
<1>. QED
  BY <1>1, <1>2, <1>3 DEF Write, ReadRow, CommitRow, FlushLost, ResultLost, table, OverlapCounted

LEMMA LoopGuard ==
    ASSUME TypeOK, NEW w \in Workers, Loop(w)
    PROVE  NotReopened
<1>. USE DEF TypeOK
<1>1. CASE ClaimNextJob(w)
  <2>1. PICK k \in Jobs : /\ row[k].status = "pending"
                          /\ \E r : row' = [row EXCEPT ![k] = r]
    BY <1>1 DEF ClaimNextJob, Claimable
  <2>. QED
    BY <2>1 DEF NotReopened, RowOK, Done
<1>2. ASSUME NEW p, NEW S, NEW failed, \A k \in S : row[k].status = "processing",
             Recover(p, S, failed)
      PROVE  NotReopened
  BY <1>2 DEF Recover, NotReopened, Done
<1>3. StartWorker(w) \/ ReclaimStaleJobs(w) => NotReopened
  BY <1>2 DEF StartWorker, ReclaimStaleJobs, Stale
<1>4. CASE UNCHANGED row
  BY <1>4 DEF NotReopened, Done
<1>. QED
  BY <1>1, <1>3, <1>4
  DEF Loop, IdlePoll, ReleaseOnShutdown, ExitProcess, Halt, vars, table

LEMMA NextGuard ==
    ASSUME happened["overlap"] = 0, OverlapCounted, TypeOK, [Next]_vars
    PROVE  NotReopened
<1>1. CASE UNCHANGED row
  BY <1>1 DEF NotReopened, Done
<1>2. UNCHANGED vars => UNCHANGED row
  BY DEF vars
<1>3. ASSUME NEW w \in Workers, Runner(w) PROVE UNCHANGED row
  BY <1>3 DEF Runner, BeginProcessing, FirstHeartbeat, StorageFails, Downloaded,
       LaunchGraph, RuntimeExceeded, JoinCancelled, WriteCancelled, JoinFailed, JoinDone,
       FinishCancelled, FinishAbandoned, FinishChecked, PublishResult, Published,
       FailRead, FailOrRetry, table
<1>4. ASSUME NEW w \in Workers, Beat(w) PROVE UNCHANGED row
  BY <1>4 DEF Beat, table
<1>5. ASSUME NEW g \in Graphs, Graph(g) \/ Background(g) PROVE UNCHANGED row
  BY <1>5 DEF Graph, StartJob, ProgressTick, GraphFails, SummaryReady, DeliverSummary,
       EnqueuePostSummary, ReapGraph, Background, SetBg, FinalizeRead, FinalizeMetrics,
       FinalizeFails, PatchResultCarbon, table
<1>6. ASSUME NEW r \in Requests, Api(r) PROVE NotReopened
  <2>1. CASE DeleteRecord(r)
    <3>1. ApiJob(r) \in Jobs
      BY <2>1 DEF DeleteRecord, ApiAt, ApiJob, ApiOK, TypeOK
    <3>2. row' = [row EXCEPT ![ApiJob(r)] = Blank] /\ Blank.status # "processing"
      BY <2>1 DEF DeleteRecord, Blank
    <3>. QED
      BY <3>1, <3>2 DEF NotReopened, RowOK, TypeOK, Done
  <2>2. CASE ~DeleteRecord(r)
    <3>1. UNCHANGED row
      BY <1>6, <2>2 DEF Api, EnqueueJob, Request, PollDecide, Reread, RequeueStalled,
           HealRead, Heal, CancelJob, PurgeCancel, table
    <3>. QED
      BY <1>1, <3>1
  <2>. QED
    BY <2>1, <2>2
<1>7. ASSUME NEW p \in Procs, Crash(p) PROVE UNCHANGED row
  BY <1>7 DEF Crash, Halt, table
<1>8. ASSUME NEW j \in Jobs, StallWindow(j) PROVE NotReopened
  <2>1. row[j].status = "processing" /\ row' = [row EXCEPT ![j] = [@ EXCEPT !.hb = "stale"]]
    BY <1>8 DEF StallWindow
  <2>. QED
    BY <2>1 DEF NotReopened, RowOK, TypeOK, Done
<1>. QED
  BY <1>1, <1>2, <1>3, <1>4, <1>5, <1>6, <1>7, <1>8, WriteGuard, LoopGuard DEF Next

\* As long as no transaction overlaps another step, no step sets a finished job
\* back to processing: the guard of _persist covers every write of the caches,
\* however stale, and the claim, the recovery of claims and the deletion never
\* produce such a row.
THEOREM FinishedNotReopened == Spec => NoDirectReopen
<1> DEFINE Guarded == happened["overlap"] = 0 => NotReopened
<1>1. Init => OverlapCounted
  BY DEF Init, OverlapCounted, Idle
<1>2. TypeOK /\ OverlapCounted /\ [Next]_vars => OverlapCounted'
  BY OverlapStep
<1>3. TypeOK /\ OverlapCounted /\ [Next]_vars => [Guarded]_vars
  BY NextGuard
<1>4. [Guarded]_vars =>
        [happened["overlap"] = 0 =>
           \A j \in Jobs : row[j].status \in Done => row'[j].status # "processing"]_vars
  BY DEF NotReopened
<1>. HIDE DEF Guarded
<1>. QED
  BY <1>1, <1>2, <1>3, <1>4, TypeCorrect, PTL DEF Spec, NoDirectReopen
-----------------------------------------------------------------------------
(* What a complete status promises *)

RowBacked == \A j \in Jobs : row[j].status = "complete" => Backed(j)
MemBacked == \A p \in Procs, j \in Jobs : mem[p][j].status = "complete" => Backed(j)
IoBacked  == \A t \in Threads :
    io[t].snap.status = "complete" \/ io[t].base.status = "complete" => Backed(io[t].job)
\* A delivered job: the background services complete what they find finished.
PipeBacked == \A g \in Graphs :
    graph[g].pc = "enqueue" \/ bg[g] # "off" => Backed(graph[g].job)
ApiBacked == \A r \in Requests :
    /\ api[r].pc # "idle" /\ seen[Rt(r)].entry.status = "complete" => Backed(api[r].job)
    /\ api[r].pc = "healing" => Backed(api[r].job)

\* Wherever a complete status is written down or about to be, a result backs it.
Supported == RowBacked /\ MemBacked /\ IoBacked /\ PipeBacked /\ ApiBacked

\* A process that exits and a request that purges have been counted.
Accounted ==
    /\ \A w \in Workers : pc[w] = "exiting" => happened["crash"] # 0
    /\ \A r \in Requests : api[r].pc \in {"purge", "erase"} => happened["purge"] # 0

BackedInv == Accounted /\ (Undamaged => Supported)

\* No job loses what backs it.
Growing == \A j : Backed(j) => Backed(j)'

LEMMA ResultsOnlyGrow ==
    ASSUME result \subseteq result',
           \A t \in Threads : io[t].withResult =>
              io[t].job \in result' \/ (io'[t].withResult /\ io'[t].job = io[t].job)
    PROVE  Growing
BY DEF Growing, Backed

\* A part whose variables do not change keeps what backs it.
LEMMA StillBacked ==
    ASSUME Growing
    PROVE  /\ RowBacked /\ UNCHANGED row => RowBacked'
           /\ MemBacked /\ UNCHANGED mem => MemBacked'
           /\ IoBacked /\ UNCHANGED io => IoBacked'
           /\ PipeBacked /\ UNCHANGED <<graph, bg>> => PipeBacked'
           /\ ApiBacked /\ UNCHANGED api /\ (\A r \in Requests : seen'[Rt(r)] = seen[Rt(r)])
                => ApiBacked'
BY DEF Growing, RowBacked, MemBacked, IoBacked, PipeBacked, ApiBacked

\* An upsert by a thread that has nothing in flight, of a status that is backed.
LEMMA UpsertBacked ==
    ASSUME MemOK, IoOK, MemBacked, IoBacked, UNCHANGED result,
           NEW m \in Entry, NEW f \in Entry, NEW t \in Threads, NEW p \in Procs,
           NEW j \in Jobs, NEW b \in BOOLEAN, UpsertOn(m, t, p, j, f, b),
           ~io[t].withResult,
           Or(f.status, m.status) = "complete" => b \/ Backed(j)
    PROVE  Growing /\ MemBacked' /\ IoBacked' /\ (b => Backed(j)')
<1> DEFINE e == Merge(f, m)
           x == [stage |-> "row", job |-> j, snap |-> e, base |-> Blank, withResult |-> b]
<1>1. io' = [io EXCEPT ![t] = x] /\ mem' = [mem EXCEPT ![p][j] = e]
  BY DEF UpsertOn
<1>2. e.status = "complete" => b \/ Backed(j)
  BY DEF Merge
<1>3. x.job = j /\ x.snap = e /\ x.base = Blank /\ x.withResult = b
  OBVIOUS
<1>4. Blank.status # "complete"
  BY UnsetIsNew, StatusNames DEF Blank
<1>. HIDE DEF e, x
<1>5. io' \in [Threads -> {io[s] : s \in Threads} \cup {x}]
  BY <1>1 DEF IoOK
<1>6. io'[t] = x /\ \A s \in Threads : s # t => io'[s] = io[s]
  BY <1>1 DEF IoOK
<1>7. Growing
  BY <1>6, ResultsOnlyGrow
<1>8. b => Backed(j)'
  BY <1>3, <1>6 DEF Backed
<1>9. e.status = "complete" => Backed(j)'
  BY <1>2, <1>7, <1>8 DEF Growing
<1>10. MemBacked'
  BY <1>1, <1>7, <1>9 DEF MemBacked, MemOK, Growing
<1>11. IoBacked'
  BY <1>3, <1>4, <1>6, <1>7, <1>9 DEF IoBacked, Growing
<1>. QED
  BY <1>7, <1>8, <1>10, <1>11

\* What get_job finds is backed if what it reads is.
LEMMA ReadBacked ==
    ASSUME RowBacked, MemBacked, NEW p \in Procs, NEW j \in Jobs
    PROVE  /\ Current(p, j).status = "complete" => Backed(j)
           /\ View(row[j], mem[p][j]).status = "complete" => Backed(j)
BY DEF Current, View, CacheWins, Active, RowBacked, MemBacked

-----------------------------------------------------------------------------
(* The counts: what has happened stays counted *)

CountsKept == \A k \in Kinds : happened'[k] = 0 => happened[k] = 0

LEMMA OneSpentCounts == ASSUME RestOK, OneSpent PROVE CountsKept
BY DEF OneSpent, Spend, RestOK, CountsKept

LEMMA SpentCounts ==
    ASSUME RestOK, NEW k \in Kinds, Spend(k)
    PROVE  happened'[k] # 0
BY DEF Spend, RestOK

LEMMA WriteSpent == ASSUME NEW t \in Threads, Write(t) PROVE OneSpent
BY DEF Write, Flush, ReadRow, CommitRow, FlushLost, StoreResult, ResultLost, OneSpent, Kinds

LEMMA StallMoves ==
    ASSUME NEW j \in Jobs, StallWindow(j)
    PROVE  OneSpent /\ UNCHANGED <<result, pc, graph, bg, api>>
<1>1. (IF Attended(j) THEN Spend("stall") ELSE UNCHANGED happened)
        /\ UNCHANGED <<result, cancelReq, worker, graph, bg, api, history>>
  BY Zenon DEF StallWindow
<1>. QED
  BY <1>1 DEF OneSpent, Kinds, worker

LEMMA NextSpent ==
    ASSUME [Next]_vars
    PROVE  OneSpent
<1>1. ASSUME NEW w \in Workers, Loop(w) PROVE OneSpent
  <2>1. ExitProcess(w) => OneSpent
    BY DEF ExitProcess, OneSpent
  <2>. QED
    BY <1>1, <2>1, LoopSteps
<1>2. ASSUME NEW w \in Workers, Beat(w) PROVE OneSpent
  BY <1>2 DEF Beat, OneSpent
<1>3. ASSUME NEW p \in Procs, Crash(p) PROVE OneSpent
  BY <1>3 DEF Crash, OneSpent, Kinds
<1>4. UNCHANGED vars => OneSpent
  BY DEF vars, OneSpent
<1>. QED
  BY <1>1, <1>2, <1>3, <1>4, WriteSpent, StallMoves, RunnerSteps, PipelineSteps, ApiSteps DEF Next

LEMMA NextCounts ==
    ASSUME TypeOK, [Next]_vars
    PROVE  CountsKept
BY NextSpent, OneSpentCounts DEF TypeOK

\* A step of the loop counts, ends the process, or leaves the requests alone.
LEMMA LoopMoves ==
    ASSUME NEW w \in Workers, Loop(w)
    PROVE  \/ Spend("crash") /\ UNCHANGED api
           \/ \E p \in Procs : Halt(p)
           \/ UNCHANGED <<pc, api>>
           \/ UNCHANGED api /\ \E label \in {"poll", "claimed"} : pc' = [pc EXCEPT ![w] = label]
<1>1. StartWorker(w) => UNCHANGED api /\ pc' = [pc EXCEPT ![w] = "poll"]
  BY DEF StartWorker
<1>2. ClaimNextJob(w) => UNCHANGED api /\ pc' = [pc EXCEPT ![w] = "claimed"]
  BY DEF ClaimNextJob
<1>3. ReclaimStaleJobs(w) \/ IdlePoll(w) => UNCHANGED <<pc, api>>
  BY DEF ReclaimStaleJobs, IdlePoll, worker, vars
<1>4. ReleaseOnShutdown(w) => Spend("crash") /\ UNCHANGED api
  BY DEF ReleaseOnShutdown
<1>5. ExitProcess(w) => \E p \in Procs : Halt(p)
  BY DEF ExitProcess
<1>. QED
  BY <1>1, <1>2, <1>3, <1>4, <1>5 DEF Loop

\* Only ReleaseOnShutdown leads a worker to exit, and only a purge to an erase.
LEMMA AccountedStep ==
    ASSUME TypeOK, Accounted, [Next]_vars
    PROVE  Accounted'
<1>. USE DEF TypeOK
<1>1. CountsKept
  BY NextCounts
<1>2. ASSUME NEW w \in Workers, pc'[w] = "exiting" PROVE happened'["crash"] # 0
  <2>1. CASE pc[w] = "exiting"
    BY <1>1, <2>1 DEF Accounted, CountsKept, Kinds
  <2>2. CASE pc[w] # "exiting"
    <3>1. CASE Spend("crash")
      BY <3>1, SpentCounts DEF Kinds
    <3>2. CASE \E p \in Procs : Halt(p)
      BY <1>2, <2>2, <3>2 DEF Halt
    <3>3. CASE \E t \in Threads : Write(t)
      BY <1>2, <2>2, <3>3 DEF Write, Flush, ReadRow, CommitRow, FlushLost, StoreResult,
           ResultLost, worker, WorkerOK
    <3>4. CASE \E v \in Workers : Runner(v)
      <4>1. PICK v \in Workers : \/ UNCHANGED pc
                                 \/ \E label \in RunPcs \ {"exiting"} : Goto(v, label)
        <5>1. PICK v \in Workers : Runner(v)
          BY <3>4
        <5>2. \E label \in RunPcs \ {"exiting"} : Goto(v, label)
          BY <5>1 DEF Runner, BeginProcessing, FirstHeartbeat, StorageFails, Downloaded,
             LaunchGraph, RuntimeExceeded, JoinCancelled, WriteCancelled, JoinFailed,
             JoinDone, FinishCancelled, FinishAbandoned, FinishChecked, PublishResult,
             Published, FailRead, FailOrRetry, Return, RunPcs
        <5>. QED
          BY <5>2
      <4>. QED
        BY <1>2, <2>2, <4>1 DEF Goto, WorkerOK
    <3>5. CASE \E v \in Workers, label \in {"poll", "claimed"} : pc' = [pc EXCEPT ![v] = label]
      BY <1>2, <2>2, <3>5 DEF WorkerOK
    <3>6. CASE UNCHANGED pc
      BY <1>2, <2>2, <3>6
    <3>7. ASSUME NEW g \in Graphs, Graph(g) \/ Background(g) PROVE UNCHANGED pc
      BY <3>7 DEF Graph, StartJob, ProgressTick, GraphFails, SummaryReady,
           DeliverSummary, EnqueuePostSummary, ReapGraph, Background, SetBg, FinalizeRead,
           FinalizeMetrics, FinalizeFails, PatchResultCarbon, worker
    <3>8. ASSUME NEW r \in Requests, Api(r) PROVE UNCHANGED pc
      BY <3>8 DEF Api, EnqueueJob, Request, PollDecide, Reread, RequeueStalled, HealRead,
           Heal, CancelJob, PurgeCancel, DeleteRecord, worker
    <3>9. ASSUME NEW v \in Workers, Beat(v) PROVE UNCHANGED pc
      BY <3>9 DEF Beat
    <3>10. ASSUME NEW p \in Procs, Crash(p) PROVE Halt(p)
      BY <3>10 DEF Crash
    <3>11. UNCHANGED vars => UNCHANGED pc
      BY DEF vars
    <3>. QED
      BY <3>1, <3>2, <3>3, <3>4, <3>5, <3>6, <3>7, <3>8, <3>9, <3>10, <3>11, LoopMoves, StallMoves
      DEF Next
  <2>. QED
    BY <2>1, <2>2
<1>3. ASSUME NEW r \in Requests, api'[r].pc \in {"purge", "erase"}
      PROVE  happened'["purge"] # 0
  <2>1. CASE api[r].pc \in {"purge", "erase"}
    BY <1>1, <2>1 DEF Accounted, CountsKept, Kinds
  <2>2. CASE api[r].pc \notin {"purge", "erase"}
    <3>1. CASE \E q \in Requests, j \in Jobs : Request(q, j, "purge", "purge")
      BY <3>1, SpentCounts DEF Request, Kinds
    <3>2. CASE \E p \in Procs : Halt(p)
      BY <1>3, <2>2, <3>2 DEF Halt, NoRequest
    <3>3. CASE UNCHANGED api
      BY <1>3, <2>2, <3>3
    <3>4. ASSUME NEW q \in Requests, Api(q),
                 ~\E j \in Jobs : Request(q, j, "purge", "purge")
          PROVE  api'[r].pc \notin {"purge", "erase"}
      <4>1. ASSUME NEW label, label \notin {"purge", "erase"}, ApiGoto(q, label)
            PROVE  api'[r].pc \notin {"purge", "erase"}
        BY <2>2, <4>1 DEF ApiGoto, NoRequest, ApiOK
      <4>2. CASE PurgeCancel(q) \/ DeleteRecord(q)
        BY <2>2, <4>1, <4>2 DEF PurgeCancel, DeleteRecord, ApiAt, ApiGoto, ApiOK
      <4>3. CASE \E j \in Jobs : EnqueueJob(q, j)
        BY <2>2, <4>3 DEF EnqueueJob
      <4>4. CASE \E j \in Jobs : \/ Request(q, j, "poll", "poll")
                                 \/ Request(q, j, "cancel", "cancel")
        BY <2>2, <4>4 DEF Request, ApiOK
      <4>5. CASE PollDecide(q) \/ RequeueStalled(q) \/ Heal(q) \/ CancelJob(q) \/ HealRead(q)
                 \/ Reread(q, "stalled", "requeue") \/ Reread(q, "confirm", "settle")
        BY <4>1, <4>5 DEF PollDecide, RequeueStalled, Heal, CancelJob, HealRead, Reread
      <4>. QED
        BY <3>4, <4>2, <4>3, <4>4, <4>5 DEF Api
    <3>5. ASSUME NEW t \in Threads, Write(t) PROVE UNCHANGED api
      BY <3>5 DEF Write, Flush, ReadRow, CommitRow, FlushLost, StoreResult, ResultLost
    <3>6. ASSUME NEW w \in Workers, Runner(w) \/ Beat(w) PROVE UNCHANGED api
      BY <3>6 DEF Runner, BeginProcessing, FirstHeartbeat, StorageFails, Downloaded,
           LaunchGraph, RuntimeExceeded, JoinCancelled, WriteCancelled, JoinFailed,
           JoinDone, FinishCancelled, FinishAbandoned, FinishChecked, PublishResult,
           Published, FailRead, FailOrRetry, Beat
    <3>7. ASSUME NEW g \in Graphs, Graph(g) \/ Background(g) PROVE UNCHANGED api
      BY <3>7 DEF Graph, StartJob, ProgressTick, GraphFails, SummaryReady,
           DeliverSummary, EnqueuePostSummary, ReapGraph, Background, SetBg, FinalizeRead,
           FinalizeMetrics, FinalizeFails, PatchResultCarbon
    <3>8. UNCHANGED vars => UNCHANGED api
      BY DEF vars
    <3>9. ASSUME NEW p \in Procs, Crash(p) PROVE Halt(p)
      BY <3>9 DEF Crash
    <3>. QED
      BY <1>3, <3>1, <3>2, <3>3, <3>4, <3>5, <3>6, <3>7, <3>8, <3>9, LoopMoves, StallMoves
      DEF Next
  <2>. QED
    BY <2>1, <2>2
<1>. QED
  BY <1>2, <1>3 DEF Accounted

-----------------------------------------------------------------------------
(* Every step keeps what backs the complete statuses *)

LEMMA HarmCounted ==
    ASSUME TypeOK, Undamaged', NEW k \in {"crash", "dbfail", "purge"}
    PROVE  ~Spend(k)
BY SpentCounts DEF TypeOK, Undamaged, Kinds

\* The steps of a thread t that has nothing in flight and that touches neither the
\* table nor what the requests hold.
LEMMA ThreadBacked ==
    ASSUME TypeOK, Supported, NEW t \in Threads, NEW p \in Procs, NEW j \in Jobs,
           UNCHANGED <<table, api>>, \A r \in Requests : seen'[Rt(r)] = seen[Rt(r)],
           \/ UNCHANGED <<mem, io>>
           \/ /\ ~io[t].withResult
              /\ \E m, f \in Entry, b \in BOOLEAN :
                   /\ UpsertOn(m, t, p, j, f, b)
                   /\ Or(f.status, m.status) = "complete" => b \/ Backed(j)
           \/ \E e \in Entry : /\ mem' = [mem EXCEPT ![p][j] = e] /\ UNCHANGED io
                               /\ e.status = "complete" => Backed(j)
    PROVE  /\ Growing /\ RowBacked' /\ MemBacked' /\ IoBacked' /\ ApiBacked'
           /\ UNCHANGED <<graph, bg>> => Supported'
<1>. USE DEF TypeOK, Supported
<1>1. Growing /\ MemBacked' /\ IoBacked'
  <2>1. CASE UNCHANGED <<mem, io>>
    <3>1. Growing
      BY <2>1, ResultsOnlyGrow DEF table
    <3>. QED
      BY <2>1, <3>1, StillBacked
  <2>2. CASE ~io[t].withResult /\ \E m, f \in Entry, b \in BOOLEAN :
                   /\ UpsertOn(m, t, p, j, f, b)
                   /\ Or(f.status, m.status) = "complete" => b \/ Backed(j)
    BY <2>2, UpsertBacked DEF table
  <2>3. CASE \E e \in Entry : /\ mem' = [mem EXCEPT ![p][j] = e] /\ UNCHANGED io
                              /\ e.status = "complete" => Backed(j)
    <3>1. Growing
      BY <2>3, ResultsOnlyGrow DEF table
    <3>2. MemBacked'
      BY <2>3, <3>1 DEF MemBacked, MemOK, Growing
    <3>. QED
      BY <2>3, <3>1, <3>2, StillBacked
  <2>. QED
    BY <2>1, <2>2, <2>3
<1>2. RowBacked' /\ ApiBacked'
  BY <1>1, StillBacked DEF table
<1>3. UNCHANGED <<graph, bg>> => PipeBacked'
  BY <1>1, StillBacked
<1>. QED
  BY <1>1, <1>2, <1>3

\* A heartbeat and a progress report persist the status that the cache holds, or
\* processing.
LEMMA TouchBacked ==
    ASSUME TypeOK, Supported, NEW t \in Threads, NEW w \in Workers, cur[w] \in Jobs,
           TouchHeartbeat(t, w), io[t] = Idle, UNCHANGED <<table, api, graph, bg>>,
           \A r \in Requests : seen'[Rt(r)] = seen[Rt(r)]
    PROVE  Supported'
<1> DEFINE p == ProcOf[w]
           f == Fields(Unset, w, "fresh", Unset)
<1>1. p \in Procs /\ mem[p][cur[w]] \in Entry
  BY DEF TypeOK, MemOK
<1>2. f \in Entry
  BY FieldsType
<1>3. Or(f.status, mem[p][cur[w]].status) = "complete" => Backed(cur[w])
  BY <1>1 DEF Fields, Blank, Or, Supported, MemBacked
<1>4. UNCHANGED <<mem, io>> \/ UpsertOn(mem[p][cur[w]], t, p, cur[w], f, FALSE)
  BY DEF TouchHeartbeat, Upsert
<1>5. ~io[t].withResult
  BY DEF Idle
<1>. HIDE DEF p, f
<1>6. \/ UNCHANGED <<mem, io>>
      \/ \E m, e \in Entry, b \in BOOLEAN :
            /\ UpsertOn(m, t, p, cur[w], e, b)
            /\ Or(e.status, m.status) = "complete" => b \/ Backed(cur[w])
  BY <1>1, <1>2, <1>3, <1>4
<1>. QED
  BY <1>1, <1>5, <1>6, ThreadBacked

LEMMA ProgressBacked ==
    ASSUME TypeOK, Supported, NEW t \in Threads, NEW p \in Procs, NEW j \in Jobs,
           NEW prog \in 0..2, SetProgress(t, p, j, prog), io[t] = Idle,
           UNCHANGED <<table, api>>, \A r \in Requests : seen'[Rt(r)] = seen[Rt(r)]
    PROVE  /\ Growing /\ RowBacked' /\ MemBacked' /\ IoBacked' /\ ApiBacked'
           /\ UNCHANGED <<graph, bg>> => Supported'
<1> DEFINE f == Fields(Or(mem[p][j].status, "processing"), Unset, Unset, prog)
<1>1. mem[p][j] \in Entry /\ (mem[p][j].status = "complete" => Backed(j))
  BY DEF TypeOK, MemOK, Supported, MemBacked
<1>2. Or(mem[p][j].status, "processing") \in Statuses \cup {Unset}
  BY <1>1, StatusNames DEF Or, Entry
<1>3. f \in Entry
  BY <1>2, FieldsType
<1>4. Or(f.status, mem[p][j].status) = "complete" => Backed(j)
  BY <1>1 DEF Fields, Blank, Or
<1>5. UNCHANGED <<mem, io>> \/ UpsertOn(mem[p][j], t, p, j, f, FALSE)
  BY DEF SetProgress, Upsert
<1>6. ~io[t].withResult
  BY DEF Idle
<1>. HIDE DEF f
<1>7. \/ UNCHANGED <<mem, io>>
      \/ \E m, e \in Entry, b \in BOOLEAN :
            /\ UpsertOn(m, t, p, j, e, b)
            /\ Or(e.status, m.status) = "complete" => b \/ Backed(j)
  BY <1>1, <1>3, <1>4, <1>5
<1>. QED
  BY <1>6, <1>7, ThreadBacked

LEMMA RunnerBacked ==
    ASSUME TypeOK, Supported, NEW w \in Workers, Runner(w)
    PROVE  Supported'
<1>. USE DEF TypeOK
<1> DEFINE p == ProcOf[w]
           j == cur[w]
<1>p. p \in Procs /\ Run(w) \in Threads
  BY ThreadNames
<1>a. ASSUME NEW label, At(w, label), label \notin {"down", "poll"}
      PROVE  /\ io[Run(w)] = Idle /\ ~io[Run(w)].withResult
             /\ j \in Jobs /\ mem[p][j] \in Entry
             /\ Current(p, j) \in Entry /\ Returned(Run(w), p, j) \in Entry
             /\ mem[p][j].status = "complete" => Backed(j)
             /\ Current(p, j).status = "complete" => Backed(j)
  <2>1. j \in Jobs /\ mem[p][j] \in Entry /\ io[Run(w)] = Idle
    BY <1>a, <1>p, Holding DEF At
  <2>. QED
    BY <1>p, <2>1, CurrentType, ReturnedType, ReadBacked DEF Supported, MemBacked, Idle
<1>s. /\ \A r \in Requests : Rt(r) # Run(w)
      /\ UNCHANGED seen => \A r \in Requests : seen'[Rt(r)] = seen[Rt(r)]
      /\ Forget(Run(w)) \/ GetJob(Run(w), p, j) => \A r \in Requests : seen'[Rt(r)] = seen[Rt(r)]
  BY <1>p, ThreadNames DEF Run, Rt, Forget, GetJob, SeenOK
<1>n. ASSUME NEW s \in Statuses, NEW o, NEW h, NEW g, NEW m
      PROVE  Or(Fields(s, o, h, g).status, m.status) = s
  BY UnsetIsNew DEF Fields, Blank, Or
<1>. HIDE DEF p, j
<1>1. CASE BeginProcessing(w)
  <2> DEFINE f == Fields("processing", w, "fresh", 0)
  <2>1. At(w, "claimed") /\ UpsertOn(mem[p][j], Run(w), p, j, f, FALSE)
    BY <1>1 DEF BeginProcessing, Upsert, p, j
  <2>2. f \in Entry /\ Or(f.status, mem[p][j].status) = "processing"
    BY FieldsType, StatusNames, <1>n
  <2>. HIDE DEF f
  <2>. QED
    BY <1>1, <1>p, <1>a, <1>s, <2>1, <2>2, ThreadBacked DEF BeginProcessing
<1>2. CASE FirstHeartbeat(w)
  BY <1>2, <1>p, <1>a, <1>s, TouchBacked DEF FirstHeartbeat, j
<1>3. CASE Downloaded(w)
  BY <1>3, <1>p, <1>a, <1>s, ProgressBacked DEF Downloaded, p, j
<1>4. CASE LaunchGraph(w)
  <2>1. PICK g \in Graphs :
          /\ graph[g] = NoThread
          /\ graph' = [graph EXCEPT ![g] = [pc |-> "begin", job |-> j, worker |-> w]]
          /\ UNCHANGED <<table, mem, io, seen, bg, api>>
    BY <1>4 DEF LaunchGraph, j
  <2>2. Growing
    BY <2>1, ResultsOnlyGrow DEF table
  <2>3. bg[g] = "off"
    BY <2>1 DEF PipelineOK, NoThread
  <2>4. PipeBacked'
    BY <2>1, <2>2, <2>3 DEF Supported, PipeBacked, PipelineOK, Growing
  <2>. QED
    BY <2>1, <2>2, <2>4, StillBacked DEF Supported, table
<1>5. CASE JoinCancelled(w) \/ FailRead(w)
  <2>1. Growing
    BY <1>5, ResultsOnlyGrow DEF JoinCancelled, FailRead, table
  <2>. QED
    BY <1>5, <1>s, <2>1, StillBacked DEF JoinCancelled, FailRead, Supported, table, p, j
<1>6. CASE WriteCancelled(w)
  <2> DEFINE e == Returned(Run(w), p, j)
             f == Fields("cancelled", NoWorker, "none", Unset)
  <2>1. At(w, "cancelling")
    BY <1>6 DEF WriteCancelled
  <2>2. f \in Entry /\ Or(f.status, e.status) = "cancelled"
    BY FieldsType, StatusNames, <1>n
  <2>3. \/ e.status = "cancelled" /\ mem' = [mem EXCEPT ![p][j] = e] /\ UNCHANGED io
        \/ UpsertOn(e, Run(w), p, j, f, FALSE)
    BY <1>6 DEF WriteCancelled, p, j
  <2>4. e \in Entry
    BY <1>a, <2>1
  <2>. HIDE DEF e, f
  <2>. QED
    BY <1>6, <1>p, <1>a, <1>s, <2>1, <2>2, <2>3, <2>4, ThreadBacked DEF WriteCancelled
<1>7. CASE FinishAbandoned(w) \/ FinishChecked(w)
  <2>1. At(w, "finished") /\ mem' = [mem EXCEPT ![p][j] = Current(p, j)] /\ UNCHANGED io
    BY <1>7 DEF FinishAbandoned, FinishChecked, Reload, p, j
  <2>2. UNCHANGED <<table, seen, graph, bg, api>>
    BY <1>7 DEF FinishAbandoned, FinishChecked
  <2>. QED
    BY <1>p, <1>a, <1>s, <2>1, <2>2, ThreadBacked
<1>8. CASE PublishResult(w)
  <2> DEFINE e == Current(p, j)
             prog == IF j \in result /\ e.prog # 2 THEN 1 ELSE 2
             f == Fields("complete", NoWorker, "none", prog)
  <2>1. At(w, "publish")
    BY <1>8 DEF PublishResult
  <2>2. UpsertOn(e, Run(w), p, j, f, TRUE)
    BY <1>8 DEF PublishResult, p, j
  <2>3. prog \in 0..2
    OBVIOUS
  <2>. HIDE DEF prog
  <2>4. f \in Entry
    BY <2>3, FieldsType, StatusNames
  <2>5. e \in Entry
    BY <1>a, <2>1
  <2>. HIDE DEF e, f
  <2>. QED
    BY <1>8, <1>p, <1>a, <1>s, <2>1, <2>2, <2>4, <2>5, ThreadBacked DEF PublishResult
<1>9. CASE FailOrRetry(w)
  <2> DEFINE e == Returned(Run(w), p, j)
             status == IF MayRetry(Or(e.attempts, 0)) THEN "pending" ELSE "error"
             f == IF MayRetry(Or(e.attempts, 0))
                  THEN Fields("pending", NoWorker, "none", 0)
                  ELSE Fields("error", NoWorker, "none", 2)
  <2>1. At(w, "failing")
    BY <1>9 DEF FailOrRetry
  <2>2. f \in Entry
    BY FieldsType, StatusNames
  <2>3. Or(f.status, e.status) # "complete"
    BY StatusNames, <1>n
  <2>4. e \in Entry
    BY <1>a, <2>1
  <2>5. \/ e.status = "cancelled" /\ mem' = [mem EXCEPT ![p][j] = e] /\ UNCHANGED io
        \/ UpsertOn(e, Run(w), p, j, f, FALSE)
    BY <1>9 DEF FailOrRetry, p, j
  <2>. HIDE DEF e, f
  <2>. QED
    BY <1>9, <1>p, <1>a, <1>s, <2>1, <2>2, <2>3, <2>4, <2>5, ThreadBacked DEF FailOrRetry
<1>10. CASE UNCHANGED <<table, mem, io, seen, graph, bg, api>>
  <2>1. Growing
    BY <1>10, ResultsOnlyGrow DEF table
  <2>. QED
    BY <1>10, <2>1, StillBacked DEF Supported, table
<1>. QED
  BY <1>1, <1>2, <1>3, <1>4, <1>5, <1>6, <1>7, <1>8, <1>9, <1>10
  DEF Runner, StorageFails, RuntimeExceeded, JoinFailed, JoinDone, FinishCancelled, Published

LEMMA BeatBacked ==
    ASSUME TypeOK, Supported, NEW w \in Workers, Beat(w)
    PROVE  Supported'
<1>1. cur[w] \in Jobs /\ Hb(w) \in Threads /\ io[Hb(w)] = Idle
  BY Holding, ThreadNames DEF Beat, TypeOK
<1>2. UNCHANGED <<table, seen, graph, bg, api>>
  BY DEF Beat
<1>3. CASE UNCHANGED <<mem, io>>
  <2>1. Growing
    BY <1>2, <1>3, ResultsOnlyGrow DEF table
  <2>. QED
    BY <1>2, <1>3, <2>1, StillBacked DEF Supported, table
<1>4. CASE TouchHeartbeat(Hb(w), w)
  BY <1>1, <1>2, <1>4, TouchBacked
<1>. QED
  BY <1>3, <1>4 DEF Beat

LEMMA GraphBacked ==
    ASSUME TypeOK, Supported, NEW g \in Graphs, Graph(g)
    PROVE  Supported'
<1>. USE DEF TypeOK
<1> DEFINE p == GraphProc(g)
<1>j. PICK j : j = graph[g].job
  OBVIOUS
<1>p. p \in Procs /\ Gt(g) \in Threads
  BY ThreadNames, ProcTypes
<1>a. ASSUME NEW label, GraphAt(g, label), label # "idle"
      PROVE  /\ io[Gt(g)] = Idle /\ ~io[Gt(g)].withResult
             /\ j \in Jobs /\ mem[p][j] \in Entry
             /\ mem[p][j].status = "complete" => Backed(j)
  BY <1>a, <1>j, <1>p DEF GraphAt, PipelineOK, MemOK, Supported, MemBacked, Idle
<1>g. ASSUME NEW label, GraphGoto(g, label), UNCHANGED bg, Growing,
             label = "enqueue" => Backed(j)'
      PROVE  PipeBacked'
  <2>1. \A h \in Graphs : /\ graph'[h].job = graph[h].job
                          /\ h # g => graph'[h].pc = graph[h].pc
    BY <1>g DEF GraphGoto, PipelineOK
  <2>2. graph'[g].pc = label
    BY <1>g DEF GraphGoto, PipelineOK
  <2> SUFFICES ASSUME NEW h \in Graphs, graph'[h].pc = "enqueue" \/ bg'[h] # "off"
               PROVE  Backed(graph[h].job)'
    BY DEF PipeBacked
  <2>3. CASE h = g /\ label = "enqueue"
    BY <1>g, <1>j, <2>1, <2>3
  <2>4. CASE h # g \/ label # "enqueue"
    <3>1. Backed(graph[h].job)
      BY <1>g, <2>1, <2>2, <2>4 DEF PipeBacked, Supported
    <3>. QED
      BY <1>g, <2>1, <3>1 DEF Growing
  <2>. QED
    BY <2>3, <2>4
<1>q. UNCHANGED seen => \A r \in Requests : seen'[Rt(r)] = seen[Rt(r)]
  OBVIOUS
<1>. HIDE DEF p
<1>1. CASE StartJob(g)
  <2> DEFINE f == Fields("processing", Unset, Unset, 0)
  <2>1. GraphAt(g, "begin") /\ UpsertOn(mem[p][j], Gt(g), p, j, f, FALSE)
    BY <1>j, <1>1 DEF StartJob, Upsert, p
  <2>2. f \in Entry
    BY FieldsType, StatusNames
  <2>3. Or(f.status, mem[p][j].status) = "processing"
    BY UnsetIsNew DEF Fields, Blank, Or
  <2>. HIDE DEF f
  <2>4. UNCHANGED <<table, seen, bg, api>> /\ GraphGoto(g, "work")
    BY <1>1 DEF StartJob
  <2>5. Growing /\ RowBacked' /\ MemBacked' /\ IoBacked' /\ ApiBacked'
    BY <1>p, <1>a, <1>q, <2>1, <2>2, <2>3, <2>4, ThreadBacked
  <2>. QED
    BY <1>g, <2>4, <2>5 DEF Supported
<1>2. CASE ProgressTick(g)
  <2>1. GraphAt(g, "work")
    BY <1>2 DEF ProgressTick
  <2>2. CASE SetProgress(Gt(g), p, j, 0)
    BY <1>2, <1>p, <1>a, <1>q, <2>1, <2>2, ProgressBacked DEF ProgressTick
  <2>3. CASE /\ mem' = [mem EXCEPT ![p][j] = [mem[p][j] EXCEPT
                              !.status = Or(@, "processing"), !.prog = 0]]
             /\ UNCHANGED io
    <3>1. Growing
      BY <1>2, <2>3, ResultsOnlyGrow DEF ProgressTick, table
    <3>2. Or(mem[p][j].status, "processing") = "complete" => Backed(j)
      BY <1>a, <2>1 DEF Or
    <3>3. mem'[p][j].status = "complete" => Backed(j)
      BY <1>p, <1>a, <2>1, <2>3, <3>2 DEF MemOK, Entry
    <3>4. \A q \in Procs, k \in Jobs : q # p \/ k # j => mem'[q][k] = mem[q][k]
      BY <1>p, <1>a, <2>1, <2>3 DEF MemOK
    <3>5. MemBacked'
      BY <3>1, <3>3, <3>4 DEF MemBacked, Supported, Growing
    <3>. QED
      BY <1>2, <2>3, <3>1, <3>5, StillBacked DEF ProgressTick, Supported, table
  <2>. QED
    BY <1>j, <1>2, <2>2, <2>3 DEF ProgressTick, p
<1>3. CASE GraphFails(g)
  <2>1. Growing
    BY <1>3, ResultsOnlyGrow DEF GraphFails, table
  <2>. QED
    BY <1>3, <1>g, <2>1, StillBacked DEF GraphFails, Supported, table
<1>4. CASE SummaryReady(g)
  <2>1. GraphAt(g, "work") /\ SetProgress(Gt(g), p, j, 1) /\ GraphGoto(g, "deliver")
    BY <1>j, <1>4 DEF SummaryReady, p
  <2>2. UNCHANGED <<table, seen, bg, api>>
    BY <1>4 DEF SummaryReady
  <2>3. Growing /\ RowBacked' /\ MemBacked' /\ IoBacked' /\ ApiBacked'
    BY <1>p, <1>a, <1>q, <2>1, <2>2, ProgressBacked
  <2>. QED
    BY <1>g, <2>1, <2>2, <2>3 DEF Supported
<1>5. CASE DeliverSummary(g)
  <2> DEFINE f == Fields("complete", Unset, Unset, 1)
  <2>1. GraphAt(g, "deliver") /\ UpsertOn(mem[p][j], Gt(g), p, j, f, TRUE)
    BY <1>j, <1>5 DEF DeliverSummary, p
  <2>2. f \in Entry
    BY FieldsType, StatusNames
  <2>. HIDE DEF f
  <2>3. UNCHANGED <<table, seen, bg, api>> /\ GraphGoto(g, "enqueue")
    BY <1>5 DEF DeliverSummary
  <2>4. Growing /\ RowBacked' /\ MemBacked' /\ IoBacked' /\ ApiBacked'
    BY <1>p, <1>a, <1>q, <2>1, <2>2, <2>3, ThreadBacked
  <2>5. Backed(j)'
    BY <1>p, <2>1 DEF UpsertOn, Backed, IoOK
  <2>. QED
    BY <1>g, <2>3, <2>4, <2>5 DEF Supported
<1>6. CASE EnqueuePostSummary(g)
  <2>1. Growing
    BY <1>6, ResultsOnlyGrow DEF EnqueuePostSummary, table
  <2>2. Backed(j)
    BY <1>j, <1>6 DEF EnqueuePostSummary, GraphAt, PipeBacked, Supported
  <2>3. \A h \in Graphs : /\ graph'[h].job = graph[h].job
                          /\ h # g => graph'[h].pc = graph[h].pc /\ bg'[h] = bg[h]
    BY <1>6 DEF EnqueuePostSummary, GraphGoto, PipelineOK
  <2>4. PipeBacked'
    <3> SUFFICES ASSUME NEW h \in Graphs, graph'[h].pc = "enqueue" \/ bg'[h] # "off"
                 PROVE  Backed(graph[h].job)'
      BY DEF PipeBacked
    <3>1. Backed(graph[h].job)
      BY <1>j, <2>2, <2>3 DEF PipeBacked, Supported
    <3>. QED
      BY <2>1, <2>3, <3>1 DEF Growing
  <2>. QED
    BY <1>6, <2>1, <2>4, StillBacked DEF EnqueuePostSummary, Supported, table
<1>7. CASE ReapGraph(g)
  <2>1. Growing
    BY <1>7, ResultsOnlyGrow DEF ReapGraph, table
  <2>2. bg[g] = "off" /\ graph'[g].pc = "idle" /\ UNCHANGED bg
        /\ \A h \in Graphs : h # g => graph'[h] = graph[h]
    BY <1>7 DEF ReapGraph, PipelineOK, NoThread
  <2>3. PipeBacked'
    BY <2>1, <2>2 DEF PipeBacked, Supported, Growing
  <2>4. \A r \in Requests : seen'[Rt(r)] = seen[Rt(r)]
    BY <1>7, ThreadNames DEF ReapGraph, SeenOK, Rt, Bt
  <2>. QED
    BY <1>7, <2>1, <2>3, <2>4, StillBacked DEF ReapGraph, Supported, table
<1>. QED
  BY <1>1, <1>2, <1>3, <1>4, <1>5, <1>6, <1>7 DEF Graph

LEMMA BackgroundBacked ==
    ASSUME TypeOK, Supported, NEW g \in Graphs, Background(g)
    PROVE  Supported'
<1>. USE DEF TypeOK
<1> DEFINE p == GraphProc(g)
           j == graph[g].job
<1>p. p \in Procs /\ Bt(g) \in Threads
  BY ThreadNames, ProcTypes
<1>a. ASSUME NEW label, BgAt(g, label), label # "off"
      PROVE  /\ ~io[Bt(g)].withResult
             /\ j \in Jobs /\ mem[p][j] \in Entry
             /\ Current(p, j) \in Entry /\ Returned(Bt(g), p, j) \in Entry
             /\ Backed(j)
  BY <1>a, <1>p, CurrentType, ReturnedType
  DEF BgAt, PipelineOK, MemOK, Supported, PipeBacked, Idle
<1>s. /\ UNCHANGED seen => \A r \in Requests : seen'[Rt(r)] = seen[Rt(r)]
      /\ Forget(Bt(g)) \/ GetJob(Bt(g), p, j) => \A r \in Requests : seen'[Rt(r)] = seen[Rt(r)]
  BY <1>p, ThreadNames DEF Bt, Rt, Forget, GetJob, SeenOK
<1>g. ASSUME NEW from, NEW label, BgAt(g, from), from # "off", BgGoto(g, label),
             UNCHANGED graph, Growing
      PROVE  PipeBacked'
  <2>1. \A h \in Graphs : h # g => bg'[h] = bg[h]
    BY <1>g DEF BgGoto, PipelineOK
  <2>. QED
    BY <1>a, <1>g, <2>1 DEF PipeBacked, Supported, Growing, j
<1>u. ASSUME NEW from, NEW label, BgAt(g, from), from # "off", BgGoto(g, label),
             NEW m \in Entry, NEW f \in Entry, NEW b \in BOOLEAN,
             UpsertOn(m, Bt(g), p, j, f, b), UNCHANGED <<table, graph, api>>,
             \A r \in Requests : seen'[Rt(r)] = seen[Rt(r)]
      PROVE  Supported'
  <2>1. Growing /\ RowBacked' /\ MemBacked' /\ IoBacked' /\ ApiBacked'
    BY <1>p, <1>a, <1>u, ThreadBacked
  <2>. QED
    BY <1>g, <1>u, <2>1 DEF Supported
<1>k. ASSUME NEW from, NEW label, BgAt(g, from), from # "off", BgGoto(g, label),
             UNCHANGED <<table, mem, io, graph, api>>,
             \A r \in Requests : seen'[Rt(r)] = seen[Rt(r)]
      PROVE  Supported'
  <2>1. Growing
    BY <1>k, ResultsOnlyGrow DEF table
  <2>2. PipeBacked'
    BY <1>g, <1>k, <2>1
  <2>. QED
    BY <1>k, <2>1, <2>2, StillBacked DEF Supported, table
<1>. HIDE DEF p, j
<1>1. ASSUME NEW from \in {"index", "carbon", "wrapup"}, NEW floor \in 1..2,
             NEW to, SetBg(g, from, floor, to)
      PROVE  Supported'
  <2> DEFINE old == Or(mem[p][j].prog, 0)
             f == Fields(Unset, Unset, Unset, IF old > floor THEN old ELSE floor)
  <2>1. BgAt(g, from)
    BY <1>1 DEF SetBg
  <2>2. old \in 0..2
    BY <1>a, <2>1 DEF Or, Entry
  <2>3. UpsertOn(mem[p][j], Bt(g), p, j, f, FALSE)
    BY <1>1 DEF SetBg, Upsert, p, j
  <2>. HIDE DEF old
  <2>4. f \in Entry
    BY <2>2, FieldsType
  <2>. HIDE DEF f
  <2>5. BgGoto(g, to) /\ UNCHANGED <<table, seen, graph, api>>
    BY <1>1 DEF SetBg
  <2>. QED
    BY <1>a, <1>s, <1>u, <2>1, <2>3, <2>4, <2>5
<1>2. CASE FinalizeRead(g)
  <2>1. BgAt(g, "finalize") /\ BgGoto(g, "finalizing") /\ UNCHANGED <<table, mem, io, graph, api>>
        /\ GetJob(Bt(g), p, j)
    BY <1>2 DEF FinalizeRead, p, j
  <2>. QED
    BY <1>k, <1>s, <2>1
<1>3. CASE FinalizeMetrics(g)
  <2> DEFINE e == Returned(Bt(g), p, j)
             status == IF e.status \in Done THEN "complete" ELSE "processing"
             f == Fields(status, Unset, Unset, 2)
  <2>1. BgAt(g, "finalizing") /\ BgGoto(g, "patch") /\ UNCHANGED <<table, graph, api>>
        /\ Forget(Bt(g)) /\ UpsertOn(e, Bt(g), p, j, f, FALSE)
    BY <1>3 DEF FinalizeMetrics, p, j
  <2>2. status \in Statuses
    BY StatusNames
  <2>. HIDE DEF status
  <2>3. f \in Entry
    BY <2>2, FieldsType
  <2>4. e \in Entry
    BY <1>a, <2>1
  <2>. HIDE DEF e, f
  <2>. QED
    BY <1>s, <1>u, <2>1, <2>3, <2>4
<1>4. CASE FinalizeFails(g)
  <2>1. BgAt(g, "finalizing") /\ BgGoto(g, "wrapup") /\ UNCHANGED <<table, mem, io, graph, api>>
        /\ Forget(Bt(g))
    BY <1>4 DEF FinalizeFails
  <2>. QED
    BY <1>k, <1>s, <2>1
<1>5. CASE PatchResultCarbon(g)
  <2> DEFINE f == Fields("complete", Unset, Unset, 2)
  <2>1. BgAt(g, "patch") /\ BgGoto(g, "wrapup") /\ UNCHANGED <<table, seen, graph, api>>
        /\ UpsertOn(Current(p, j), Bt(g), p, j, f, TRUE)
    BY <1>5 DEF PatchResultCarbon, p, j
  <2>2. f \in Entry
    BY FieldsType, StatusNames
  <2>. HIDE DEF f
  <2>. QED
    BY <1>a, <1>s, <1>u, <2>1, <2>2
<1>. QED
  BY <1>1, <1>2, <1>3, <1>4, <1>5 DEF Background

LEMMA ApiBackedStep ==
    ASSUME TypeOK, Accounted, Supported, Undamaged, Undamaged', NEW r \in Requests, Api(r)
    PROVE  Supported'
<1>. USE DEF TypeOK
<1> DEFINE p == ApiProc
           e == ApiEntry(r)
<1>j. PICK j : j = ApiJob(r)
  OBVIOUS
<1>p. p \in Procs /\ Rt(r) \in Threads /\ \A q \in Requests : Rt(q) = Rt(r) => q = r
  BY ThreadNames DEF Rt
<1>a. ASSUME NEW label, ApiAt(r, label), label # "idle"
      PROVE  /\ api[r].pc = label /\ j \in Jobs /\ ~io[Rt(r)].withResult
             /\ mem[p][j] \in Entry /\ e \in Entry
             /\ e.status = "complete" => Backed(j)
  <2>1. api[r].pc = label /\ j = api[r].job /\ j \in Jobs /\ io[Rt(r)] = Idle
    BY <1>a, <1>j DEF ApiAt, ApiJob, ApiOK
  <2>2. e \in Entry /\ mem[p][j] \in Entry
    BY <1>p, <2>1, ReturnedType DEF ApiEntry, ApiJob, MemOK
  <2>3. e.status = "complete" => Backed(j)
    BY <1>a, <1>p, <2>1 DEF ApiEntry, Returned, Supported, ApiBacked, MemBacked
  <2>. QED
    BY <2>1, <2>2, <2>3 DEF Idle
\* The request goes on with nothing read, or ends.
<1>g. ASSUME NEW label, ApiGoto(r, label), label # "healing", Growing, Forget(Rt(r))
      PROVE  ApiBacked'
  <2>1. \A q \in Requests : q # r => api'[q] = api[q] /\ seen'[Rt(q)] = seen[Rt(q)]
    BY <1>g, <1>p, ThreadNames DEF ApiGoto, Forget, ApiOK, SeenOK
  <2>2. api'[r].pc = label
    BY <1>g DEF ApiGoto, ApiOK, NoRequest
  <2>3. api'[r].pc # "idle" => seen'[Rt(r)].entry.status # "complete"
    BY <1>g, <1>p, <2>2, StatusNames, UnsetIsNew DEF Forget, SeenOK, Nothing, Blank
  <2> SUFFICES ASSUME NEW q \in Requests
               PROVE  /\ api'[q].pc # "idle" /\ seen'[Rt(q)].entry.status = "complete"
                           => Backed(api[q].job)'
                      /\ api'[q].pc = "healing" => Backed(api[q].job)'
    BY DEF ApiBacked
  <2>4. CASE q = r
    BY <1>g, <2>2, <2>3, <2>4
  <2>5. CASE q # r
    BY <1>g, <2>1, <2>5 DEF Supported, ApiBacked, Growing
  <2>. QED
    BY <2>4, <2>5
\* The request reads the job k, which it is or will be on.
<1>r. ASSUME NEW k \in Jobs, GetJob(Rt(r), p, k), Growing,
             NEW label, api' = [api EXCEPT ![r] = [pc |-> label, job |-> k]],
             label = "healing" => Backed(k)
      PROVE  ApiBacked'
  <2>1. \A q \in Requests : q # r => api'[q] = api[q] /\ seen'[Rt(q)] = seen[Rt(q)]
    BY <1>r, <1>p, ThreadNames DEF GetJob, ApiOK, SeenOK
  <2>2. api'[r].pc = label /\ api'[r].job = k
    BY <1>r DEF ApiOK
  <2>3. seen'[Rt(r)].entry.status = "complete" => Backed(k)
    BY <1>r, <1>p, ReadBacked DEF GetJob, SeenOK, Supported, MemBacked
  <2> SUFFICES ASSUME NEW q \in Requests
               PROVE  /\ api'[q].pc # "idle" /\ seen'[Rt(q)].entry.status = "complete"
                           => Backed(api[q].job)'
                      /\ api'[q].pc = "healing" => Backed(api[q].job)'
    BY DEF ApiBacked
  <2>4. CASE q = r
    BY <1>r, <2>2, <2>3, <2>4 DEF Growing
  <2>5. CASE q # r
    BY <1>r, <2>1, <2>5 DEF Supported, ApiBacked, Growing
  <2>. QED
    BY <2>4, <2>5
<1>k. ASSUME UNCHANGED <<table, mem, io, graph, bg>>
      PROVE  Growing /\ RowBacked' /\ MemBacked' /\ IoBacked' /\ PipeBacked'
  <2>1. Growing
    BY <1>k, ResultsOnlyGrow DEF table
  <2>. QED
    BY <1>k, <2>1, StillBacked DEF table, Supported
\* What it holds goes to the cache, or an upsert of it starts.
<1>w. ASSUME NEW from, ApiAt(r, from), from # "idle", UNCHANGED <<table, graph, bg>>,
             \/ Refresh(r) /\ UNCHANGED io
             \/ \E f \in Entry : /\ ApiUpsert(r, f)
                                 /\ f.status = "complete" => Backed(j)
      PROVE  Growing /\ RowBacked' /\ MemBacked' /\ IoBacked' /\ PipeBacked'
  <2>1. Growing /\ MemBacked' /\ IoBacked'
    <3>1. CASE Refresh(r) /\ UNCHANGED io
      <4>1. Growing
        BY <1>w, <3>1, ResultsOnlyGrow DEF table
      <4>2. mem' = [mem EXCEPT ![p][j] = e]
        BY <1>j, <3>1 DEF Refresh
      <4>. HIDE DEF p, e
      <4>3. MemBacked'
        BY <1>a, <1>p, <1>w, <4>1, <4>2 DEF MemBacked, Supported, MemOK, Growing
      <4>. QED
        BY <3>1, <4>1, <4>3, StillBacked DEF Supported
    <3>2. ASSUME NEW f \in Entry, ApiUpsert(r, f), f.status = "complete" => Backed(j)
          PROVE  Growing /\ MemBacked' /\ IoBacked'
      <4>1. UpsertOn(e, Rt(r), p, j, f, FALSE)
        BY <1>j, <3>2 DEF ApiUpsert
      <4>. HIDE DEF p, e
      <4>2. Or(f.status, e.status) = "complete" => Backed(j)
        BY <1>a, <1>w, <3>2 DEF Or
      <4>. QED
        BY <1>a, <1>p, <1>w, <4>1, <4>2, UpsertBacked DEF Supported, table
    <3>. QED
      BY <1>w, <3>1, <3>2
  <2>. QED
    BY <1>w, <2>1, StillBacked DEF Supported, table
<1>. HIDE DEF p, e
<1>1. ASSUME NEW k \in Jobs, EnqueueJob(r, k) PROVE Supported'
  <2>1. NewRow \in Entry /\ mem[p][k] \in Entry /\ ~io[Rt(r)].withResult
    BY <1>1, <1>p, NewRowIsRow, RowIsEntry DEF MemOK, EnqueueJob, ApiAt, Idle
  <2>2. UpsertOn(mem[p][k], Rt(r), p, k, NewRow, FALSE)
    BY <1>1 DEF EnqueueJob, Upsert, p
  <2>3. Or(NewRow.status, mem[p][k].status) = "pending"
    BY UnsetIsNew, StatusNames DEF Or, NewRow
  <2>4. UNCHANGED <<table, seen, graph, bg, api>>
    BY <1>1 DEF EnqueueJob
  <2>. QED
    BY <1>p, <2>1, <2>2, <2>3, <2>4, ThreadBacked
<1>2. ASSUME NEW k \in Jobs, NEW kind \in {"poll", "cancel", "purge"}, Request(r, k, kind, kind)
      PROVE  Supported'
  <2>1. /\ GetJob(Rt(r), p, k) /\ api' = [api EXCEPT ![r] = [pc |-> kind, job |-> k]]
        /\ UNCHANGED <<table, mem, io, graph, bg>>
    BY <1>2 DEF Request, p
  <2>. QED
    BY <1>k, <1>r, <2>1 DEF Supported
<1>3. ASSUME NEW from, from # "idle", NEW to, to # "idle", Reread(r, from, to),
             to = "healing" => Backed(j)
      PROVE  Supported'
  <2>1. /\ ApiAt(r, from) /\ GetJob(Rt(r), p, j) /\ ApiGoto(r, to)
        /\ UNCHANGED <<table, mem, io, graph, bg>>
    BY <1>3, <1>j DEF Reread, p
  <2>2. api' = [api EXCEPT ![r] = [pc |-> to, job |-> j]]
    <3>1. api' = [api EXCEPT ![r] = [@ EXCEPT !.pc = to]]
      BY <1>3, <2>1 DEF ApiGoto
    <3>2. api[r] \in [pc : ApiPcs, job : Jobs \cup {NoJob}] /\ api[r].job = j
      BY <1>j DEF ApiOK, ApiJob
    <3>3. [api[r] EXCEPT !.pc = to] = [pc |-> to, job |-> j]
      BY <3>2
    <3>. QED
      BY <3>1, <3>3
  <2>. QED
    BY <1>3, <1>a, <1>k, <1>r, <2>1, <2>2 DEF Supported
<1>4. CASE PollDecide(r)
  <2>1. /\ ApiAt(r, "poll") /\ Refresh(r) /\ Forget(Rt(r))
        /\ \E next \in {"stalled", "heal", "idle"} : ApiGoto(r, next)
        /\ UNCHANGED <<table, io, graph, bg>>
    BY <1>4 DEF PollDecide
  <2>2. Growing /\ RowBacked' /\ MemBacked' /\ IoBacked' /\ PipeBacked'
    BY <1>w, <2>1
  <2>. QED
    BY <1>g, <2>1, <2>2 DEF Supported
<1>5. CASE RequeueStalled(r)
  <2> DEFINE kept == KeptProg(Or(e.prog, 0))
  <2>1. /\ ApiAt(r, "requeue") /\ Forget(Rt(r))
        /\ \E next \in {"heal", "idle"} : ApiGoto(r, next)
        /\ UNCHANGED <<table, graph, bg>>
        /\ \/ Refresh(r) /\ UNCHANGED io
           \/ \E status \in {"error", "pending"} :
                ApiUpsert(r, Fields(status, NoWorker, "none", kept))
    BY <1>5 DEF RequeueStalled, e
  <2>2. kept \in 0..2
    BY DEF KeptProg
  <2>. HIDE DEF kept
  <2>3. \A status \in {"error", "pending"} :
          /\ Fields(status, NoWorker, "none", kept) \in Entry
          /\ Fields(status, NoWorker, "none", kept).status # "complete"
    <3>1. \A status \in {"error", "pending"} : Fields(status, NoWorker, "none", kept) \in Entry
      BY <2>2, FieldsType, StatusNames
    <3>. QED
      BY <3>1 DEF Fields, Blank
  <2>4. Growing /\ RowBacked' /\ MemBacked' /\ IoBacked' /\ PipeBacked'
    BY <1>w, <2>1, <2>3
  <2>. QED
    BY <1>g, <2>1, <2>4 DEF Supported
<1>6. CASE HealRead(r)
  <2>1. j \in result => Backed(j)
    BY DEF Backed
  <2>. QED
    BY <1>3, <1>6, <1>j, <2>1 DEF HealRead
<1>7. CASE Heal(r)
  <2>1. ASSUME ApiAt(r, "healing"),
               ApiUpsert(r, Fields("complete", NoWorker, "none", 2)),
               ApiGoto(r, "confirm"), Forget(Rt(r)), UNCHANGED <<table, graph, bg>>
        PROVE  Supported'
    <3>1. Fields("complete", NoWorker, "none", 2) \in Entry
      BY FieldsType, StatusNames
    <3>2. Backed(j)
      BY <1>a, <1>j, <2>1 DEF Supported, ApiBacked, ApiJob
    <3>3. Growing /\ RowBacked' /\ MemBacked' /\ IoBacked' /\ PipeBacked'
      BY <1>w, <2>1, <3>1, <3>2
    <3>. QED
      BY <1>g, <2>1, <3>3 DEF Supported
  <2>2. ASSUME ApiAt(r, "settle"), Refresh(r), ApiGoto(r, "idle"), Forget(Rt(r)),
               UNCHANGED <<table, io, graph, bg>>
        PROVE  Supported'
    <3>1. Growing /\ RowBacked' /\ MemBacked' /\ IoBacked' /\ PipeBacked'
      BY <1>w, <2>2
    <3>. QED
      BY <1>g, <2>2, <3>1 DEF Supported
  <2>. QED
    BY <1>7, <2>1, <2>2 DEF Heal
<1>8. CASE CancelJob(r) \/ PurgeCancel(r)
  <2>1. PICK from \in {"cancel", "purge"}, next \in {"idle", "erase"} :
          /\ ApiAt(r, from) /\ ApiGoto(r, next) /\ CancelActive(r) /\ Forget(Rt(r))
          /\ UNCHANGED <<table, graph, bg>>
    BY <1>8 DEF CancelJob, PurgeCancel
  <2> DEFINE f == Fields("cancelled", NoWorker, "none", Unset)
  <2>2. f \in Entry /\ f.status # "complete"
    <3>1. f \in Entry
      BY FieldsType, StatusNames
    <3>. QED
      BY <3>1 DEF Fields, Blank
  <2>3. ApiUpsert(r, f) \/ (Refresh(r) /\ UNCHANGED io)
    BY <2>1 DEF CancelActive
  <2>. HIDE DEF f
  <2>4. Growing /\ RowBacked' /\ MemBacked' /\ IoBacked' /\ PipeBacked'
    BY <1>w, <2>1, <2>2, <2>3
  <2>. QED
    BY <1>g, <2>1, <2>4 DEF Supported
<1>9. ~DeleteRecord(r)
  BY DEF DeleteRecord, ApiAt, Accounted, Undamaged
<1>. QED
  BY <1>1, <1>2, <1>3, <1>4, <1>5, <1>6, <1>7, <1>8, <1>9 DEF Api

\* A row is complete if the snapshot or the row it is merged with was.
LEMMA PersistComplete ==
    ASSUME NEW r \in Row \cup {Blank}, NEW s \in Entry, Persist(r, s).status = "complete"
    PROVE  s.status = "complete" \/ r.status = "complete"
<1> DEFINE base == IF r = Blank THEN NewRow ELSE r
           new  == Merge(s, base)
<1>1. base \in Row /\ (base.status = "complete" => r.status = "complete")
  BY NewRowIsRow DEF NewRow
<1>2. new \in Row /\ new.status = Or(s.status, base.status)
  BY <1>1, MergeType, RowIsEntry DEF Merge
<1>. HIDE DEF base, new
<1>3. Persist(r, s).status = IF Refused(base, s) THEN base.status ELSE new.status
  BY <1>2 DEF Persist, base, new, Row
<1>. QED
  BY <1>1, <1>2, <1>3 DEF Or

\* The write of a row, and the pair of writes of a row and its result.
LEMMA WriteBacked ==
    ASSUME TypeOK, Supported, Undamaged', NEW t \in Threads, Write(t)
    PROVE  Supported'
<1>. USE DEF TypeOK
<1>j. PICK j : j = io[t].job
  OBVIOUS
<1>1. ~FlushLost(t) /\ ~ResultLost(t)
  BY HarmCounted DEF FlushLost, ResultLost
<1>q. UNCHANGED seen => \A r \in Requests : seen'[Rt(r)] = seen[Rt(r)]
  OBVIOUS
<1>a. ASSUME Advance(t), UNCHANGED result, io[t].stage # "idle"
      PROVE  Growing /\ IoBacked'
  <2>1. /\ \A s \in Threads : s # t => io'[s] = io[s]
        /\ io[t].withResult => io'[t].withResult /\ io'[t].job = io[t].job
        /\ io'[t].snap = Blank /\ io'[t].base = Blank
    BY <1>a DEF Advance, IoOK, Idle
  <2>2. Growing
    BY <1>a, <2>1, ResultsOnlyGrow
  <2>3. Blank.status # "complete"
    BY UnsetIsNew, StatusNames DEF Blank
  <2>4. IoBacked'
    BY <2>1, <2>2, <2>3 DEF Supported, IoBacked, Growing
  <2>. QED
    BY <2>2, <2>4
<1>b. ASSUME Advance(t), io[t].stage # "idle",
             UNCHANGED <<result, mem, seen, graph, bg, api>>,
             \A k \in Jobs : row'[k].status = "complete" =>
                row[k].status = "complete" \/ Backed(k)
      PROVE  Supported'
  <2>1. Growing /\ IoBacked'
    BY <1>a, <1>b
  <2>2. RowBacked'
    BY <1>b, <2>1 DEF RowBacked, Supported, Growing
  <2>. QED
    BY <1>b, <1>q, <2>1, <2>2, StillBacked DEF Supported
<1>2. CASE Flush(t)
  <2>1. j \in Jobs /\ io[t].snap \in Entry /\ io[t].stage # "idle"
    BY <1>j, <1>2 DEF Flush, IoOK, InFlight
  <2>2. row' = [row EXCEPT ![j] = Persist(row[j], io[t].snap)]
    BY <1>j, <1>2 DEF Flush
  <2>3. Persist(row[j], io[t].snap).status = "complete" =>
          row[j].status = "complete" \/ Backed(j)
    BY <1>j, <2>1, PersistComplete DEF RowOK, Supported, IoBacked
  <2>4. \A k \in Jobs : row'[k].status = "complete" =>
                row[k].status = "complete" \/ Backed(k)
    BY <2>1, <2>2, <2>3 DEF RowOK
  <2>. QED
    BY <1>2, <1>b, <2>1, <2>4 DEF Flush
<1>3. CASE CommitRow(t)
  <2> DEFINE base == io[t].base
             new  == Persist(base, io[t].snap)
             kept == [c \in DOMAIN Blank |->
                        IF new[c] = base[c] /\ ~(c = "hb" /\ new.hb = "fresh")
                        THEN row[j][c] ELSE new[c]]
  <2>1. j \in Jobs /\ io[t].snap \in Entry /\ base \in Row \cup {Blank} /\ io[t].stage # "idle"
    BY <1>j, <1>3 DEF CommitRow, IoOK, InFlight
  <2>2. UNCHANGED row \/ row' = [row EXCEPT ![j] = kept]
    BY <1>j, <1>3 DEF CommitRow
  <2>3. "status" \in DOMAIN Blank
    BY DEF Blank
  <2>4. new.status = "complete" => Backed(j)
    BY <1>j, <2>1, PersistComplete DEF Supported, IoBacked
  <2>5. kept.status = row[j].status \/ kept.status = new.status
    BY <2>3
  <2>. HIDE DEF kept
  <2>6. \A k \in Jobs : row'[k].status = "complete" =>
                row[k].status = "complete" \/ Backed(k)
    BY <2>1, <2>2, <2>4, <2>5 DEF RowOK
  <2>. QED
    BY <1>3, <1>b, <2>1, <2>6 DEF CommitRow
<1>4. CASE ReadRow(t)
  <2>1. /\ \A s \in Threads : s # t => io'[s] = io[s]
        /\ io'[t].withResult = io[t].withResult /\ io'[t].job = j
        /\ io'[t].snap = io[t].snap /\ io'[t].base = row[j] /\ j \in Jobs
    BY <1>j, <1>4 DEF ReadRow, IoOK, InFlight
  <2>2. UNCHANGED <<table, mem, seen, graph, bg, api>>
    BY <1>4 DEF ReadRow
  <2>3. Growing
    BY <1>j, <2>1, <2>2, ResultsOnlyGrow DEF table
  <2>4. IoBacked'
    BY <1>j, <2>1, <2>3 DEF IoBacked, RowBacked, Supported, Growing
  <2>. QED
    BY <1>q, <2>2, <2>3, <2>4, StillBacked DEF Supported, table
<1>5. CASE StoreResult(t)
  <2> DEFINE p == ProcOfThread(t)
  <2>1. j \in Jobs /\ p \in Procs
    BY <1>j, <1>5, ProcTypes DEF StoreResult, IoOK
  <2>2. /\ row' = [row EXCEPT ![j] = IF @ = Blank THEN NewRow ELSE @]
        /\ result' = result \cup {j}
        /\ mem' = [mem EXCEPT ![p][j] = IF row[j] = Blank THEN @ ELSE View(row[j], @)]
        /\ io' = [io EXCEPT ![t] = Idle]
        /\ UNCHANGED <<seen, graph, bg, api>>
    BY <1>j, <1>5 DEF StoreResult
  <2>. HIDE DEF p
  <2>3. Growing
    BY <1>j, <2>2, ResultsOnlyGrow DEF IoOK
  <2>4. Backed(j)'
    BY <2>2 DEF Backed
  <2>5. RowBacked'
    <3>1. \A k \in Jobs : row'[k].status = "complete" => row[k].status = "complete" \/ k = j
      BY <2>1, <2>2 DEF RowOK
    <3>. QED
      BY <2>3, <2>4, <3>1 DEF RowBacked, Supported, Growing
  <2>6. MemBacked'
    <3>1. \A q \in Procs, k \in Jobs : mem'[q][k] = mem[q][k] \/ k = j
      BY <2>1, <2>2 DEF MemOK
    <3>. QED
      BY <2>3, <2>4, <3>1 DEF MemBacked, Supported, Growing
  <2>7. IoBacked'
    <3>1. \A s \in Threads : io'[s] = Idle \/ io'[s] = io[s]
      BY <2>2 DEF IoOK
    <3>2. Idle.snap.status # "complete" /\ Idle.base.status # "complete"
      BY UnsetIsNew, StatusNames DEF Idle, Blank
    <3>. QED
      BY <2>3, <3>1, <3>2 DEF IoBacked, Supported, Growing
  <2>. QED
    BY <1>q, <2>2, <2>3, <2>5, <2>6, <2>7, StillBacked DEF Supported
<1>. QED
  BY <1>1, <1>2, <1>3, <1>4, <1>5 DEF Write

LEMMA LoopBacked ==
    ASSUME TypeOK, Accounted, Supported, Undamaged, Undamaged', NEW w \in Workers, Loop(w)
    PROVE  Supported'
<1>. USE DEF TypeOK
<1>1. ~ReleaseOnShutdown(w)
  BY HarmCounted DEF ReleaseOnShutdown
<1>2. ~ExitProcess(w)
  BY DEF ExitProcess, Accounted, Undamaged
<1>3. UNCHANGED <<result, io>> => Growing
  BY ResultsOnlyGrow
<1>4. CASE ClaimNextJob(w)
  <2>1. PICK j \in Jobs : \E r : /\ r.status = "processing"
                                  /\ row' = [row EXCEPT ![j] = r]
                                  /\ mem' = [mem EXCEPT ![ProcOf[w]][j] = r]
    <3> DEFINE new(j) == [row[j] EXCEPT !.status = "processing", !.attempts = @ + 1,
                                        !.owner = w, !.hb = "fresh", !.prog = KeptProg(@)]
    <3>1. PICK j \in Jobs : /\ row[j].status = "pending"
                            /\ row' = [row EXCEPT ![j] = new(j)]
                            /\ mem' = [mem EXCEPT ![ProcOf[w]][j] = new(j)]
      BY <1>4, Zenon DEF ClaimNextJob, Claimable
    <3>2. row[j] \in Row
      BY <3>1, UnsetIsNew, StatusNames DEF RowOK, Blank
    <3>3. new(j).status = "processing"
      BY <3>2 DEF Row
    <3>. HIDE DEF new
    <3>. QED
      BY <3>1, <3>3
  <2>2. UNCHANGED <<result, io, seen, graph, bg, api>>
    BY <1>4 DEF ClaimNextJob
  <2>3. RowBacked'
    BY <1>3, <2>1, <2>2 DEF RowBacked, Supported, Growing, RowOK
  <2>4. MemBacked'
    <3>1. \A q \in Procs, k \in Jobs :
            mem'[q][k] = mem[q][k] \/ mem'[q][k].status = "processing"
      BY <2>1 DEF MemOK
    <3>. QED
      BY <1>3, <2>2, <3>1 DEF MemBacked, Supported, Growing
  <2>. QED
    BY <1>3, <2>2, <2>3, <2>4, StillBacked DEF Supported
<1>5. ASSUME NEW p \in Procs, NEW S, NEW failed, Recover(p, S, failed),
             UNCHANGED <<result, io, seen, graph, bg, api>>, \A j \in S : row[j].status = "processing"
      PROVE  Supported'
  <2>1. \A k \in Jobs : row'[k].status = "complete" => row[k].status = "complete"
    <3> SUFFICES ASSUME NEW k \in Jobs, k \in S PROVE row'[k].status # "complete"
      BY <1>5 DEF Recover
    <3>1. row[k] \in Row
      BY <1>5, UnsetIsNew, StatusNames DEF RowOK, Blank
    <3>2. row'[k] = Requeued(row[k], IF k \in failed THEN "error" ELSE "pending")
      BY <1>5 DEF Recover
    <3>3. ASSUME NEW status PROVE Requeued(row[k], status).status = status
      BY <3>1 DEF Requeued, Row
    <3>. QED
      BY <3>2, <3>3
  <2>2. RowBacked'
    BY <1>3, <1>5, <2>1 DEF RowBacked, Supported, Growing
  <2>3. \A q \in Procs, k \in Jobs : mem'[q][k] = mem[q][k] \/ mem'[q][k] = Blank
    BY <1>5 DEF Recover, MemOK
  <2>4. Blank.status # "complete"
    BY UnsetIsNew, StatusNames DEF Blank
  <2>5. MemBacked'
    BY <1>3, <1>5, <2>3, <2>4 DEF MemBacked, Supported, Growing
  <2>. QED
    BY <1>3, <1>5, <2>2, <2>5, StillBacked DEF Supported
<1>6. CASE StartWorker(w) \/ ReclaimStaleJobs(w)
  BY <1>5, <1>6 DEF StartWorker, ReclaimStaleJobs, Stale
<1>7. CASE IdlePoll(w)
  <2>1. UNCHANGED <<table, mem, io, seen, graph, bg, api>>
    BY <1>7 DEF IdlePoll, vars, table
  <2>. QED
    BY <1>3, <2>1, StillBacked DEF Supported, table
<1>. QED
  BY <1>1, <1>2, <1>4, <1>6, <1>7 DEF Loop

\* Time only ages heartbeats.
LEMMA StallBacked ==
    ASSUME TypeOK, Supported, NEW j \in Jobs, StallWindow(j)
    PROVE  Supported'
<1>. USE DEF TypeOK
<1>1. UNCHANGED <<result, graph, bg, api>>
  BY StallMoves
<1>2. \A e \in Entry : Age(e).status = e.status
  BY DEF Age, Entry
<1>3. \A k \in Jobs : row'[k].status = row[k].status
  <2>1. row' = [row EXCEPT ![j] = [row[j] EXCEPT !.hb = "stale"]]
    BY Zenon DEF StallWindow
  <2>2. row[j] \in Row
    <3>1. row[j].status = "processing"
      BY Zenon DEF StallWindow
    <3>. QED
      BY <3>1, UnsetIsNew, StatusNames DEF RowOK, Blank
  <2>. QED
    BY <2>1, <2>2 DEF RowOK, Row
<1>4. \A p \in Procs, k \in Jobs : mem'[p][k].status = mem[p][k].status
  <2>1. mem' = [p \in Procs |-> [mem[p] EXCEPT ![j] = Age(mem[p][j])]]
    BY Zenon DEF StallWindow
  <2>. QED
    BY <1>2, <2>1 DEF MemOK
<1>5. \A t \in Threads :
        /\ io'[t].job = io[t].job /\ io'[t].withResult = io[t].withResult
        /\ io'[t].snap.status = io[t].snap.status /\ io'[t].base.status = io[t].base.status
  <2> SUFFICES ASSUME NEW t \in Threads
               PROVE  /\ io'[t].job = io[t].job /\ io'[t].withResult = io[t].withResult
                      /\ io'[t].snap.status = io[t].snap.status
                      /\ io'[t].base.status = io[t].base.status
    OBVIOUS
  <2>1. io[t] \in InFlight
    BY DEF IoOK
  <2>2. io' = [s \in Threads |->
                 IF io[s].job = j THEN [io[s] EXCEPT !.snap = Age(@), !.base = Age(@)]
                 ELSE io[s]]
    BY Zenon DEF StallWindow
  <2>3. /\ Age(io[t].snap).status = io[t].snap.status
        /\ Age(io[t].base).status = io[t].base.status
    BY <1>2, <2>1, RowIsEntry, BlankIsEntry DEF InFlight
  <2>. QED
    BY <2>1, <2>2, <2>3 DEF InFlight
<1>6. \A t \in Threads : seen'[t].entry.status = seen[t].entry.status
  <2>1. seen' = [t \in Threads |-> [seen[t] EXCEPT !.entry = Age(seen[t].entry)]]
    BY Zenon DEF StallWindow
  <2>. QED
    BY <1>2, <2>1 DEF SeenOK
<1>7. Growing
  BY <1>1, <1>5, ResultsOnlyGrow
<1>8. RowBacked' /\ MemBacked'
  BY <1>3, <1>4, <1>7 DEF RowBacked, MemBacked, Supported, Growing
<1>9. IoBacked'
  BY <1>5, <1>7 DEF IoBacked, Supported, Growing
<1>10. ApiBacked'
  BY <1>1, <1>6, <1>7, ThreadNames DEF ApiBacked, Supported, Growing
<1>. QED
  BY <1>1, <1>7, <1>8, <1>9, <1>10, StillBacked DEF Supported

LEMMA BackedStep ==
    ASSUME TypeOK, BackedInv, [Next]_vars
    PROVE  BackedInv'
<1>1. Accounted'
  BY AccountedStep DEF BackedInv
<1>2. SUFFICES ASSUME Undamaged' PROVE Supported'
  BY <1>1 DEF BackedInv
<1>3. Undamaged
  BY <1>2, NextCounts DEF Undamaged, CountsKept, Kinds
<1>4. Supported /\ Accounted
  BY <1>3 DEF BackedInv
<1>5. ASSUME NEW p \in Procs PROVE ~Crash(p)
  BY <1>2, HarmCounted DEF Crash
<1>6. CASE UNCHANGED vars
  <2>1. UNCHANGED <<table, mem, io, seen, graph, bg, api>>
    BY <1>6 DEF vars, table
  <2>2. Growing
    BY <2>1, ResultsOnlyGrow DEF table
  <2>. QED
    BY <1>4, <2>1, <2>2, StillBacked DEF Supported, table
<1>. QED
  BY <1>2, <1>3, <1>4, <1>5, <1>6, WriteBacked, LoopBacked, RunnerBacked, BeatBacked,
     GraphBacked, BackgroundBacked, ApiBackedStep, StallBacked DEF Next

\* As long as no process dies between the two writes of a delivery, no write is lost
\* and no result is deleted, a row that says complete has its result or a thread that
\* is about to store it: through every retry, hang, timeout, cancellation, heal and
\* overlapping transaction, for any number of jobs, workers, processes and requests.
THEOREM CompleteIsBacked == Spec => []CompleteBacked
<1>1. Init => BackedInv
  <2>. SUFFICES ASSUME Init PROVE BackedInv
    OBVIOUS
  <2>1. Blank.status # "complete" /\ Idle.snap = Blank /\ Idle.base = Blank
    BY UnsetIsNew, StatusNames DEF Blank, Idle
  <2>2. RowBacked /\ MemBacked /\ IoBacked
    BY <2>1 DEF Init, RowBacked, MemBacked, IoBacked
  <2>3. PipeBacked /\ ApiBacked /\ Accounted
    BY DEF Init, PipeBacked, ApiBacked, Accounted, NoThread, NoRequest
  <2>. QED
    BY <2>2, <2>3 DEF BackedInv, Supported
<1>2. TypeOK /\ BackedInv /\ [Next]_vars => BackedInv'
  BY BackedStep
<1>3. BackedInv => CompleteBacked
  BY DEF BackedInv, Supported, RowBacked, CompleteBacked
<1>. QED
  BY <1>1, <1>2, <1>3, TypeCorrect, PTL DEF Spec

-----------------------------------------------------------------------------
(* One runner per job, and a finished job stays finished *)

Ended == {"complete", "error"}
Over(e) == e.status \in Ended

\* The record of a job that worker u runs and keeps alive.
Ours(e, u) == e.status = "processing" /\ e.owner = u /\ e.hb = "fresh"

RowOf(u) == row[cur[u]]
MemOf(u) == mem[ProcOf[u]][cur[u]]
Hand(w) == w.stage \in {"row", "commit"}
OwnHand(w, u) == Hand(w) /\ Ours(w.snap, u) /\ (w.stage = "commit" => Ours(w.base, u))

\* A run from the claim to its delivery or failure, while it delivers, and after.
AtWork(u) ==
    \/ pc[u] \in {"claimed", "begun", "download", "launch", "fail", "failing"}
    \/ pc[u] = "join" /\ graph[gr[u]].pc \in {"begin", "work", "deliver", "failed"}
HandsIn(u) == pc[u] = "join" /\ graph[gr[u]].pc = "enqueue"
AfterWork(u) ==
    pc[u] \in {"finished", "publish", "published"} \/ (pc[u] = "join" /\ graph[gr[u]].pc = "done")

Place(u) ==
    /\ pc[u] # "cancelling"
    /\ pc[u] \in {"down", "poll"} => cur[u] = NoJob
    /\ pc[u] = "join" => /\ graph[gr[u]].worker = u
                         /\ graph[gr[u]].job = cur[u]
                         /\ graph[gr[u]].pc # "idle"
    /\ u \in beating => pc[u] \in {"join", "finished"}

\* As long as it runs a job, row and cache are the worker's; once it has handed it in, they
\* say so.
Holds(u) ==
    /\ AtWork(u) => Ours(RowOf(u), u) /\ Ours(MemOf(u), u)
    /\ pc[u] = "failing" => /\ seen[Run(u)].found
                            /\ seen[Run(u)].entry.status = "processing"
                            /\ seen[Run(u)].entry.attempts = RowOf(u).attempts
    /\ HandsIn(u) => /\ Over(MemOf(u))
                     /\ Over(RowOf(u)) \/ (Ours(RowOf(u), u) /\ Hand(io[Gt(gr[u])]))
    /\ AfterWork(u) => Over(RowOf(u)) /\ Over(MemOf(u))

\* A job given back: nobody else can have it before the write of it is through.
GivesBack(w, r, u) ==
    /\ w.snap.status = "pending"
    /\ \/ r.status = "pending"
       \/ r.status = "processing" /\ r.owner = u /\ r.attempts < MaxAttempts
    /\ w.stage = "commit" => /\ w.base.status \in Active
                             /\ w.base.status = "pending" => r.status = "pending"
GivesUp(w, r, u) ==
    /\ Over(w.snap)
    /\ Over(r) \/ (r.status = "processing" /\ r.owner = u /\ r.attempts >= MaxAttempts)
    /\ w.stage = "commit" => w.base # Blank /\ (Over(w.base) => Over(r))

RunWrites(u) ==
    LET w == io[Run(u)] IN
    w # Idle =>
      \/ pc[u] \in {"begun", "download", "launch"} /\ w.job = cur[u] /\ OwnHand(w, u)
      \/ /\ pc[u] = "published" /\ w.job = cur[u] /\ w.stage # "idle"
         /\ Hand(w) => Over(w.snap)
         /\ w.stage = "commit" => Over(w.base)
      \/ /\ pc[u] = "exiting" /\ w.job = cur[u] /\ Hand(w)
         /\ w.snap.status = "pending" /\ Ours(RowOf(u), u)
         /\ w.stage = "commit" => Ours(w.base, u)
      \/ pc[u] = "poll" /\ Hand(w) /\ (GivesBack(w, row[w.job], u) \/ GivesUp(w, row[w.job], u))

HbWrites(u) ==
    LET w == io[Hb(u)] IN
    w # Idle =>
      /\ Hand(w) /\ ~w.withResult /\ w.job = cur[u] /\ pc[u] \in {"join", "finished", "fail"}
      /\ Ours(w.snap, u)
      /\ w.stage = "commit" => Ours(w.base, u) \/ (Over(w.base) /\ Over(RowOf(u)))

WorkerFits(u) == Place(u) /\ Holds(u) /\ RunWrites(u) /\ HbWrites(u)

\* A pipeline that has not ended is the one its worker waits for.
Joined(g) ==
    /\ graph[g].pc # "idle" => graph[g].worker \in Workers
    /\ graph[g].pc \in {"begin", "work", "deliver", "enqueue"} =>
           pc[graph[g].worker] = "join" /\ gr[graph[g].worker] = g
    /\ bg[g] # "off" => graph[g].pc = "done"

Delivered(g) ==
    /\ graph[g].pc = "done" =>
           Over(row[graph[g].job]) /\ Over(mem[ProcOf[graph[g].worker]][graph[g].job])
    /\ bg[g] = "finalizing" /\ seen[Bt(g)].found => Over(seen[Bt(g)].entry)

GraphWrites(g) ==
    LET w == io[Gt(g)] IN
    w # Idle =>
      /\ w.job = graph[g].job
      /\ \/ graph[g].pc \in {"work", "deliver"} /\ OwnHand(w, graph[g].worker)
         \/ /\ graph[g].pc = "enqueue" /\ w.stage # "idle"
            /\ Hand(w) => Over(w.snap)
            /\ w.stage = "commit" => w.base # Blank /\ (Over(w.base) => Over(row[w.job]))
            /\ w.stage = "result" => Over(row[w.job])

BgWrites(g) ==
    LET w == io[Bt(g)] IN
    w # Idle =>
      /\ graph[g].pc = "done" /\ w.job = graph[g].job /\ w.stage # "idle"
      /\ Hand(w) => Over(w.snap)
      /\ w.stage = "commit" => Over(w.base)

PipelineFits(g) == Joined(g) /\ Delivered(g) /\ GraphWrites(g) /\ BgWrites(g)

\* A request writes a new job, or what is over already.
Enqueues(w) == row[w.job] = Blank /\ w.snap.status = "pending" /\ (w.stage = "commit" => w.base = Blank)
Heals(w) == Over(w.snap) /\ Over(row[w.job]) /\ (w.stage = "commit" => Over(w.base))
ApiWrites(r) ==
    LET w == io[Rt(r)] IN
    w # Idle =>
      /\ Hand(w) /\ ~w.withResult /\ w.job \in enqueued
      /\ \/ Heals(w)
         \/ Enqueues(w) /\ \A s \in Requests : io[Rt(s)].job = w.job => s = r

\* What the API process knows of a job: it waits, or it is over.
Known(e, j) == e.status = "pending" \/ (Over(e) /\ Over(row[j]))
Polls(r) ==
    /\ api[r].pc \in {"idle", "poll", "heal", "healing", "settle", "confirm"}
    /\ api[r].pc # "idle" => /\ happened["poll"] # 0
                             /\ api[r].job \in enqueued
                             /\ seen[Rt(r)].found => Known(seen[Rt(r)].entry, api[r].job)
    /\ api[r].pc = "healing" => api[r].job \in result

RequestFits(r) == ApiWrites(r) /\ Polls(r)

RowFits(j) ==
    /\ row[j].status # "cancelled"
    /\ j \in result => Over(row[j])
    /\ j \notin enqueued => row[j] = Blank
    /\ j \in enqueued /\ happened["crash"] = 0 => Known(mem[ApiProc][j], j)

NothingTakenBack == (\A p \in Procs : cancelReq[p] = {}) /\ abandoned = {}

RunnerInv ==
    /\ NothingTakenBack
    /\ \A u \in Workers : WorkerFits(u)
    /\ \A g \in Graphs : PipelineFits(g)
    /\ \A r \in Requests : RequestFits(r)
    /\ \A j \in Jobs : RowFits(j)
    /\ SingleRunner

-----------------------------------------------------------------------------
(* What a write makes of a row *)

LEMMA RowNames ==
    /\ \A e : Over(e) => e.status \notin {"pending", "processing", "cancelled", Unset}
    /\ \A e : Over(e) => e.status \in Done
    /\ \A e, u : Ours(e, u) => e.status = "processing" /\ ~Over(e) /\ e # Blank /\ e.status \notin Done
    /\ \A e : Over(e) => e # Blank
    /\ Blank.status = Unset /\ "pending" \notin Done /\ "processing" \notin Done
    /\ Unset \notin {"pending", "processing", "complete", "error", "cancelled"}
BY UnsetIsNew, StatusNames DEF Over, Ours, Ended, Done, Blank

LEMMA RowsKnown ==
    ASSUME RowOK, NEW j \in Jobs
    PROVE  /\ row[j] # Blank => row[j] \in Row
           /\ row[j] = Blank <=> row[j].status = Unset
BY UnsetIsNew DEF RowOK, Blank, Row

\* _persist, column by column.
LEMMA PersistIs ==
    ASSUME NEW r \in Row, NEW s \in Entry
    PROVE  /\ Persist(r, s).status =
                IF s.status = "processing" /\ r.status \in Done THEN r.status ELSE Or(s.status, r.status)
           /\ Persist(r, s).owner = IF s.status \in Done THEN NoWorker ELSE Or(s.owner, r.owner)
           /\ Persist(r, s).hb = IF s.status \in Done THEN "none" ELSE Or(s.hb, r.hb)
<1> DEFINE new == Merge(s, r)
<1>1. r # Blank
  BY BlankIsEntry
<1>2. new \in Row /\ new.status = Or(s.status, r.status) /\ new.owner = Or(s.owner, r.owner)
        /\ new.hb = Or(s.hb, r.hb)
  BY RowIsEntry, MergeType DEF Merge
<1>. HIDE DEF new
<1>3. Persist(r, s) = [new EXCEPT
           !.status = IF Refused(r, s) THEN r.status ELSE @,
           !.owner  = IF s.status \in Done THEN NoWorker ELSE @,
           !.hb     = IF s.status \in Done THEN "none" ELSE @,
           !.prog   = IF Refused(r, s) /\ r.prog = 1 /\ @ = 0 THEN 1 ELSE @]
  BY <1>1 DEF Persist, new
<1>4. Refused(r, s) <=> s.status = "processing" /\ r.status \in Done
  BY DEF Refused
<1>. QED
  BY <1>2, <1>3, <1>4 DEF Row

LEMMA PersistMakes ==
    ASSUME NEW r \in Row, NEW s \in Entry
    PROVE  /\ \A u : Ours(r, u) /\ Ours(s, u) => Ours(Persist(r, s), u)
           /\ Over(s) => Over(Persist(r, s))
           /\ \A u : Over(r) /\ Ours(s, u) => Over(Persist(r, s))
           /\ s.status = "pending" => Persist(r, s).status = "pending"
BY PersistIs, RowNames DEF Ours, Over, Or, Done

\* A new job is inserted.
LEMMA PersistNew ==
    ASSUME NEW s \in Entry, s.status = "pending"
    PROVE  Persist(Blank, s) \in Row /\ Persist(Blank, s).status = "pending"
<1>1. Persist(Blank, s) = Persist(NewRow, s)
  BY NewRowIsRow, BlankIsEntry DEF Persist
<1>. QED
  BY <1>1, NewRowIsRow, PersistMakes, PersistType

\* The columns a commit writes in a row that is there, as it was when it was read.
Columns(r, base, new) ==
    [c \in DOMAIN Blank |-> IF new[c] = base[c] /\ ~(c = "hb" /\ new.hb = "fresh")
                            THEN r[c] ELSE new[c]]

LEMMA ColumnsAre ==
    ASSUME NEW r, NEW base, NEW new
    PROVE  /\ Columns(r, base, new).status = IF new.status = base.status THEN r.status ELSE new.status
           /\ Columns(r, base, new).owner = IF new.owner = base.owner THEN r.owner ELSE new.owner
           /\ Columns(r, base, new).hb =
                IF new.hb = base.hb /\ new.hb # "fresh" THEN r.hb ELSE new.hb
BY DEF Columns, Blank

LEMMA CommitMakes ==
    ASSUME NEW r \in Row, NEW b \in Row, NEW s \in Entry
    PROVE  /\ \A u : Ours(r, u) /\ Ours(b, u) /\ Ours(s, u) => Ours(Columns(r, b, Persist(b, s)), u)
           /\ \A u : Over(r) /\ Ours(b, u) /\ Ours(s, u) => Over(Columns(r, b, Persist(b, s)))
           /\ \A u : Over(r) /\ Over(b) /\ Ours(s, u) => Over(Columns(r, b, Persist(b, s)))
           /\ (Over(b) => Over(r)) /\ Over(s) => Over(Columns(r, b, Persist(b, s)))
           /\ s.status = "pending" /\ (b.status = "pending" => r.status = "pending")
                => Columns(r, b, Persist(b, s)).status = "pending"
<1> DEFINE new == Persist(b, s)
<1>1. ASSUME NEW u, Ours(r, u), Ours(b, u), Ours(s, u) PROVE Ours(Columns(r, b, new), u)
  BY <1>1, ColumnsAre, PersistMakes DEF Ours
<1>2. ASSUME NEW u, Over(r), Ours(b, u), Ours(s, u) PROVE Over(Columns(r, b, new))
  <2>1. Ours(new, u)
    BY <1>2, PersistMakes
  <2>. QED
    BY <2>1, <1>2, ColumnsAre DEF Ours, Over
<1>3. ASSUME Over(r), Over(new) PROVE Over(Columns(r, b, new))
  BY <1>3, ColumnsAre DEF Over
<1>4. ASSUME Over(b) => Over(r), Over(s) PROVE Over(Columns(r, b, new))
  <2>1. Over(new)
    BY <1>4, PersistMakes
  <2>. QED
    BY <2>1, <1>4, ColumnsAre DEF Over
<1>5. ASSUME s.status = "pending", b.status = "pending" => r.status = "pending"
      PROVE Columns(r, b, new).status = "pending"
  BY <1>5, ColumnsAre, PersistMakes
<1>. HIDE DEF new
<1>6. \A u : Over(b) /\ Ours(s, u) => Over(new)
  BY PersistMakes DEF new
<1>. QED
  BY <1>1, <1>2, <1>3, <1>4, <1>5, <1>6 DEF new

-----------------------------------------------------------------------------
(* What a step leaves alone *)

\* Row r may become s without worker u noticing.
RowSafe(r, s, u) ==
    \/ s = r
    \/ Over(r) /\ Over(s)
    \/ r.status = "pending" /\ s.status = "pending"
    \/ ~Over(r) /\ r.status # "pending" /\ (r.status = "processing" => r.owner # u)
    \/ /\ r.status = "processing" /\ r.hb = "stale" /\ r.attempts \in Nat
       /\ \/ r.attempts < MaxAttempts /\ s.status = "pending"
          \/ r.attempts >= MaxAttempts /\ Over(s)

MemSafe(u) ==
    /\ AtWork(u) => Ours(MemOf(u)', u)
    /\ HandsIn(u) \/ AfterWork(u) => Over(MemOf(u)')

LEMMA HoldsFrame ==
    ASSUME NEW u \in Workers, WorkerOK, Place(u), Holds(u), MemSafe(u),
           pc'[u] = pc[u], cur'[u] = cur[u], gr'[u] = gr[u], u \in beating' => u \in beating,
           pc[u] = "failing" => seen'[Run(u)] = seen[Run(u)],
           pc[u] = "join" => graph'[gr[u]] = graph[gr[u]] /\ io'[Gt(gr[u])] = io[Gt(gr[u])],
           \A j \in Jobs : RowSafe(row[j], row'[j], u)
    PROVE  Place(u)' /\ Holds(u)'
<1>1. Place(u)'
  BY DEF Place
<1>2. /\ AtWork(u)' => AtWork(u)
      /\ HandsIn(u)' => HandsIn(u)
      /\ AfterWork(u)' => AfterWork(u)
  BY DEF AtWork, HandsIn, AfterWork
<1>3. AtWork(u) \/ HandsIn(u) \/ AfterWork(u) => cur[u] \in Jobs
  BY DEF AtWork, HandsIn, AfterWork, WorkerOK
<1>4. cur[u] \in Jobs => RowSafe(RowOf(u), RowOf(u)', u)
  BY DEF RowOf
<1>5. /\ cur[u] \in Jobs /\ Ours(RowOf(u), u) => RowOf(u)' = RowOf(u)
      /\ cur[u] \in Jobs /\ Over(RowOf(u)) => Over(RowOf(u)')
  BY <1>4, RowNames DEF RowSafe, Ours
<1>6. pc[u] = "failing" => AtWork(u)
  BY DEF AtWork
<1>7. HandsIn(u) => pc[u] = "join"
  BY DEF HandsIn
<1>. QED
  BY <1>1, <1>2, <1>3, <1>5, <1>6, <1>7 DEF Holds, MemSafe

LEMMA RunFrame ==
    ASSUME NEW u \in Workers, IoOK, WorkerOK, RunWrites(u),
           pc'[u] = pc[u], cur'[u] = cur[u], io'[Run(u)] = io[Run(u)],
           \A j \in Jobs : RowSafe(row[j], row'[j], u)
    PROVE  RunWrites(u)'
<1> DEFINE w == io[Run(u)]
<1>1. Run(u) \in Threads
  BY ThreadNames
<1>2. Hand(w) => w.job \in Jobs
  BY <1>1 DEF Hand, IoOK
<1>3. pc[u] = "exiting" => cur[u] \in Jobs
  BY DEF WorkerOK
<1>4. cur[u] \in Jobs /\ Ours(RowOf(u), u) => RowOf(u)' = RowOf(u)
  BY RowNames DEF RowSafe, Ours, RowOf
<1>5. Hand(w) /\ GivesBack(w, row[w.job], u) => GivesBack(w, row'[w.job], u)
  BY <1>2, RowNames DEF RowSafe, GivesBack
<1>6. Hand(w) /\ GivesUp(w, row[w.job], u) => GivesUp(w, row'[w.job], u)
  BY <1>2, RowNames DEF RowSafe, GivesUp
<1>7. io'[Run(u)] = w
  OBVIOUS
<1>. HIDE DEF w
<1>8. w # Idle =>
      \/ pc[u] \in {"begun", "download", "launch"} /\ w.job = cur[u] /\ OwnHand(w, u)
      \/ /\ pc[u] = "published" /\ w.job = cur[u] /\ w.stage # "idle"
         /\ Hand(w) => Over(w.snap)
         /\ w.stage = "commit" => Over(w.base)
      \/ /\ pc[u] = "exiting" /\ w.job = cur[u] /\ Hand(w)
         /\ w.snap.status = "pending" /\ Ours(RowOf(u), u)
         /\ w.stage = "commit" => Ours(w.base, u)
      \/ pc[u] = "poll" /\ Hand(w) /\ (GivesBack(w, row[w.job], u) \/ GivesUp(w, row[w.job], u))
  BY DEF RunWrites, w
<1>. QED
  BY <1>3, <1>4, <1>5, <1>6, <1>7, <1>8 DEF RunWrites

LEMMA HbFrame ==
    ASSUME NEW u \in Workers, WorkerOK, HbWrites(u),
           pc'[u] = pc[u], cur'[u] = cur[u], io'[Hb(u)] = io[Hb(u)],
           \A j \in Jobs : RowSafe(row[j], row'[j], u)
    PROVE  HbWrites(u)'
<1>1. pc[u] \in {"join", "finished", "fail"} => cur[u] \in Jobs
  BY DEF WorkerOK
<1>2. cur[u] \in Jobs /\ Over(RowOf(u)) => Over(RowOf(u)')
  BY RowNames DEF RowSafe, RowOf
<1>. QED
  BY <1>1, <1>2 DEF HbWrites

\* Nothing of worker u changes, and no row it relies on.
Apartly(u) ==
    /\ pc'[u] = pc[u] /\ cur'[u] = cur[u] /\ gr'[u] = gr[u] /\ (u \in beating' => u \in beating)
    /\ io'[Run(u)] = io[Run(u)] /\ io'[Hb(u)] = io[Hb(u)]
    /\ pc[u] = "failing" => seen'[Run(u)] = seen[Run(u)]
    /\ pc[u] = "join" => graph'[gr[u]] = graph[gr[u]] /\ io'[Gt(gr[u])] = io[Gt(gr[u])]
    /\ \A j \in Jobs : RowSafe(row[j], row'[j], u)

LEMMA WorkerFrame ==
    ASSUME NEW u \in Workers, IoOK, WorkerOK, WorkerFits(u), MemSafe(u), Apartly(u)
    PROVE  WorkerFits(u)'
BY HoldsFrame, RunFrame, HbFrame DEF WorkerFits, Apartly

LEMMA PipelineFrame ==
    ASSUME NEW g \in Graphs, PipelineFits(g), PipelineOK, IoOK,
           graph'[g] = graph[g], bg'[g] = bg[g], seen'[Bt(g)] = seen[Bt(g)],
           io'[Gt(g)] = io[Gt(g)], io'[Bt(g)] = io[Bt(g)],
           graph[g].pc \in {"begin", "work", "deliver", "enqueue"} =>
               pc'[graph[g].worker] = "join" /\ gr'[graph[g].worker] = g,
           \A j \in Jobs : Over(row[j]) => Over(row'[j]),
           graph[g].pc = "done" => Over(mem'[ProcOf[graph[g].worker]][graph[g].job])
    PROVE  PipelineFits(g)'
<1>1. Joined(g)'
  BY DEF PipelineFits, Joined
<1>2. graph[g].pc # "idle" => graph[g].job \in Jobs
  BY DEF PipelineOK
<1>3. Delivered(g)'
  BY <1>2 DEF PipelineFits, Delivered
<1>4. GraphWrites(g)'
  BY <1>2 DEF PipelineFits, GraphWrites
<1>5. BgWrites(g)'
  BY DEF PipelineFits, BgWrites
<1>. QED
  BY <1>1, <1>3, <1>4, <1>5 DEF PipelineFits

LEMMA RequestFrame ==
    ASSUME NEW r \in Requests, RequestFits(r), ApiOK, IoOK,
           io'[Rt(r)] = io[Rt(r)], api'[r] = api[r], seen'[Rt(r)] = seen[Rt(r)],
           \A j \in Jobs : Over(row[j]) => Over(row'[j]),
           Hand(io[Rt(r)]) /\ row[io[Rt(r)].job] = Blank => row'[io[Rt(r)].job] = Blank,
           io[Rt(r)] # Idle /\ row[io[Rt(r)].job] = Blank =>
               \A s \in Requests : io'[Rt(s)].job = io[Rt(s)].job \/ io'[Rt(s)].job # io[Rt(r)].job,
           enqueued \subseteq enqueued', result \subseteq result',
           happened'["poll"] = 0 => happened["poll"] = 0
    PROVE  RequestFits(r)'
<1> DEFINE w == io[Rt(r)]
<1>1. Hand(w) => w.job \in Jobs
  BY ThreadNames DEF Hand, IoOK
<1>2. Hand(w) /\ Heals(w) => Heals(w)'
  BY <1>1 DEF Heals
<1>3. Hand(w) /\ Enqueues(w) => Enqueues(w)'
  BY <1>1 DEF Enqueues
<1>4. ApiWrites(r)'
  <2>1. CASE w = Idle
    BY <2>1 DEF ApiWrites
  <2>2. CASE w # Idle
    <3>1. Hand(w) /\ ~w.withResult /\ w.job \in enqueued
      BY <2>2 DEF RequestFits, ApiWrites
    <3>2. Heals(w) \/ (Enqueues(w) /\ \A s \in Requests : io[Rt(s)].job = w.job => s = r)
      BY <2>2 DEF RequestFits, ApiWrites
    <3>. QED
      BY <1>2, <1>3, <3>1, <3>2 DEF ApiWrites, Heals, Enqueues
  <2>. QED
    BY <2>1, <2>2
<1>5. ASSUME NEW e, NEW j \in Jobs, Known(e, j) PROVE Known(e, j)'
  BY <1>5 DEF Known
<1>6. Polls(r)'
  BY <1>5 DEF RequestFits, Polls, ApiOK, Known
<1>. QED
  BY <1>4, <1>6 DEF RequestFits

\* Row j and what the API process knows of it.
LEMMA RowFrame ==
    ASSUME NEW j \in Jobs, RowFits(j), RestOK,
           row'[j] = row[j] \/ (row'[j].status # "cancelled" /\ j \in enqueued'),
           Over(row[j]) => Over(row'[j]),
           j \in result' => j \in result \/ Over(row'[j]),
           j \in enqueued => j \in enqueued',
           happened'["crash"] = 0 => happened["crash"] = 0,
           j \in enqueued' /\ happened'["crash"] = 0 =>
               \/ mem'[ApiProc][j].status = "pending"
               \/ Over(mem'[ApiProc][j]) /\ Over(row'[j])
               \/ mem'[ApiProc][j] = mem[ApiProc][j] /\ j \in enqueued
    PROVE  RowFits(j)'
BY DEF RowFits, Known

-----------------------------------------------------------------------------
(* Calm histories *)

\* A step between calm moments.
Step ==
    /\ TypeOK /\ TypeOK' /\ RunnerInv /\ Apart /\ CountsKept
    /\ Calm(happened) /\ Calm(happened')

\* A step goes well: the invariant holds after it, and what was over still is.
Safely == RunnerInv' /\ \A j \in Jobs : Over(row[j]) => Over(row'[j])

Disturbing == {"stall", "timeout", "slow", "dbfail", "cancel", "purge"}

LEMMA NothingSpent ==
    ASSUME Step
    PROVE  /\ \A k \in Disturbing : ~Spend(k)
           /\ \A b : InTime(b) => b /\ UNCHANGED happened
           /\ Spend("poll") => happened'["crash"] = 0
           /\ Spend("crash") => happened["poll"] = 0
<1>1. ASSUME NEW k \in Kinds, Spend(k) PROVE happened'[k] # 0
  BY <1>1, SpentCounts DEF Step, TypeOK
<1>2. Disturbing \subseteq Kinds /\ "poll" \in Kinds /\ "crash" \in Kinds /\ "slow" \in Disturbing
  BY DEF Disturbing, Kinds
<1>3. \A k \in Disturbing : happened'[k] = 0
  BY DEF Step, Calm, Disturbing
<1>4. happened'["poll"] = 0 \/ happened'["crash"] = 0
  BY DEF Step, Calm
<1>5. \A k \in Kinds : happened'[k] = 0 => happened[k] = 0
  BY DEF Step, CountsKept
<1>6. \A k \in Disturbing : ~Spend(k)
  BY <1>1, <1>2, <1>3
<1>7. \A b : InTime(b) => b /\ UNCHANGED happened
  BY <1>2, <1>6 DEF InTime
<1>. QED
  BY <1>1, <1>2, <1>4, <1>5, <1>6, <1>7

LEMMA CalmStays ==
    ASSUME TypeOK', Undisturbed, Calm(happened), OneSpent
    PROVE  Calm(happened')
<1>1. ASSUME NEW k \in Kinds, Spend(k) PROVE Calm(happened')
  <2>1. PICK b \in Budgets : \A i \in Kinds : happened'[i] <= b[i]
    BY <1>1 DEF Spend
  <2>2. Calm(b) /\ b \in [Kinds -> Nat]
    BY DEF Undisturbed
  <2>3. \A i \in Kinds : happened'[i] \in Nat
    BY DEF TypeOK, RestOK
  <2>4. \A i \in Kinds : b[i] = 0 => happened'[i] = 0
    BY <2>1, <2>2, <2>3
  <2>. QED
    BY <2>2, <2>4 DEF Calm, Kinds
<1>. QED
  BY <1>1 DEF OneSpent

-----------------------------------------------------------------------------
(* Threads and their writes *)

LEMMA ThreadsApart ==
    /\ \A u, w \in Workers : Run(u) # Hb(w) /\ (Hb(u) = Hb(w) => u = w) /\ (Run(u) = Run(w) => u = w)
    /\ \A u \in Workers, g \in Graphs :
          Run(u) # Gt(g) /\ Run(u) # Bt(g) /\ Hb(u) # Gt(g) /\ Hb(u) # Bt(g)
    /\ \A u \in Workers, r \in Requests : Run(u) # Rt(r) /\ Hb(u) # Rt(r)
    /\ \A g, h \in Graphs : Gt(g) # Bt(h) /\ (Gt(g) = Gt(h) => g = h) /\ (Bt(g) = Bt(h) => g = h)
    /\ \A g \in Graphs, r \in Requests : Gt(g) # Rt(r) /\ Bt(g) # Rt(r)
    /\ \A r, s \in Requests : Rt(r) = Rt(s) => r = s
BY DEF Run, Hb, Gt, Bt, Rt

IoElsewhere(T) == \A t \in Threads \ T : io'[t] = io[t]
SeenElsewhere(T) == \A t \in Threads \ T : seen'[t] = seen[t]
MemElsewhere(p, j) == \A q \in Procs, k \in Jobs : mem'[q][k] = mem[q][k] \/ (q = p /\ k = j)

\* What an upsert does to the write of its thread and to the cache of its process.
Upserted(m, t, p, j, f, b) ==
    /\ io'[t].stage = "row" /\ io'[t].job = j /\ io'[t].snap = Merge(f, m)
    /\ io'[t].withResult = b
    /\ io'[t] # Idle /\ mem'[p][j] = Merge(f, m)
    /\ IoElsewhere({t}) /\ MemElsewhere(p, j)

LEMMA UpsertDoes ==
    ASSUME MemOK, IoOK, NEW m \in Entry, NEW f \in Entry, NEW t \in Threads, NEW p \in Procs,
           NEW j \in Jobs, NEW b \in BOOLEAN, UpsertOn(m, t, p, j, f, b)
    PROVE  Upserted(m, t, p, j, f, b)
<1> DEFINE x == [stage |-> "row", job |-> j, snap |-> Merge(f, m), base |-> Blank, withResult |-> b]
<1>1. io' = [io EXCEPT ![t] = x] /\ mem' = [mem EXCEPT ![p][j] = Merge(f, m)]
  BY DEF UpsertOn
<1>2. x.stage = "row" /\ x.job = j /\ x.snap = Merge(f, m) /\ x.withResult = b
  OBVIOUS
<1>3. x.stage # Idle.stage
  BY <1>2 DEF Idle
<1>. HIDE DEF x
<1>4. io'[t] = x /\ IoElsewhere({t})
  BY <1>1 DEF IoOK, IoElsewhere
<1>5. mem'[p][j] = Merge(f, m) /\ MemElsewhere(p, j)
  BY <1>1 DEF MemOK, MemElsewhere
<1>. QED
  BY <1>2, <1>3, <1>4, <1>5 DEF Upserted

LEMMA FieldsMerge ==
    ASSUME NEW m, NEW s, NEW o, NEW h, NEW p
    PROVE  /\ Merge(Fields(s, o, h, p), m).status = Or(s, m.status)
           /\ Merge(Fields(s, o, h, p), m).owner = Or(o, m.owner)
           /\ Merge(Fields(s, o, h, p), m).hb = Or(h, m.hb)
BY DEF Merge, Fields, Blank

-----------------------------------------------------------------------------
(* The steps of a runner that change only what is its own *)

RunnerMoves(w) ==
    /\ UNCHANGED <<row, result, cancelReq, abandoned, graph, bg, api, enqueued>>
    /\ \A u \in Workers \ {w} : /\ pc'[u] = pc[u] /\ cur'[u] = cur[u] /\ gr'[u] = gr[u]
                                /\ u \in beating' => u \in beating
    /\ IoElsewhere({Run(w), Hb(w)}) /\ SeenElsewhere({Run(w)})
    /\ MemElsewhere(ProcOf[w], cur[w])
    /\ mem'[ProcOf[w]][cur[w]] = MemOf(w) \/ ~Over(RowOf(w)) \/ Over(mem'[ProcOf[w]][cur[w]])
    /\ pc[w] \notin {"down", "poll", "exiting"}
    /\ pc[w] = "join" => \/ pc'[w] = "join" /\ gr'[w] = gr[w]
                         \/ graph[gr[w]].pc \in {"done", "failed"}
    /\ cur'[w] \in {cur[w], NoJob}

LEMMA RunnerLocal ==
    ASSUME Step, NEW w \in Workers, RunnerMoves(w), WorkerFits(w)'
    PROVE  Safely
<1>1. cur[w] \in Jobs /\ cur[w] # NoJob
  BY DEF RunnerMoves, Step, TypeOK, WorkerOK
<1>2. ASSUME NEW u \in Workers, u # w PROVE WorkerFits(u)'
  <2>1. AtWork(u) \/ HandsIn(u) \/ AfterWork(u) => cur[u] \in Jobs /\ cur[u] # NoJob /\ pc[u] # "exiting"
    BY DEF AtWork, HandsIn, AfterWork, Step, TypeOK, WorkerOK
  <2>2. AtWork(u) \/ HandsIn(u) \/ AfterWork(u) => cur[u] # cur[w]
    BY <1>1, <1>2, <2>1 DEF Step, RunnerInv, SingleRunner, RunnerMoves
  <2>3. AtWork(u) \/ HandsIn(u) \/ AfterWork(u) => MemOf(u)' = MemOf(u)
    BY <1>2, <2>1, <2>2 DEF RunnerMoves, MemElsewhere, MemOf
  <2>4. WorkerFits(u)
    BY DEF Step, RunnerInv
  <2>5. MemSafe(u)
    BY <2>3, <2>4 DEF WorkerFits, Holds, MemSafe
  <2>6. io'[Run(u)] = io[Run(u)] /\ io'[Hb(u)] = io[Hb(u)] /\ seen'[Run(u)] = seen[Run(u)]
    BY <1>2, ThreadNames, ThreadsApart DEF RunnerMoves, IoElsewhere, SeenElsewhere
  <2>7. pc[u] = "join" => io'[Gt(gr[u])] = io[Gt(gr[u])]
    BY ThreadNames, ThreadsApart DEF RunnerMoves, IoElsewhere, Step, TypeOK, WorkerOK
  <2>8. Apartly(u)
    BY <1>2, <2>6, <2>7 DEF RunnerMoves, Apartly, RowSafe
  <2>. QED
    BY <2>4, <2>5, <2>8, WorkerFrame DEF Step, TypeOK
<1>3. ASSUME NEW g \in Graphs PROVE PipelineFits(g)'
  <2>1. PipelineFits(g)
    BY DEF Step, RunnerInv
  <2>2. io'[Gt(g)] = io[Gt(g)] /\ io'[Bt(g)] = io[Bt(g)] /\ seen'[Bt(g)] = seen[Bt(g)]
    BY ThreadNames, ThreadsApart DEF RunnerMoves, IoElsewhere, SeenElsewhere
  <2>3. ASSUME graph[g].pc \in {"begin", "work", "deliver", "enqueue"}
        PROVE  pc'[graph[g].worker] = "join" /\ gr'[graph[g].worker] = g
    <3>1. graph[g].worker \in Workers /\ pc[graph[g].worker] = "join" /\ gr[graph[g].worker] = g
      BY <2>1, <2>3 DEF PipelineFits, Joined
    <3>2. CASE graph[g].worker = w
      BY <3>1, <3>2, <2>3 DEF RunnerMoves
    <3>3. CASE graph[g].worker # w
      BY <3>1, <3>3 DEF RunnerMoves
    <3>. QED
      BY <3>2, <3>3
  <2>4. ASSUME graph[g].pc = "done"
        PROVE  Over(mem'[ProcOf[graph[g].worker]][graph[g].job])
    <3>1. /\ Over(row[graph[g].job]) /\ Over(mem[ProcOf[graph[g].worker]][graph[g].job])
          /\ graph[g].worker \in Workers /\ graph[g].job \in Jobs
      BY <2>1, <2>4 DEF PipelineFits, Delivered, Joined, Step, TypeOK, PipelineOK
    <3>2. CASE ProcOf[graph[g].worker] = ProcOf[w] /\ graph[g].job = cur[w]
      BY <3>1, <3>2 DEF RunnerMoves, RowOf, MemOf
    <3>3. CASE ~(ProcOf[graph[g].worker] = ProcOf[w] /\ graph[g].job = cur[w])
      BY <3>1, <3>3 DEF RunnerMoves, MemElsewhere
    <3>. QED
      BY <3>2, <3>3
  <2>5. graph'[g] = graph[g] /\ bg'[g] = bg[g] /\ \A j \in Jobs : Over(row[j]) => Over(row'[j])
    BY DEF RunnerMoves
  <2>. QED
    BY <2>1, <2>2, <2>3, <2>4, <2>5, PipelineFrame DEF Step, TypeOK
<1>4. ASSUME NEW r \in Requests PROVE RequestFits(r)'
  <2>1. \A s \in Requests : io'[Rt(s)] = io[Rt(s)] /\ seen'[Rt(s)] = seen[Rt(s)]
    BY ThreadNames, ThreadsApart DEF RunnerMoves, IoElsewhere, SeenElsewhere
  <2>2. happened'["poll"] = 0 => happened["poll"] = 0
    BY DEF Step, CountsKept, Kinds
  <2>. QED
    BY <2>1, <2>2, RequestFrame DEF RunnerMoves, Step, TypeOK, RunnerInv
<1>5. ASSUME NEW j \in Jobs PROVE RowFits(j)'
  <2>1. mem'[ApiProc][j] = mem[ApiProc][j]
    BY DEF RunnerMoves, MemElsewhere, Step, Apart
  <2>2. happened'["crash"] = 0 => happened["crash"] = 0
    BY DEF Step, CountsKept, Kinds
  <2>. QED
    BY <2>1, <2>2, RowFrame DEF RunnerMoves, Step, TypeOK, RunnerInv
<1>6. SingleRunner'
  BY <1>1 DEF SingleRunner, RunnerMoves, Step, RunnerInv
<1>7. NothingTakenBack'
  BY DEF NothingTakenBack, RunnerMoves, Step, RunnerInv
<1>8. \A j \in Jobs : Over(row[j]) => Over(row'[j])
  BY DEF RunnerMoves
<1>. QED
  BY <1>2, <1>3, <1>4, <1>5, <1>6, <1>7, <1>8 DEF Safely, RunnerInv

-----------------------------------------------------------------------------
(* The runner *)

\* What holds of worker w before the step.
LEMMA RunnerHas ==
    ASSUME Step, NEW w \in Workers
    PROVE  /\ WorkerFits(w) /\ ProcOf[w] \in Procs /\ w # Unset /\ NothingTakenBack
           /\ pc[w] \notin {"down", "poll"} => cur[w] \in Jobs /\ cur[w] # NoJob
           /\ cur[w] \in Jobs => MemOf(w) \in Entry
           /\ AtWork(w) => Ours(RowOf(w), w) /\ Ours(MemOf(w), w)
           /\ AfterWork(w) => Over(RowOf(w)) /\ Over(MemOf(w))
           /\ w \in beating => pc[w] \in {"join", "finished"}
           /\ pc[w] \notin {"join", "finished", "fail"} => io[Hb(w)] = Idle
BY UnsetIsNew DEF Step, RunnerInv, WorkerFits, TypeOK, WorkerOK, MemOK, MemOf, Holds, HbWrites, Place

\* Merging what a worker writes into its own record leaves it its own.
LEMMA OursStay ==
    ASSUME NEW w \in Workers, NEW m, Ours(m, w), NEW x
    PROVE  /\ Ours(Merge(Fields("processing", w, "fresh", x), m), w)
           /\ Ours(Merge(Fields(Unset, w, "fresh", x), m), w)
           /\ Ours(Merge(Fields("processing", Unset, Unset, x), m), w)
           /\ Or(m.status, "processing") = "processing"
BY UnsetIsNew, StatusNames, RowNames, FieldsMerge DEF Ours, Or

OnlyMoves == UNCHANGED <<row, result, cancelReq, seen, cur, gr, beating, abandoned, graph, bg, api,
                         enqueued>>
RecordStays(w) == UNCHANGED <<mem, io>>
RecordWritten(w) ==
    \E f \in Entry : Ours(Merge(f, MemOf(w)), w) /\ Upsert(Run(w), ProcOf[w], cur[w], f)

\* As a run goes on before its pipeline starts, its record stays its own.
LEMMA RunsOn ==
    ASSUME Step, NEW w \in Workers,
           pc[w] \in {"claimed", "begun", "download"}, io[Run(w)] = Idle,
           NEW label \in {"begun", "download", "launch", "fail"}, Goto(w, label),
           OnlyMoves, RecordStays(w) \/ (label # "fail" /\ RecordWritten(w))
    PROVE  Safely
<1>1. AtWork(w) /\ WorkerFits(w) /\ cur[w] \in Jobs /\ ProcOf[w] \in Procs /\ w \notin beating
        /\ io[Hb(w)] = Idle
  BY RunnerHas DEF AtWork
<1>2. Ours(RowOf(w), w) /\ Ours(MemOf(w), w) /\ ~Over(RowOf(w))
  BY <1>1, RowNames DEF WorkerFits, Holds
<1>3. pc'[w] = label /\ \A u \in Workers \ {w} : pc'[u] = pc[u]
  BY DEF Goto, Step, TypeOK, WorkerOK
<1>4. /\ IoElsewhere({Run(w), Hb(w)}) /\ MemElsewhere(ProcOf[w], cur[w]) /\ io'[Hb(w)] = Idle
      /\ Ours(mem'[ProcOf[w]][cur[w]], w)
      /\ io'[Run(w)] # Idle =>
            /\ label # "fail" /\ io'[Run(w)].job = cur[w]
            /\ io'[Run(w)].stage = "row" /\ Ours(io'[Run(w)].snap, w)
  <2>1. CASE UNCHANGED <<mem, io>>
    BY <1>1, <1>2, <2>1 DEF IoElsewhere, MemElsewhere, MemOf
  <2>2. CASE ~UNCHANGED <<mem, io>>
    <3>1. PICK f \in Entry : Ours(Merge(f, MemOf(w)), w) /\ Upsert(Run(w), ProcOf[w], cur[w], f)
      BY <2>2 DEF RecordStays, RecordWritten
    <3>2. UpsertOn(MemOf(w), Run(w), ProcOf[w], cur[w], f, FALSE)
      BY <3>1 DEF Upsert, MemOf
    <3>0. MemOK /\ IoOK /\ Run(w) \in Threads
      BY ThreadNames DEF Step, TypeOK
    <3>6. Upserted(MemOf(w), Run(w), ProcOf[w], cur[w], f, FALSE)
      BY <1>1, <3>0, <3>2, RunnerHas, UpsertDoes
    <3>3. /\ io'[Run(w)].stage = "row" /\ io'[Run(w)].job = cur[w]
          /\ io'[Run(w)].snap = Merge(f, MemOf(w))
          /\ mem'[ProcOf[w]][cur[w]] = Merge(f, MemOf(w))
          /\ IoElsewhere({Run(w)}) /\ MemElsewhere(ProcOf[w], cur[w])
      BY <3>6 DEF Upserted
    <3>4. io'[Hb(w)] = io[Hb(w)]
      BY <3>3, ThreadNames, ThreadsApart DEF IoElsewhere
    <3>5. label # "fail"
      BY <2>2 DEF RecordStays
    <3>. QED
      BY <1>1, <3>1, <3>3, <3>4, <3>5 DEF IoElsewhere
  <2>. QED
    BY <2>1, <2>2
<1>5. RunnerMoves(w)
  BY <1>2, <1>3, <1>4 DEF RunnerMoves, SeenElsewhere, OnlyMoves
<1>6. RowOf(w)' = RowOf(w) /\ Ours(MemOf(w)', w)
  BY <1>4 DEF RowOf, MemOf, OnlyMoves
<1>7. Place(w)' /\ Holds(w)'
  BY <1>1, <1>2, <1>3, <1>6 DEF OnlyMoves, Place, Holds, AtWork, HandsIn, AfterWork
<1>8. RunWrites(w)' /\ HbWrites(w)'
  BY <1>3, <1>4 DEF OnlyMoves, RunWrites, HbWrites, OwnHand, Hand
<1>. QED
  BY <1>5, <1>7, <1>8, RunnerLocal DEF WorkerFits

LEMMA BeginsRun ==
    ASSUME Step, NEW w \in Workers,
           BeginProcessing(w) \/ FirstHeartbeat(w) \/ StorageFails(w) \/ Downloaded(w)
    PROVE  Safely
<1>1. AtWork(w) => Ours(MemOf(w), w)
  BY RunnerHas
<1>2. CASE BeginProcessing(w)
  <2>0. Fields("processing", w, "fresh", 0) \in Entry
    BY FieldsType, StatusNames
  <2>1. Ours(Merge(Fields("processing", w, "fresh", 0), MemOf(w)), w)
    BY <1>1, <1>2, OursStay DEF BeginProcessing, At, AtWork
  <2>2. RecordWritten(w)
    BY <1>2, <2>0, <2>1 DEF BeginProcessing, RecordWritten
  <2>3. OnlyMoves /\ At(w, "claimed") /\ Goto(w, "begun")
    BY <1>2 DEF BeginProcessing, OnlyMoves, table, history
  <2>. QED
    BY <2>2, <2>3, RunsOn DEF At
<1>3. CASE FirstHeartbeat(w)
  <2>0. Fields(Unset, w, "fresh", Unset) \in Entry
    BY FieldsType, StatusNames
  <2>1. /\ Ours(Merge(Fields(Unset, w, "fresh", Unset), MemOf(w)), w) /\ MemOf(w).status \notin Done
    BY <1>1, <1>3, OursStay, RowNames DEF FirstHeartbeat, At, AtWork
  <2>2. RecordWritten(w)
    BY <1>3, <2>0, <2>1 DEF FirstHeartbeat, TouchHeartbeat, RecordWritten, MemOf
  <2>3. OnlyMoves /\ At(w, "begun") /\ Goto(w, "download")
    BY <1>3 DEF FirstHeartbeat, OnlyMoves, table, history
  <2>. QED
    BY <2>2, <2>3, RunsOn DEF At
<1>4. CASE StorageFails(w)
  <2>1. OnlyMoves /\ RecordStays(w) /\ Goto(w, "fail") /\ (At(w, "claimed") \/ At(w, "download"))
    BY <1>4 DEF StorageFails, OnlyMoves, RecordStays, table, history
  <2>. QED
    BY <2>1, RunsOn DEF At
<1>5. CASE Downloaded(w)
  <2>0. Fields("processing", Unset, Unset, 0) \in Entry
    BY FieldsType, StatusNames
  <2>1. /\ Ours(Merge(Fields("processing", Unset, Unset, 0), MemOf(w)), w)
        /\ MemOf(w).status \notin Done /\ Or(MemOf(w).status, "processing") = "processing"
    BY <1>1, <1>5, OursStay, RowNames DEF Downloaded, At, AtWork
  <2>2. RecordWritten(w)
    BY <1>5, <2>0, <2>1 DEF Downloaded, SetProgress, RecordWritten, MemOf
  <2>3. OnlyMoves /\ At(w, "download") /\ Goto(w, "launch")
    BY <1>5 DEF Downloaded, OnlyMoves, table, history
  <2>. QED
    BY <2>2, <2>3, RunsOn DEF At
<1>. QED
  BY <1>2, <1>3, <1>4, <1>5

LEMMA Moves ==
    ASSUME WorkerOK, NEW w \in Workers
    PROVE  /\ \A label : Goto(w, label) => pc'[w] = label /\ \A u \in Workers \ {w} : pc'[u] = pc[u]
           /\ Return(w) => /\ pc'[w] = "poll" /\ cur'[w] = NoJob /\ w \notin beating'
                           /\ abandoned' \subseteq abandoned
                           /\ \A u \in Workers \ {w} : pc'[u] = pc[u] /\ cur'[u] = cur[u] /\ gr'[u] = gr[u]
                           /\ beating' \subseteq beating
           /\ \A x : gr' = [gr EXCEPT ![w] = x] => gr'[w] = x /\ \A u \in Workers \ {w} : gr'[u] = gr[u]
BY DEF WorkerOK, Goto, Return

\* Nothing says of the job of a runner that it is cancelled.
LEMMA NotCancelled ==
    ASSUME Step, NEW w \in Workers, AtWork(w) \/ HandsIn(w) \/ AfterWork(w)
    PROVE  ~IsCancelRequested(ProcOf[w], cur[w]) /\ ~Cancelled(w)
<1>1. cur[w] \in Jobs /\ ProcOf[w] \in Procs
  BY RunnerHas DEF AtWork, HandsIn, AfterWork
<1>2. MemOf(w).status # "cancelled"
  <2>1. Ours(MemOf(w), w) \/ Over(MemOf(w))
    BY DEF Step, RunnerInv, WorkerFits, Holds
  <2>. QED
    BY <2>1, RowNames, StatusNames DEF Ours
<1>3. row[cur[w]].status # "cancelled" /\ cancelReq[ProcOf[w]] = {} /\ abandoned = {}
  BY <1>1 DEF Step, RunnerInv, RowFits, NothingTakenBack
<1>. QED
  BY <1>2, <1>3 DEF IsCancelRequested, Cancelled, MemOf

\* The end of a wait is a runner at one of the three places.
LEMMA JoinPlaces ==
    ASSUME Step, NEW w \in Workers, pc[w] = "join"
    PROVE  /\ AtWork(w) \/ HandsIn(w) \/ AfterWork(w)
           /\ gr[w] \in Graphs /\ graph[gr[w]].worker = w /\ graph[gr[w]].job = cur[w]
           /\ graph[gr[w]].pc = "done" => AfterWork(w)
           /\ graph[gr[w]].pc = "failed" => AtWork(w)
<1>1. gr[w] \in Graphs /\ graph[gr[w]].worker = w /\ graph[gr[w]].job = cur[w] /\ graph[gr[w]].pc # "idle"
  BY DEF Step, RunnerInv, WorkerFits, Place, TypeOK, WorkerOK
<1>2. graph[gr[w]].pc \in GraphPcs
  BY <1>1 DEF Step, TypeOK, PipelineOK
<1>. QED
  BY <1>1, <1>2 DEF GraphPcs, AtWork, HandsIn, AfterWork

\* What was in the row of a running job when it was read.
LEMMA ViewOurs ==
    ASSUME NEW r \in Row, NEW m, NEW u, Ours(r, u), m.status \in {"processing"} \cup Done
    PROVE  /\ View(r, m).status = "processing"
           /\ View(r, m).attempts = r.attempts
<1>1. View(r, m).status = IF CacheWins(r, m) THEN m.status ELSE r.status
  BY DEF View, Row
<1>2. View(r, m).attempts = r.attempts
  BY DEF View, Row
<1>. QED
  BY <1>1, <1>2, StatusNames DEF Ours, CacheWins, Active, Done

LEMMA ViewOver ==
    ASSUME NEW r \in Row, NEW m, Over(r)
    PROVE  Over(View(r, m))
<1>1. View(r, m).status = IF CacheWins(r, m) THEN m.status ELSE r.status
  BY DEF View, Row
<1>. QED
  BY <1>1, RowNames DEF Over, CacheWins

LEMMA EndsWait ==
    ASSUME Step, NEW w \in Workers, JoinFailed(w) \/ JoinDone(w)
    PROVE  Safely
<1> DEFINE label == IF graph[gr[w]].pc = "failed" THEN "fail" ELSE "finished"
<1>1. /\ pc[w] = "join" /\ io[Run(w)] = Idle /\ graph[gr[w]].pc \in {"done", "failed"}
      /\ Goto(w, label) /\ beating' \subseteq beating
      /\ graph[gr[w]].pc = "failed" => w \notin beating'
      /\ gr' = [gr EXCEPT ![w] = NoGraph] /\ UNCHANGED <<mem, io, seen, cur, happened>>
      /\ UNCHANGED <<row, result, cancelReq, abandoned, graph, bg, api, enqueued>>
  BY DEF JoinFailed, JoinDone, At, table, history, label
<1>2. graph[gr[w]].pc = "done" => AfterWork(w)
  BY <1>1, JoinPlaces
<1>3. graph[gr[w]].pc = "failed" => AtWork(w)
  BY <1>1, JoinPlaces
<1>4. pc'[w] = label /\ \A u \in Workers \ {w} : pc'[u] = pc[u] /\ gr'[u] = gr[u]
  BY <1>1, Moves DEF Step, TypeOK
<1>5. MemOf(w)' = MemOf(w) /\ RowOf(w)' = RowOf(w)
  BY <1>1 DEF MemOf, RowOf
<1>6. RunnerMoves(w)
  BY <1>1, <1>4 DEF RunnerMoves, IoElsewhere, SeenElsewhere, MemElsewhere, MemOf
<1>7. WorkerFits(w) /\ (AtWork(w) => Ours(RowOf(w), w) /\ Ours(MemOf(w), w))
        /\ (AfterWork(w) => Over(RowOf(w)) /\ Over(MemOf(w)))
  BY RunnerHas
<1>8. label \in {"fail", "finished"} /\ (label = "fail" <=> graph[gr[w]].pc = "failed")
  BY StatusNames
<1>. HIDE DEF label
<1>9. /\ AtWork(w)' <=> label = "fail"
      /\ ~HandsIn(w)'
      /\ AfterWork(w)' <=> label = "finished"
  BY <1>4, <1>8 DEF AtWork, HandsIn, AfterWork
<1>10. Place(w)'
  BY <1>1, <1>4, <1>7, <1>8 DEF WorkerFits, Place
<1>11. Holds(w)'
  BY <1>1, <1>2, <1>3, <1>4, <1>5, <1>7, <1>8, <1>9 DEF Holds
<1>12. RunWrites(w)'
  BY <1>1 DEF RunWrites
<1>13. HbWrites(w)'
  BY <1>1, <1>4, <1>5, <1>7, <1>8 DEF WorkerFits, HbWrites
<1>. QED
  BY <1>6, <1>10, <1>11, <1>12, <1>13, RunnerLocal DEF WorkerFits

LEMMA WaitNotTaken ==
    ASSUME Step, NEW w \in Workers
    PROVE  /\ ~RuntimeExceeded(w) /\ ~JoinCancelled(w) /\ ~WriteCancelled(w)
           /\ ~FinishCancelled(w) /\ ~FinishAbandoned(w)
<1>1. ~RuntimeExceeded(w)
  BY NothingSpent DEF RuntimeExceeded, Disturbing
<1>2. ~JoinCancelled(w)
  BY JoinPlaces, NotCancelled DEF JoinCancelled, At
<1>3. ~WriteCancelled(w)
  BY RunnerHas DEF WriteCancelled, At, WorkerFits, Place
<1>4. ~FinishCancelled(w)
  BY NotCancelled DEF FinishCancelled, At, AfterWork
<1>5. ~FinishAbandoned(w)
  BY RunnerHas DEF FinishAbandoned, NothingTakenBack
<1>. QED
  BY <1>1, <1>2, <1>3, <1>4, <1>5

\* The row of a job that is at work, or whose work is over.
LEMMA RowThere ==
    ASSUME Step, NEW w \in Workers, AtWork(w) \/ AfterWork(w)
    PROVE  RowOf(w) \in Row /\ RowOf(w) # Blank /\ cur[w] \in Jobs
<1>1. cur[w] \in Jobs
  BY RunnerHas DEF AtWork, AfterWork
<1>2. RowOf(w) # Blank
  BY RunnerHas, RowNames
<1>. QED
  BY <1>1, <1>2, RowsKnown DEF RowOf, Step, TypeOK

LEMMA ChecksAgain ==
    ASSUME Step, NEW w \in Workers, FinishChecked(w)
    PROVE  Safely
<1>1. /\ pc[w] = "finished" /\ io[Run(w)] = Idle /\ io[Hb(w)] = Idle
      /\ Goto(w, "publish") /\ beating' = beating \ {w} /\ Reload(ProcOf[w], cur[w])
      /\ UNCHANGED <<io, seen, cur, gr>>
      /\ UNCHANGED <<row, result, cancelReq, abandoned, graph, bg, api, enqueued>>
  BY NothingSpent DEF FinishChecked, HeartbeatStopped, At, table, history
<1>2. AfterWork(w) /\ ~AtWork(w)
  BY <1>1 DEF AfterWork, AtWork
<1>3. Over(RowOf(w)) /\ RowOf(w) \in Row /\ RowOf(w) # Blank /\ cur[w] \in Jobs /\ ProcOf[w] \in Procs
  BY <1>2, RunnerHas, RowThere
<1>4. Over(Current(ProcOf[w], cur[w]))
  BY <1>3, ViewOver DEF Current, RowOf
<1>5. mem'[ProcOf[w]][cur[w]] = Current(ProcOf[w], cur[w]) /\ MemElsewhere(ProcOf[w], cur[w])
  BY <1>1, <1>3 DEF Reload, MemElsewhere, Step, TypeOK, MemOK
<1>6. pc'[w] = "publish" /\ \A u \in Workers \ {w} : pc'[u] = pc[u]
  BY <1>1, Moves DEF Step, TypeOK
<1>7. Over(MemOf(w)') /\ Over(RowOf(w)')
  BY <1>1, <1>3, <1>4, <1>5 DEF MemOf, RowOf
<1>8. RunnerMoves(w)
  BY <1>1, <1>4, <1>5, <1>6 DEF RunnerMoves, IoElsewhere, SeenElsewhere
<1>9. ~AtWork(w)' /\ ~HandsIn(w)'
  BY <1>6 DEF AtWork, HandsIn
<1>10. Place(w)' /\ Holds(w)'
  BY <1>1, <1>6, <1>7, <1>9 DEF Place, Holds
<1>11. RunWrites(w)' /\ HbWrites(w)'
  BY <1>1 DEF RunWrites, HbWrites
<1>. QED
  BY <1>8, <1>10, <1>11, RunnerLocal DEF WorkerFits

LEMMA Publishes ==
    ASSUME Step, NEW w \in Workers, PublishResult(w)
    PROVE  Safely
<1> DEFINE e == Current(ProcOf[w], cur[w])
           prog == IF cur[w] \in result /\ e.prog # 2 THEN 1 ELSE 2
           f == Fields("complete", NoWorker, "none", prog)
<1>1. /\ pc[w] = "publish" /\ io[Run(w)] = Idle
      /\ UpsertOn(e, Run(w), ProcOf[w], cur[w], f, TRUE) /\ Goto(w, "published")
      /\ UNCHANGED <<row, result, cancelReq, seen, cur, gr, beating, abandoned, graph, bg, api, enqueued>>
  BY DEF PublishResult, At, table, history
<1>2. AfterWork(w)
  BY <1>1 DEF AfterWork
<1>3. /\ Over(RowOf(w)) /\ cur[w] \in Jobs /\ ProcOf[w] \in Procs /\ w \notin beating
      /\ io[Hb(w)] = Idle
  BY <1>1, <1>2, RunnerHas
<1>4. prog \in 0..2
  BY DEF prog
<1>5. e \in Entry
  BY <1>3, CurrentType DEF Step, TypeOK
<1>. HIDE DEF e, prog
<1>6. f \in Entry
  BY <1>4, FieldsType, StatusNames
<1>7. Or(f.status, e.status) = "complete" /\ Over(Merge(f, e))
  <2>1. Merge(f, e).status = Or("complete", e.status)
    BY FieldsMerge
  <2>. QED
    BY <2>1, RowNames DEF Or, Over, Ended, Fields, Blank
<1>. HIDE DEF f
<1>8. Run(w) \in Threads
  BY ThreadNames
<1>9. Upserted(e, Run(w), ProcOf[w], cur[w], f, TRUE)
  BY <1>1, <1>3, <1>5, <1>6, <1>8, UpsertDoes DEF Step, TypeOK
<1>10. /\ io'[Run(w)].stage = "row" /\ io'[Run(w)].job = cur[w] /\ Over(io'[Run(w)].snap)
       /\ Over(mem'[ProcOf[w]][cur[w]]) /\ IoElsewhere({Run(w)}) /\ MemElsewhere(ProcOf[w], cur[w])
  BY <1>7, <1>9 DEF Upserted
<1>11. io'[Hb(w)] = Idle
  BY <1>3, <1>10, ThreadNames, ThreadsApart DEF IoElsewhere
<1>12. pc'[w] = "published" /\ \A u \in Workers \ {w} : pc'[u] = pc[u]
  BY <1>1, Moves DEF Step, TypeOK
<1>13. RunnerMoves(w)
  BY <1>1, <1>10, <1>12 DEF RunnerMoves, IoElsewhere, SeenElsewhere
<1>14. ~AtWork(w)' /\ ~HandsIn(w)' /\ Over(MemOf(w)') /\ Over(RowOf(w)')
  BY <1>1, <1>3, <1>10, <1>12 DEF AtWork, HandsIn, MemOf, RowOf
<1>15. Place(w)' /\ Holds(w)'
  BY <1>1, <1>3, <1>12, <1>14 DEF Place, Holds
<1>16. RunWrites(w)' /\ HbWrites(w)'
  BY <1>1, <1>10, <1>11, <1>12 DEF RunWrites, HbWrites, Hand
<1>. QED
  BY <1>13, <1>15, <1>16, RunnerLocal DEF WorkerFits

LEMMA PublishedReturns ==
    ASSUME Step, NEW w \in Workers, Published(w)
    PROVE  Safely
<1>1. /\ pc[w] = "published" /\ io[Run(w)] = Idle /\ Return(w)
      /\ UNCHANGED <<mem, io, seen>>
      /\ UNCHANGED <<row, result, cancelReq, graph, bg, api, enqueued>>
  BY DEF Published, At, table, history
<1>2. io[Hb(w)] = Idle /\ NothingTakenBack
  BY <1>1, RunnerHas
<1>3. /\ pc'[w] = "poll" /\ cur'[w] = NoJob /\ w \notin beating' /\ beating' \subseteq beating
      /\ \A u \in Workers \ {w} : pc'[u] = pc[u] /\ cur'[u] = cur[u] /\ gr'[u] = gr[u]
      /\ abandoned' = abandoned
  BY <1>1, <1>2, Moves DEF Step, TypeOK, NothingTakenBack
<1>4. RunnerMoves(w)
  BY <1>1, <1>3 DEF RunnerMoves, IoElsewhere, SeenElsewhere, MemElsewhere, MemOf
<1>5. ~AtWork(w)' /\ ~HandsIn(w)' /\ ~AfterWork(w)'
  BY <1>3 DEF AtWork, HandsIn, AfterWork
<1>6. Place(w)' /\ Holds(w)'
  BY <1>3, <1>5 DEF Place, Holds
<1>7. RunWrites(w)' /\ HbWrites(w)'
  BY <1>1, <1>2 DEF RunWrites, HbWrites
<1>. QED
  BY <1>4, <1>6, <1>7, RunnerLocal DEF WorkerFits

LEMMA ReadsToFail ==
    ASSUME Step, NEW w \in Workers, FailRead(w)
    PROVE  Safely
<1>1. /\ pc[w] = "fail" /\ io[Run(w)] = Idle /\ io[Hb(w)] = Idle /\ Goto(w, "failing")
      /\ GetJob(Run(w), ProcOf[w], cur[w]) /\ UNCHANGED <<mem, io, cur, gr, beating>>
      /\ UNCHANGED <<row, result, cancelReq, abandoned, graph, bg, api, enqueued>>
  BY NothingSpent DEF FailRead, HeartbeatStopped, At, table, history
<1>2. AtWork(w)
  BY <1>1 DEF AtWork
<1>3. /\ Ours(RowOf(w), w) /\ Ours(MemOf(w), w) /\ RowOf(w) \in Row /\ RowOf(w) # Blank
      /\ cur[w] \in Jobs /\ ProcOf[w] \in Procs /\ w \notin beating
  BY <1>1, <1>2, RunnerHas, RowThere
<1>4. View(RowOf(w), MemOf(w)).status = "processing" /\ View(RowOf(w), MemOf(w)).attempts = RowOf(w).attempts
  BY <1>3, ViewOurs DEF Ours
<1>5. /\ seen'[Run(w)] = [found |-> TRUE, entry |-> View(RowOf(w), MemOf(w))]
      /\ SeenElsewhere({Run(w)})
  BY <1>1, <1>3, ThreadNames DEF GetJob, RowOf, MemOf, SeenElsewhere, Step, TypeOK, SeenOK
<1>6. /\ seen'[Run(w)].found /\ seen'[Run(w)].entry.status = "processing"
      /\ seen'[Run(w)].entry.attempts = RowOf(w).attempts
  BY <1>4, <1>5
<1>7. pc'[w] = "failing" /\ \A u \in Workers \ {w} : pc'[u] = pc[u]
  BY <1>1, Moves DEF Step, TypeOK
<1>8. RunnerMoves(w)
  BY <1>1, <1>5, <1>7 DEF RunnerMoves, IoElsewhere, MemElsewhere, MemOf
<1>9. /\ AtWork(w)' /\ ~HandsIn(w)' /\ ~AfterWork(w)'
      /\ MemOf(w)' = MemOf(w) /\ RowOf(w)' = RowOf(w)
  BY <1>1, <1>7 DEF AtWork, HandsIn, AfterWork, MemOf, RowOf
<1>10. Place(w)'
  BY <1>1, <1>3, <1>7 DEF Place
<1>11. Holds(w)'
  BY <1>3, <1>6, <1>7, <1>9 DEF Holds
<1>12. RunWrites(w)' /\ HbWrites(w)'
  BY <1>1 DEF RunWrites, HbWrites
<1>. QED
  BY <1>8, <1>10, <1>11, <1>12, RunnerLocal DEF WorkerFits

LEMMA FailsOrRetries ==
    ASSUME Step, NEW w \in Workers, FailOrRetry(w)
    PROVE  Safely
<1> DEFINE e == Returned(Run(w), ProcOf[w], cur[w])
           f == IF MayRetry(Or(e.attempts, 0)) THEN Fields("pending", NoWorker, "none", 0)
                ELSE Fields("error", NoWorker, "none", 2)
<1>1. /\ pc[w] = "failing" /\ io[Run(w)] = Idle /\ Return(w) /\ Forget(Run(w))
      /\ UNCHANGED <<row, result, graph, bg, api, enqueued>>
  BY DEF FailOrRetry, At, table, history
<1>2. AtWork(w)
  BY <1>1 DEF AtWork
<1>3. /\ Ours(RowOf(w), w) /\ RowOf(w) \in Row /\ io[Hb(w)] = Idle /\ NothingTakenBack
      /\ cur[w] \in Jobs /\ ProcOf[w] \in Procs /\ w \notin beating
  BY <1>1, <1>2, RunnerHas, RowThere
<1>4. /\ seen[Run(w)].found /\ seen[Run(w)].entry.status = "processing"
      /\ seen[Run(w)].entry.attempts = RowOf(w).attempts
  BY <1>1 DEF Step, RunnerInv, WorkerFits, Holds
<1>5. e.status = "processing" /\ e.attempts = RowOf(w).attempts /\ e.attempts \in Nat
  BY <1>3, <1>4 DEF Returned, Row
<1>6. e \in Entry
  BY <1>3, ReturnedType, ThreadNames DEF Step, TypeOK
<1>7. UpsertOn(e, Run(w), ProcOf[w], cur[w], f, FALSE) /\ UNCHANGED cancelReq
  BY <1>5, StatusNames DEF FailOrRetry
<1>. HIDE DEF e
<1>8. Or(e.attempts, 0) = e.attempts
  BY <1>5, UnsetIsNew DEF Or
<1>9. /\ Fields("pending", NoWorker, "none", 0) \in Entry
      /\ Fields("error", NoWorker, "none", 2) \in Entry
  BY FieldsType, StatusNames
<1>10. f \in Entry
  BY <1>9
<1>11. \/ Merge(f, e).status = "pending" /\ RowOf(w).attempts < MaxAttempts
       \/ Over(Merge(f, e)) /\ RowOf(w).attempts >= MaxAttempts
  <2>1. CASE MayRetry(e.attempts)
    <3>1. Merge(f, e).status = Or("pending", e.status)
      BY <2>1, <1>8, FieldsMerge
    <3>. QED
      BY <3>1, <2>1, <1>5, RowNames DEF Or, MayRetry
  <2>2. CASE ~MayRetry(e.attempts)
    <3>1. Merge(f, e).status = Or("error", e.status)
      BY <2>2, <1>8, FieldsMerge
    <3>2. RowOf(w).attempts >= MaxAttempts
      BY <2>2, <1>5, JobQueueAssumption DEF MayRetry
    <3>. QED
      BY <3>1, <3>2, RowNames DEF Or, Over, Ended
  <2>. QED
    BY <2>1, <2>2
<1>. HIDE DEF f
<1>12. Upserted(e, Run(w), ProcOf[w], cur[w], f, FALSE)
  BY <1>3, <1>6, <1>7, <1>10, ThreadNames, UpsertDoes DEF Step, TypeOK
<1>13. /\ io'[Run(w)].stage = "row" /\ io'[Run(w)].job = cur[w] /\ io'[Run(w)].snap = Merge(f, e)
       /\ IoElsewhere({Run(w)}) /\ MemElsewhere(ProcOf[w], cur[w])
  BY <1>12 DEF Upserted
<1>14. io'[Hb(w)] = Idle
  BY <1>3, <1>13, ThreadNames, ThreadsApart DEF IoElsewhere
<1>15. /\ pc'[w] = "poll" /\ cur'[w] = NoJob /\ w \notin beating' /\ beating' \subseteq beating
       /\ \A u \in Workers \ {w} : pc'[u] = pc[u] /\ cur'[u] = cur[u] /\ gr'[u] = gr[u]
       /\ abandoned' = abandoned
  BY <1>1, <1>3, Moves DEF Step, TypeOK, NothingTakenBack
<1>16. SeenElsewhere({Run(w)})
  BY <1>1 DEF Forget, SeenElsewhere, Step, TypeOK, SeenOK
<1>17. ~Over(RowOf(w))
  BY <1>3, RowNames
<1>18. RunnerMoves(w)
  BY <1>1, <1>7, <1>13, <1>15, <1>16, <1>17 DEF RunnerMoves, IoElsewhere
<1>19. ~AtWork(w)' /\ ~HandsIn(w)' /\ ~AfterWork(w)'
  BY <1>15 DEF AtWork, HandsIn, AfterWork
<1>20. Place(w)' /\ Holds(w)'
  BY <1>15, <1>19 DEF Place, Holds
<1>21. row'[io'[Run(w)].job] = RowOf(w)
  BY <1>1, <1>13 DEF RowOf
<1>22. GivesBack(io'[Run(w)], row'[io'[Run(w)].job], w) \/ GivesUp(io'[Run(w)], row'[io'[Run(w)].job], w)
  BY <1>3, <1>11, <1>13, <1>21, StatusNames DEF GivesBack, GivesUp, Ours
<1>23. RunWrites(w)' /\ HbWrites(w)'
  BY <1>13, <1>14, <1>15, <1>22 DEF RunWrites, HbWrites, Hand
<1>. QED
  BY <1>18, <1>20, <1>23, RunnerLocal DEF WorkerFits

LEMMA Releases ==
    ASSUME Step, NEW w \in Workers, ReleaseOnShutdown(w)
    PROVE  Safely
<1> DEFINE f == Fields("pending", NoWorker, "none", 0)
<1>1. /\ pc[w] = "claimed" /\ io[Run(w)] = Idle /\ Upsert(Run(w), ProcOf[w], cur[w], f)
      /\ Goto(w, "exiting")
      /\ UNCHANGED <<row, result, cancelReq, seen, cur, gr, beating, abandoned, graph, bg, api, enqueued>>
  BY DEF ReleaseOnShutdown, table, history, Goto
<1>2. AtWork(w)
  BY <1>1 DEF AtWork
<1>3. /\ Ours(RowOf(w), w) /\ io[Hb(w)] = Idle /\ MemOf(w) \in Entry
      /\ cur[w] \in Jobs /\ ProcOf[w] \in Procs /\ w \notin beating
  BY <1>1, <1>2, RunnerHas
<1>4. ~Over(RowOf(w))
  BY <1>3, RowNames
<1>5. f \in Entry
  BY FieldsType, StatusNames
<1>6. Merge(f, MemOf(w)).status = "pending"
  <2>1. Merge(f, MemOf(w)).status = Or("pending", MemOf(w).status)
    BY FieldsMerge
  <2>. QED
    BY <2>1, RowNames DEF Or
<1>. HIDE DEF f
<1>7. UpsertOn(MemOf(w), Run(w), ProcOf[w], cur[w], f, FALSE)
  BY <1>1 DEF Upsert, MemOf
<1>8. Upserted(MemOf(w), Run(w), ProcOf[w], cur[w], f, FALSE)
  BY <1>3, <1>5, <1>7, ThreadNames, UpsertDoes DEF Step, TypeOK
<1>9. /\ io'[Run(w)].stage = "row" /\ io'[Run(w)].job = cur[w] /\ io'[Run(w)].snap.status = "pending"
      /\ IoElsewhere({Run(w)}) /\ MemElsewhere(ProcOf[w], cur[w])
  BY <1>6, <1>8 DEF Upserted
<1>10. io'[Hb(w)] = Idle
  BY <1>3, <1>9, ThreadNames, ThreadsApart DEF IoElsewhere
<1>11. pc'[w] = "exiting" /\ \A u \in Workers \ {w} : pc'[u] = pc[u]
  BY <1>1, Moves DEF Step, TypeOK
<1>12. RunnerMoves(w)
  BY <1>1, <1>4, <1>9, <1>11 DEF RunnerMoves, IoElsewhere, SeenElsewhere
<1>13. ~AtWork(w)' /\ ~HandsIn(w)' /\ ~AfterWork(w)' /\ RowOf(w)' = RowOf(w)
  BY <1>1, <1>11 DEF AtWork, HandsIn, AfterWork, RowOf
<1>14. Place(w)' /\ Holds(w)'
  BY <1>1, <1>3, <1>11, <1>13 DEF Place, Holds
<1>15. RunWrites(w)' /\ HbWrites(w)'
  BY <1>1, <1>3, <1>9, <1>10, <1>11, <1>13 DEF RunWrites, HbWrites, Hand
<1>. QED
  BY <1>12, <1>14, <1>15, RunnerLocal DEF WorkerFits

LEMMA Beats ==
    ASSUME Step, NEW w \in Workers, Beat(w)
    PROVE  Safely
<1> DEFINE f == Fields(Unset, w, "fresh", Unset)
<1>1. /\ w \in beating /\ io[Hb(w)] = Idle
      /\ UNCHANGED <<row, result, cancelReq, seen, pc, cur, gr, graph, bg, api, enqueued>>
  BY DEF Beat, table, history
<1>2. pc[w] \in {"join", "finished"} /\ WorkerFits(w) /\ MemOf(w) \in Entry /\ NothingTakenBack
        /\ cur[w] \in Jobs /\ ProcOf[w] \in Procs
        /\ (AtWork(w) => Ours(RowOf(w), w) /\ Ours(MemOf(w), w))
        /\ (AfterWork(w) => Over(RowOf(w)) /\ Over(MemOf(w)))
  BY <1>1, RunnerHas
<1>3. AtWork(w) \/ HandsIn(w) \/ AfterWork(w)
  BY <1>2, JoinPlaces DEF AfterWork
<1>4. TouchHeartbeat(Hb(w), w) /\ beating' \subseteq beating /\ abandoned' = abandoned
  BY <1>3, NotCancelled DEF Beat
<1>5. CASE UNCHANGED <<mem, io>>
  <2>1. RunnerMoves(w)
    BY <1>1, <1>2, <1>4, <1>5 DEF RunnerMoves, IoElsewhere, SeenElsewhere, MemElsewhere, MemOf
  <2>2. MemSafe(w) /\ Apartly(w)
    BY <1>1, <1>2, <1>4, <1>5 DEF MemSafe, Apartly, RowSafe, MemOf, WorkerFits, Holds
  <2>. QED
    BY <1>2, <2>1, <2>2, WorkerFrame, RunnerLocal DEF Step, TypeOK
<1>6. CASE ~UNCHANGED <<mem, io>>
  <2>1. MemOf(w).status \notin Done /\ Upsert(Hb(w), ProcOf[w], cur[w], f)
    BY <1>4, <1>6 DEF TouchHeartbeat, MemOf
  <2>2. AtWork(w) /\ pc[w] = "join"
    <3>1. ~Over(MemOf(w))
      BY <2>1, RowNames
    <3>2. ~AfterWork(w) /\ ~HandsIn(w)
      BY <1>2, <3>1 DEF WorkerFits, Holds
    <3>. QED
      BY <1>2, <1>3, <3>2 DEF AfterWork
  <2>3. Ours(RowOf(w), w) /\ ~Over(RowOf(w)) /\ Ours(Merge(f, MemOf(w)), w)
    BY <1>2, <2>2, RowNames, OursStay
  <2>4. f \in Entry
    BY FieldsType, StatusNames
  <2>. HIDE DEF f
  <2>5. UpsertOn(MemOf(w), Hb(w), ProcOf[w], cur[w], f, FALSE)
    BY <2>1 DEF Upsert, MemOf
  <2>6. Upserted(MemOf(w), Hb(w), ProcOf[w], cur[w], f, FALSE)
    BY <1>2, <2>4, <2>5, ThreadNames, UpsertDoes DEF Step, TypeOK
  <2>7. /\ ~io'[Hb(w)].withResult /\ io'[Hb(w)].stage = "row" /\ io'[Hb(w)].job = cur[w] /\ Ours(io'[Hb(w)].snap, w)
        /\ Ours(mem'[ProcOf[w]][cur[w]], w) /\ IoElsewhere({Hb(w)}) /\ MemElsewhere(ProcOf[w], cur[w])
    BY <2>3, <2>6 DEF Upserted
  <2>8. io'[Run(w)] = io[Run(w)] /\ io'[Gt(gr[w])] = io[Gt(gr[w])]
    BY <2>2, <2>7, ThreadNames, ThreadsApart, JoinPlaces DEF IoElsewhere
  <2>9. RunnerMoves(w)
    BY <1>1, <1>4, <2>2, <2>3, <2>7 DEF RunnerMoves, IoElsewhere, SeenElsewhere
  <2>10. MemSafe(w)
    <3>1. ~HandsIn(w) /\ ~AfterWork(w)
      BY <2>2 DEF AtWork, HandsIn, AfterWork
    <3>. QED
      BY <1>1, <2>7, <3>1 DEF MemSafe, MemOf
  <2>11. \A j \in Jobs : RowSafe(row[j], row'[j], w)
    BY <1>1 DEF RowSafe
  <2>12. Place(w)' /\ Holds(w)'
    BY <1>1, <1>2, <1>4, <2>2, <2>8, <2>10, <2>11, HoldsFrame DEF WorkerFits, Step, TypeOK
  <2>13. RunWrites(w)'
    BY <1>1, <1>2, <2>8, <2>11, RunFrame DEF WorkerFits, Step, TypeOK
  <2>14. HbWrites(w)'
    BY <1>1, <2>2, <2>7 DEF HbWrites, Hand
  <2>. QED
    BY <2>9, <2>12, <2>13, <2>14, RunnerLocal DEF WorkerFits
<1>. QED
  BY <1>5, <1>6

LEMMA Launches ==
    ASSUME Step, NEW w \in Workers, LaunchGraph(w)
    PROVE  Safely
<1>1. PICK g \in Graphs :
        /\ pc[w] = "launch" /\ io[Run(w)] = Idle /\ graph[g] = NoThread /\ io[Hb(w)] = Idle
        /\ graph' = [graph EXCEPT ![g] = [pc |-> "begin", job |-> cur[w], worker |-> w]]
        /\ gr' = [gr EXCEPT ![w] = g] /\ beating' = beating \cup {w} /\ Goto(w, "join")
        /\ UNCHANGED <<row, result, mem, cancelReq, io, seen, cur, abandoned, bg, api, enqueued, happened>>
  BY DEF LaunchGraph, At, table, history
<1>2. AtWork(w)
  BY <1>1 DEF AtWork
<1>3. Ours(RowOf(w), w) /\ Ours(MemOf(w), w) /\ cur[w] \in Jobs
  BY <1>1, <1>2, RunnerHas
<1>4. /\ graph'[g].pc = "begin" /\ graph'[g].job = cur[w] /\ graph'[g].worker = w
      /\ \A h \in Graphs \ {g} : graph'[h] = graph[h]
      /\ graph[g].pc = "idle"
  BY <1>1 DEF Step, TypeOK, PipelineOK, NoThread
<1>5. /\ pc'[w] = "join" /\ gr'[w] = g
      /\ \A u \in Workers \ {w} : pc'[u] = pc[u] /\ gr'[u] = gr[u] /\ (u \in beating' => u \in beating)
  BY <1>1, Moves DEF Step, TypeOK
<1>6. ASSUME NEW u \in Workers, u # w PROVE WorkerFits(u)'
  <2>1. WorkerFits(u)
    BY DEF Step, RunnerInv
  <2>2. MemSafe(u)
    BY <1>1, <2>1 DEF MemSafe, MemOf, WorkerFits, Holds
  <2>3. pc[u] = "join" => gr[u] \in Graphs \ {g}
    BY <1>4, <2>1 DEF WorkerFits, Place, Step, TypeOK, WorkerOK
  <2>4. Apartly(u)
    BY <1>1, <1>4, <1>5, <1>6, <2>3 DEF Apartly, RowSafe
  <2>. QED
    BY <2>1, <2>2, <2>4, WorkerFrame DEF Step, TypeOK
<1>7. WorkerFits(w)'
  <2>1. AtWork(w)' /\ ~HandsIn(w)' /\ ~AfterWork(w)' /\ RowOf(w)' = RowOf(w) /\ MemOf(w)' = MemOf(w)
    BY <1>1, <1>4, <1>5 DEF AtWork, HandsIn, AfterWork, RowOf, MemOf
  <2>2. Place(w)'
    BY <1>1, <1>4, <1>5 DEF Place
  <2>3. Holds(w)'
    BY <1>3, <1>5, <2>1 DEF Holds
  <2>4. RunWrites(w)' /\ HbWrites(w)'
    BY <1>1 DEF RunWrites, HbWrites
  <2>. QED
    BY <2>2, <2>3, <2>4 DEF WorkerFits
<1>8. ASSUME NEW h \in Graphs, h # g PROVE PipelineFits(h)'
  <2>1. PipelineFits(h)
    BY DEF Step, RunnerInv
  <2>2. graph[h].pc \in {"begin", "work", "deliver", "enqueue"} =>
          pc'[graph[h].worker] = "join" /\ gr'[graph[h].worker] = h
    BY <1>1, <1>5, <2>1, StatusNames DEF PipelineFits, Joined
  <2>3. graph[h].pc = "done" => Over(mem'[ProcOf[graph[h].worker]][graph[h].job])
    BY <1>1, <2>1 DEF PipelineFits, Delivered
  <2>4. /\ graph'[h] = graph[h] /\ bg'[h] = bg[h] /\ seen'[Bt(h)] = seen[Bt(h)]
        /\ io'[Gt(h)] = io[Gt(h)] /\ io'[Bt(h)] = io[Bt(h)]
        /\ \A j \in Jobs : Over(row[j]) => Over(row'[j])
    BY <1>1, <1>4, <1>8
  <2>. QED
    BY <2>1, <2>2, <2>3, <2>4, PipelineFrame DEF Step, TypeOK
<1>9. PipelineFits(g)'
  <2>1. bg[g] = "off" /\ io[Gt(g)] = Idle /\ io[Bt(g)] = Idle
    BY <1>4, StatusNames DEF Step, RunnerInv, PipelineFits, Joined, GraphWrites, BgWrites
  <2>. QED
    BY <1>1, <1>4, <1>5, <2>1 DEF PipelineFits, Joined, Delivered, GraphWrites, BgWrites
<1>10. ASSUME NEW r \in Requests PROVE RequestFits(r)'
  BY <1>1, RequestFrame DEF Step, TypeOK, RunnerInv
<1>11. ASSUME NEW j \in Jobs PROVE RowFits(j)'
  BY <1>1, RowFrame DEF Step, TypeOK, RunnerInv
<1>12. SingleRunner' /\ NothingTakenBack'
  BY <1>1, <1>5 DEF SingleRunner, NothingTakenBack, Step, RunnerInv
<1>13. \A j \in Jobs : Over(row[j]) => Over(row'[j])
  BY <1>1
<1>. QED
  BY <1>6, <1>7, <1>8, <1>9, <1>10, <1>11, <1>12, <1>13 DEF Safely, RunnerInv

LEMMA RunnerStep ==
    ASSUME Step, NEW w \in Workers, Runner(w)
    PROVE  Safely
BY BeginsRun, EndsWait, WaitNotTaken, ChecksAgain, Publishes, PublishedReturns, ReadsToFail,
   FailsOrRetries, Launches DEF Runner

-----------------------------------------------------------------------------
(* The database side of an upsert *)

\* Worker u has to do with thread t.
Mine(t, u) == t \in {Run(u), Hb(u)} \/ (pc[u] = "join" /\ t = Gt(gr[u]))

\* A step of the write that thread t is in the middle of.
WriteMoves(t) ==
    /\ io[t].job \in Jobs
    /\ \A j \in Jobs \ {io[t].job} : row'[j] = row[j]
    /\ IoElsewhere({t}) /\ MemElsewhere(ProcOfThread(t), io[t].job)
    /\ result \subseteq result' /\ result' \subseteq result \cup {io[t].job}
    /\ UNCHANGED <<cancelReq, seen, pc, cur, gr, beating, abandoned, graph, bg, api, enqueued>>

\* What it may do to its job.
WriteSafe(t) ==
    LET j == io[t].job
        m == mem'[ProcOfThread(t)][j]
    IN  /\ \A u \in Workers : Mine(t, u) \/ RowSafe(row[j], row'[j], u)
        /\ Over(row[j]) => Over(row'[j])
        /\ row'[j].status # "cancelled" /\ j \in enqueued
        /\ j \in result' => j \in result \/ Over(row'[j])
        /\ \/ m = mem[ProcOfThread(t)][j]
           \/ Over(m) /\ Over(row[j]) /\ ProcOfThread(t) # ApiProc
        /\ row[j] = Blank /\ row'[j] # Blank =>
              \A r \in Requests : Rt(r) # t => io[Rt(r)].job # j \/ io[Rt(r)] = Idle

\* Its thread goes on as it should.
WriteOwn(t) ==
    /\ \A u \in Workers : Mine(t, u) => WorkerFits(u)'
    /\ \A g \in Graphs : t \in {Gt(g), Bt(g)} => PipelineFits(g)'
    /\ \A r \in Requests : t = Rt(r) => RequestFits(r)' /\ io'[t].job \in {io[t].job, NoJob}

LEMMA WriteFrame ==
    ASSUME Step, NEW t \in Threads, WriteMoves(t), WriteSafe(t), WriteOwn(t)
    PROVE  Safely
<1> DEFINE j == io[t].job
           p == ProcOfThread(t)
<1>1. /\ j \in Jobs
      /\ \A k \in Jobs \ {j} : row'[k] = row[k]
      /\ IoElsewhere({t}) /\ MemElsewhere(p, j)
      /\ result \subseteq result' /\ result' \subseteq result \cup {j}
      /\ UNCHANGED <<cancelReq, seen, pc, cur, gr, beating, abandoned, graph, bg, api, enqueued>>
  BY DEF WriteMoves
<1>2. /\ \A u \in Workers : Mine(t, u) \/ RowSafe(row[j], row'[j], u)
      /\ Over(row[j]) => Over(row'[j])
      /\ row'[j].status # "cancelled" /\ j \in enqueued
      /\ j \in result' => j \in result \/ Over(row'[j])
      /\ mem'[p][j] = mem[p][j] \/ (Over(mem'[p][j]) /\ Over(row[j]) /\ p # ApiProc)
      /\ row[j] = Blank /\ row'[j] # Blank =>
            \A r \in Requests : Rt(r) # t => io[Rt(r)].job # j \/ io[Rt(r)] = Idle
  BY DEF WriteSafe
<1>. HIDE DEF j, p
<1>3. \A k \in Jobs : Over(row[k]) => Over(row'[k])
  BY <1>1, <1>2
<1>4. \A q \in Procs, k \in Jobs : mem'[q][k] = mem[q][k] \/ (Over(mem'[q][k]) /\ Over(row[k]) /\ q # ApiProc)
  BY <1>1, <1>2 DEF MemElsewhere
<1>5. ASSUME NEW u \in Workers, ~Mine(t, u) PROVE WorkerFits(u)'
  <2>1. WorkerFits(u)
    BY DEF Step, RunnerInv
  <2>2. \A k \in Jobs : RowSafe(row[k], row'[k], u)
    BY <1>1, <1>2, <1>5 DEF RowSafe
  <2>3. AtWork(u) \/ HandsIn(u) \/ AfterWork(u) => cur[u] \in Jobs /\ ProcOf[u] \in Procs
    BY RunnerHas DEF AtWork, HandsIn, AfterWork
  <2>4. AtWork(u) => ~Over(RowOf(u))
    BY RunnerHas, RowNames
  <2>5. AtWork(u) => MemOf(u)' = MemOf(u)
    BY <1>1, <1>4, <2>3, <2>4 DEF MemOf, RowOf
  <2>6. HandsIn(u) \/ AfterWork(u) => MemOf(u)' = MemOf(u) \/ Over(MemOf(u)')
    BY <1>1, <1>4, <2>3 DEF MemOf
  <2>7. MemSafe(u)
    BY <2>1, <2>5, <2>6 DEF WorkerFits, Holds, MemSafe
  <2>8. Run(u) # t /\ Hb(u) # t /\ (pc[u] = "join" => gr[u] \in Graphs /\ Gt(gr[u]) # t)
    BY <1>5, JoinPlaces DEF Mine
  <2>9. io'[Run(u)] = io[Run(u)] /\ io'[Hb(u)] = io[Hb(u)] /\ (pc[u] = "join" => io'[Gt(gr[u])] = io[Gt(gr[u])])
    BY <1>1, <2>8, ThreadNames DEF IoElsewhere
  <2>10. Apartly(u)
    BY <1>1, <2>2, <2>9 DEF Apartly
  <2>. QED
    BY <2>1, <2>7, <2>10, WorkerFrame DEF Step, TypeOK
<1>6. ASSUME NEW g \in Graphs, t \notin {Gt(g), Bt(g)} PROVE PipelineFits(g)'
  <2>1. PipelineFits(g)
    BY DEF Step, RunnerInv
  <2>2. io'[Gt(g)] = io[Gt(g)] /\ io'[Bt(g)] = io[Bt(g)]
    BY <1>1, <1>6, ThreadNames DEF IoElsewhere
  <2>3. graph[g].pc \in {"begin", "work", "deliver", "enqueue"} =>
          pc'[graph[g].worker] = "join" /\ gr'[graph[g].worker] = g
    BY <1>1, <2>1 DEF PipelineFits, Joined
  <2>4. ASSUME graph[g].pc = "done" PROVE Over(mem'[ProcOf[graph[g].worker]][graph[g].job])
    <3>1. graph[g].worker \in Workers /\ graph[g].job \in Jobs /\ ProcOf[graph[g].worker] \in Procs
      BY <2>1, <2>4, JobQueueAssumption DEF PipelineFits, Joined, Step, TypeOK, PipelineOK
    <3>2. Over(mem[ProcOf[graph[g].worker]][graph[g].job])
      BY <2>1, <2>4 DEF PipelineFits, Delivered
    <3>. QED
      BY <1>4, <3>1, <3>2
  <2>. QED
    BY <1>1, <1>3, <2>1, <2>2, <2>3, <2>4, PipelineFrame DEF Step, TypeOK
<1>7. ASSUME NEW r \in Requests, t # Rt(r) PROVE RequestFits(r)'
  <2>1. RequestFits(r)
    BY DEF Step, RunnerInv
  <2>2. io'[Rt(r)] = io[Rt(r)]
    BY <1>1, <1>7, ThreadNames DEF IoElsewhere
  <2>3. Hand(io[Rt(r)]) /\ row[io[Rt(r)].job] = Blank => row'[io[Rt(r)].job] = Blank
    <3>1. SUFFICES ASSUME Hand(io[Rt(r)]), row[io[Rt(r)].job] = Blank PROVE row'[io[Rt(r)].job] = Blank
      OBVIOUS
    <3>2. io[Rt(r)].job \in Jobs /\ io[Rt(r)] # Idle
      BY <3>1, ThreadNames DEF Hand, Idle, Step, TypeOK, IoOK
    <3>. QED
      BY <1>1, <1>2, <1>7, <3>1, <3>2
  <2>4. io[Rt(r)] # Idle =>
          \A s \in Requests : io'[Rt(s)].job = io[Rt(s)].job \/ io'[Rt(s)].job # io[Rt(r)].job
    <3>1. SUFFICES ASSUME io[Rt(r)] # Idle, NEW s \in Requests, t = Rt(s), io'[t].job # io[t].job
                   PROVE io'[Rt(s)].job # io[Rt(r)].job
      BY <1>1, ThreadNames DEF IoElsewhere
    <3>2. io'[t].job = NoJob
      BY <3>1 DEF WriteOwn
    <3>3. io[Rt(r)].job \in Jobs
      BY <2>1, <3>1 DEF RequestFits, ApiWrites, Step, TypeOK, RestOK
    <3>. QED
      BY <3>1, <3>2, <3>3, JobQueueAssumption
  <2>5. happened'["poll"] = 0 => happened["poll"] = 0
    BY DEF Step, CountsKept, Kinds
  <2>. QED
    BY <1>1, <1>3, <2>1, <2>2, <2>3, <2>4, <2>5, RequestFrame DEF Step, TypeOK
<1>8. ASSUME NEW k \in Jobs PROVE RowFits(k)'
  <2>1. RowFits(k)
    BY DEF Step, RunnerInv
  <2>2. row'[k] = row[k] \/ (row'[k].status # "cancelled" /\ k \in enqueued')
    BY <1>1, <1>2
  <2>3. k \in result' => k \in result \/ Over(row'[k])
    BY <1>1, <1>2
  <2>4. mem'[ApiProc][k] = mem[ApiProc][k]
    BY <1>4, JobQueueAssumption
  <2>5. happened'["crash"] = 0 => happened["crash"] = 0
    BY DEF Step, CountsKept, Kinds
  <2>. QED
    BY <1>1, <1>3, <2>1, <2>2, <2>3, <2>4, <2>5, RowFrame DEF Step, TypeOK
<1>9. SingleRunner' /\ NothingTakenBack'
  BY <1>1 DEF SingleRunner, NothingTakenBack, Step, RunnerInv
<1>10. \A k \in Jobs : Over(row[k]) => Over(row'[k])
  BY <1>3
<1>. QED
  BY <1>5, <1>6, <1>7, <1>8, <1>9, <1>10 DEF Safely, RunnerInv, WriteOwn

\* The steps of a write, in what follows from them.
LEMMA WritesMove ==
    ASSUME Step, NEW t \in Threads, Write(t)
    PROVE  /\ WriteMoves(t) /\ io[t].job \in Jobs
           /\ ~FlushLost(t) /\ ~ResultLost(t)
           /\ ProcOfThread(t) \in Procs
<1>1. ~FlushLost(t) /\ ~ResultLost(t)
  BY NothingSpent DEF FlushLost, ResultLost, Disturbing
<1>2. io[t].job \in Jobs
  BY <1>1 DEF Write, Flush, ReadRow, CommitRow, StoreResult, Step, TypeOK, IoOK
<1>3. ProcOfThread(t) \in Procs
  BY ProcTypes DEF Step, TypeOK
<1>4. ASSUME UNCHANGED <<result, mem, cancelReq, seen, worker, graph, bg, api, history>>,
             IoElsewhere({t}), \A j \in Jobs \ {io[t].job} : row'[j] = row[j]
      PROVE  WriteMoves(t)
  BY <1>4, <1>2 DEF WriteMoves, worker, history, MemElsewhere
<1>5. ASSUME Flush(t) PROVE WriteMoves(t)
  <2>1. \A j \in Jobs \ {io[t].job} : row'[j] = row[j]
    BY <1>2, <1>5 DEF Flush, Step, TypeOK, RowOK
  <2>2. /\ UNCHANGED <<result, mem, cancelReq, seen, worker, graph, bg, api, history>>
        /\ IoElsewhere({t})
    BY <1>5 DEF Flush, Advance, IoElsewhere, Step, TypeOK, IoOK
  <2>. QED
    BY <1>4, <2>1, <2>2
<1>6. ASSUME ReadRow(t) PROVE WriteMoves(t)
  <2>1. \A j \in Jobs \ {io[t].job} : row'[j] = row[j]
    BY <1>6 DEF ReadRow, table
  <2>2. /\ UNCHANGED <<result, mem, cancelReq, seen, worker, graph, bg, api, history>>
        /\ IoElsewhere({t})
    BY <1>6 DEF ReadRow, table, IoElsewhere, Step, TypeOK, IoOK
  <2>. QED
    BY <1>4, <2>1, <2>2
<1>7. ASSUME CommitRow(t) PROVE WriteMoves(t)
  <2>1. \A j \in Jobs \ {io[t].job} : row'[j] = row[j]
    BY <1>2, <1>7 DEF CommitRow, Step, TypeOK, RowOK
  <2>2. /\ UNCHANGED <<result, mem, cancelReq, seen, worker, graph, bg, api, history>>
        /\ IoElsewhere({t})
    BY <1>7 DEF CommitRow, Advance, IoElsewhere, Step, TypeOK, IoOK
  <2>. QED
    BY <1>4, <2>1, <2>2
<1>8. ASSUME StoreResult(t) PROVE WriteMoves(t)
  <2>1. \A j \in Jobs \ {io[t].job} : row'[j] = row[j]
    BY <1>2, <1>8 DEF StoreResult, Step, TypeOK, RowOK
  <2>2. IoElsewhere({t})
    BY <1>8 DEF StoreResult, IoElsewhere, Step, TypeOK, IoOK
  <2>3. MemElsewhere(ProcOfThread(t), io[t].job)
    BY <1>2, <1>3, <1>8 DEF StoreResult, MemElsewhere, Step, TypeOK, MemOK
  <2>. QED
    BY <1>2, <1>8, <2>1, <2>2, <2>3 DEF StoreResult, WriteMoves, worker, history
<1>. QED
  BY <1>1, <1>2, <1>3, <1>5, <1>6, <1>7, <1>8 DEF Write

LEMMA Advances ==
    ASSUME IoOK, NEW t \in Threads, Advance(t)
    PROVE  \/ ~io[t].withResult /\ io'[t] = Idle
           \/ /\ io[t].withResult /\ io'[t] # Idle
              /\ io'[t].stage = "result" /\ io'[t].job = io[t].job
<1>1. CASE ~io[t].withResult
  BY <1>1 DEF Advance, IoOK
<1>2. CASE io[t].withResult
  <2>1. io'[t] = [stage |-> "result", job |-> io[t].job, snap |-> Blank, base |-> Blank, withResult |-> TRUE]
    BY <1>2 DEF Advance, IoOK
  <2>. QED
    BY <1>2, <2>1 DEF Idle
<1>. QED
  BY <1>1, <1>2

\* The row of a job that a snapshot is handed in for, when the row was and is there.
LEMMA Fate ==
    ASSUME Step, NEW t \in Threads, Flush(t) \/ CommitRow(t), row[io[t].job] # Blank,
           io[t].stage = "commit" => io[t].base # Blank
    PROVE  LET w == io[t]
               r == row[w.job]
               x == row'[w.job]
           IN  /\ \A u : Ours(r, u) /\ Ours(w.snap, u) /\ (w.stage = "commit" => Ours(w.base, u)) => Ours(x, u)
               /\ \A u : Over(r) /\ Ours(w.snap, u) /\ (w.stage = "commit" => Ours(w.base, u) \/ Over(w.base))
                     => Over(x)
               /\ Over(w.snap) /\ (w.stage = "commit" => (Over(w.base) => Over(r))) => Over(x)
               /\ w.snap.status = "pending"
                    /\ (w.stage = "commit" => (w.base.status = "pending" => r.status = "pending"))
                    => x.status = "pending"
               /\ Advance(t) /\ Hand(w) /\ UNCHANGED <<result, mem>>
<1> DEFINE w == io[t]
           r == row[w.job]
           b == w.base
           s == w.snap
<1>1. w.job \in Jobs /\ s \in Entry /\ b \in Row \cup {Blank} /\ Hand(w)
  BY DEF Flush, CommitRow, Step, TypeOK, IoOK, InFlight, Hand
<1>2. r \in Row
  BY <1>1, RowsKnown DEF Step, TypeOK
<1>3. Advance(t) /\ UNCHANGED <<result, mem>>
  BY DEF Flush, CommitRow
<1>4. CASE Flush(t)
  <2>1. row'[w.job] = Persist(r, s) /\ w.stage = "row"
    BY <1>1, <1>4 DEF Flush, Step, TypeOK, RowOK
  <2>. HIDE DEF w, r, b, s
  <2>2. /\ \A u : Ours(r, u) /\ Ours(s, u) => Ours(Persist(r, s), u)
        /\ Over(s) => Over(Persist(r, s))
        /\ \A u : Over(r) /\ Ours(s, u) => Over(Persist(r, s))
        /\ s.status = "pending" => Persist(r, s).status = "pending"
    BY <1>1, <1>2, PersistMakes
  <2>. QED
    BY <1>1, <1>3, <2>1, <2>2 DEF r, s, w
<1>5. CASE CommitRow(t)
  <2>1. w.stage = "commit" /\ b # Blank /\ b \in Row
    BY <1>1, <1>5 DEF CommitRow
  <2>2. row'[w.job] = Columns(r, b, Persist(b, s))
    BY <1>1, <1>2, <1>5, <2>1, BlankIsEntry DEF CommitRow, Columns, Step, TypeOK, RowOK
  <2>. HIDE DEF w, r, b, s
  <2>3. /\ \A u : Ours(r, u) /\ Ours(b, u) /\ Ours(s, u) => Ours(Columns(r, b, Persist(b, s)), u)
        /\ \A u : Over(r) /\ Ours(b, u) /\ Ours(s, u) => Over(Columns(r, b, Persist(b, s)))
        /\ \A u : Over(r) /\ Over(b) /\ Ours(s, u) => Over(Columns(r, b, Persist(b, s)))
        /\ (Over(b) => Over(r)) /\ Over(s) => Over(Columns(r, b, Persist(b, s)))
        /\ s.status = "pending" /\ (b.status = "pending" => r.status = "pending")
             => Columns(r, b, Persist(b, s)).status = "pending"
    BY <1>2, <1>1, <2>1, CommitMakes
  <2>. QED
    BY <1>1, <1>3, <2>1, <2>2, <2>3 DEF r, b, s, w
<1>. QED
  BY <1>4, <1>5

LEMMA ReadIs ==
    ASSUME Step, NEW t \in Threads, ReadRow(t)
    PROVE  /\ io[t].stage = "row" /\ Hand(io[t]) /\ Hand(io'[t]) /\ io'[t] # Idle
           /\ io'[t].stage = "commit" /\ io'[t].job = io[t].job
           /\ io'[t].snap = io[t].snap /\ io'[t].base = row[io[t].job]
           /\ io'[t].withResult = io[t].withResult
           /\ UNCHANGED <<row, result, mem>>
<1>1. io'[t] = [io[t] EXCEPT !.stage = "commit", !.base = row[io[t].job]] /\ io[t].stage = "row"
  BY DEF ReadRow, Step, TypeOK, IoOK
<1>2. io[t] \in InFlight
  BY DEF Step, TypeOK, IoOK
<1>3. UNCHANGED <<row, result, mem>>
  BY DEF ReadRow, table
<1> DEFINE w == io[t]
           r == row[w.job]
<1>4. io'[t] = [w EXCEPT !.stage = "commit", !.base = r] /\ w \in InFlight /\ w.stage = "row"
  BY <1>1, <1>2
<1>. HIDE DEF w, r
<1>5. /\ io'[t].stage = "commit" /\ io'[t].job = w.job /\ io'[t].snap = w.snap /\ io'[t].base = r
      /\ io'[t].withResult = w.withResult
  BY <1>4 DEF InFlight
<1>6. io'[t].stage # Idle.stage /\ Hand(w) /\ Hand(io'[t])
  BY <1>4, <1>5 DEF Hand, Idle
<1>7. io'[t] # Idle
  BY <1>6
<1>. QED
  BY <1>3, <1>4, <1>5, <1>6, <1>7 DEF w, r

LEMMA StoreIs ==
    ASSUME Step, NEW t \in Threads, StoreResult(t), row[io[t].job] # Blank
    PROVE  LET j == io[t].job
               p == ProcOfThread(t)
           IN  /\ io[t].stage = "result" /\ io'[t] = Idle
               /\ row'[j] = row[j]
               /\ result' = result \cup {j}
               /\ mem'[p][j] = View(row[j], mem[p][j])
               /\ Over(row[j]) => Over(mem'[p][j])
<1> DEFINE j == io[t].job
           p == ProcOfThread(t)
<1>1. j \in Jobs /\ p \in Procs /\ row[j] \in Row
  BY WritesMove, RowsKnown DEF Write, Step, TypeOK
<1>2. row'[j] = row[j] /\ io'[t] = Idle /\ io[t].stage = "result" /\ result' = result \cup {j}
  BY <1>1 DEF StoreResult, Step, TypeOK, RowOK, IoOK
<1>3. mem'[p][j] = View(row[j], mem[p][j])
  BY <1>1 DEF StoreResult, Step, TypeOK, MemOK
<1>. QED
  BY <1>1, <1>2, <1>3, ViewOver

\* What a write of the thread t leaves alone.
LEMMA WriteLeaves ==
    ASSUME Step, NEW t \in Threads, Write(t)
    PROVE  /\ \A s \in Threads : s # t => io'[s] = io[s]
           /\ \A u \in Workers : Place(u) => Place(u)'
           /\ \A u \in Workers : (AtWork(u)' <=> AtWork(u)) /\ (HandsIn(u)' <=> HandsIn(u))
                                   /\ (AfterWork(u)' <=> AfterWork(u))
           /\ UNCHANGED <<seen, pc, cur, gr, graph, bg, api, enqueued>>
<1>1. WriteMoves(t)
  BY WritesMove
<1>2. UNCHANGED <<seen, pc, cur, gr, beating, graph, bg, api, enqueued>>
  BY <1>1 DEF WriteMoves
<1>3. \A s \in Threads : s # t => io'[s] = io[s]
  BY <1>1 DEF WriteMoves, IoElsewhere
<1>4. \A u \in Workers : Place(u) => Place(u)'
  BY <1>2 DEF Place
<1>5. \A u \in Workers : (AtWork(u)' <=> AtWork(u)) /\ (HandsIn(u)' <=> HandsIn(u))
                           /\ (AfterWork(u)' <=> AfterWork(u))
  BY <1>2 DEF AtWork, HandsIn, AfterWork
<1>. QED
  BY <1>2, <1>3, <1>4, <1>5

\* A row that is there is of a job that was enqueued.
LEMMA RowEnqueued ==
    ASSUME Step, NEW j \in Jobs, row[j] # Blank
    PROVE  j \in enqueued
BY DEF Step, RunnerInv, RowFits

\* A runner's write.
LEMMA RunOwn ==
    ASSUME NEW v \in Workers, WriteSafe(Run(v)), WorkerFits(v)', Step
    PROVE  WriteOwn(Run(v))
<1>1. \A u \in Workers : Mine(Run(v), u) => u = v
  BY ThreadsApart, JoinPlaces DEF Mine
<1>. QED
  BY <1>1, ThreadsApart DEF WriteOwn

LEMMA RunWrite ==
    ASSUME Step, NEW v \in Workers, Write(Run(v))
    PROVE  Safely
<1> DEFINE t == Run(v)
           w == io[t]
           j == w.job
           r == row[j]
<1>1. t \in Threads /\ j \in Jobs /\ WriteMoves(t) /\ WorkerFits(v) /\ ProcOf[v] # ApiProc
      /\ ProcOfThread(t) = ProcOf[v]
  BY WritesMove, ThreadNames, StatusNames DEF Step, RunnerInv, Apart, ProcOfThread, Run
<1>2. w # Idle /\ w.stage # "idle"
  BY DEF Write, Flush, ReadRow, CommitRow, FlushLost, StoreResult, ResultLost, Idle
<1>3. /\ io'[Hb(v)] = io[Hb(v)]
      /\ Place(v)'
      /\ (AtWork(v)' <=> AtWork(v)) /\ (HandsIn(v)' <=> HandsIn(v)) /\ (AfterWork(v)' <=> AfterWork(v))
      /\ pc'[v] = pc[v] /\ cur'[v] = cur[v]
  BY <1>1, WriteLeaves, ThreadNames, ThreadsApart DEF WorkerFits
<1>4. w.withResult => pc[v] = "published"
  BY DEF Step, TypeOK, Awaited
<1>5. \/ pc[v] \in {"begun", "download", "launch"} /\ w.job = cur[v] /\ OwnHand(w, v)
      \/ /\ pc[v] = "published" /\ w.job = cur[v]
         /\ Hand(w) => Over(w.snap)
         /\ w.stage = "commit" => Over(w.base)
      \/ /\ pc[v] = "exiting" /\ w.job = cur[v] /\ Hand(w)
         /\ w.snap.status = "pending" /\ Ours(RowOf(v), v)
         /\ w.stage = "commit" => Ours(w.base, v)
      \/ pc[v] = "poll" /\ Hand(w) /\ (GivesBack(w, r, v) \/ GivesUp(w, r, v))
  BY <1>1, <1>2 DEF WorkerFits, RunWrites
<1>6. pc[v] \notin {"join", "finished", "fail"}
  BY <1>5
<1>7. io[Hb(v)] = Idle /\ HbWrites(v)'
  BY <1>3, <1>6, RunnerHas DEF HbWrites
<1>8. ~HandsIn(v) /\ pc[v] # "failing"
  BY <1>5 DEF HandsIn
<1>9. /\ AtWork(v) => Ours(RowOf(v), v) /\ Ours(MemOf(v), v)
      /\ AfterWork(v) => Over(RowOf(v)) /\ Over(MemOf(v))
      /\ pc[v] \in {"begun", "download", "launch"} => AtWork(v) /\ ~AfterWork(v)
      /\ pc[v] = "published" => AfterWork(v) /\ ~AtWork(v)
      /\ pc[v] \in {"exiting", "poll"} => ~AtWork(v) /\ ~AfterWork(v)
  BY RunnerHas DEF AtWork, AfterWork
<1>10. (r.status = "processing" /\ r.owner = v) \/ Over(r) \/ r.status = "pending"
  BY <1>5, <1>9 DEF RowOf, GivesBack, GivesUp, Ours
<1>. HIDE DEF w, j, r, t
<1>11. r # Blank /\ r \in Row /\ j \in enqueued
  BY <1>1, <1>10, RowNames, RowsKnown, RowEnqueued DEF Step, TypeOK, r
<1>12. ASSUME \/ row'[j] = r
              \/ Over(r) /\ Over(row'[j])
              \/ r.status = "pending" /\ row'[j].status = "pending"
              \/ r.status = "processing" /\ r.owner = v /\ (Over(row'[j]) \/ row'[j].status \in Active),
              j \in result' => j \in result \/ Over(row'[j]),
              mem'[ProcOf[v]][j] = mem[ProcOf[v]][j] \/ (Over(mem'[ProcOf[v]][j]) /\ Over(r))
       PROVE  WriteSafe(t)
  <2>1. \A u \in Workers : u # v => RowSafe(r, row'[j], u)
    BY <1>12, RowNames DEF RowSafe
  <2>2. \A u \in Workers : u = v => Mine(t, u)
    BY DEF Mine, t
  <2>3. row'[j].status # "cancelled"
    <3>1. r.status # "cancelled"
      BY <1>1 DEF Step, RunnerInv, RowFits, r
    <3>. QED
      BY <1>12, <3>1, RowNames, StatusNames DEF Active
  <2>4. Over(r) => Over(row'[j])
    BY <1>12, RowNames
  <2>. QED
    BY <1>1, <1>11, <1>12, <2>1, <2>2, <2>3, <2>4 DEF WriteSafe, w, j, r
<1>13. ASSUME /\ AtWork(v) => Ours(RowOf(v)', v) /\ Ours(MemOf(v)', v)
              /\ AfterWork(v) => Over(RowOf(v)') /\ Over(MemOf(v)'),
              RunWrites(v)', WriteSafe(t)
       PROVE  Safely
  <2>1. Holds(v)'
    BY <1>3, <1>8, <1>13 DEF Holds
  <2>. QED
    BY <1>1, <1>3, <1>7, <1>13, <2>1, RunOwn, WriteFrame DEF WorkerFits, t
<1>14. CASE Flush(t) \/ CommitRow(t)
  <2>1. w.stage = "commit" => w.base # Blank
    BY <1>5, <1>14, RowNames, StatusNames DEF GivesBack, GivesUp, OwnHand, Active, Blank
  <2>2. /\ Ours(r, v) /\ Ours(w.snap, v) /\ (w.stage = "commit" => Ours(w.base, v)) => Ours(row'[j], v)
        /\ Over(w.snap) /\ (w.stage = "commit" => (Over(w.base) => Over(r))) => Over(row'[j])
        /\ w.snap.status = "pending"
             /\ (w.stage = "commit" => (w.base.status = "pending" => r.status = "pending"))
             => row'[j].status = "pending"
        /\ Advance(t) /\ Hand(w) /\ UNCHANGED <<result, mem>>
    BY <1>1, <1>11, <1>14, <2>1, Fate DEF w, j, r
  <2>3. \/ ~w.withResult /\ io'[t] = Idle
        \/ w.withResult /\ io'[t] # Idle /\ io'[t].stage = "result" /\ io'[t].job = j
    BY <1>1, <2>2, Advances DEF Step, TypeOK, w, j
  <2>4. pc[v] \in {"begun", "download", "launch"} => Ours(row'[j], v) /\ Ours(r, v) /\ j = cur[v]
    BY <1>5, <1>9, <2>2 DEF OwnHand, RowOf, r, j
  <2>5. pc[v] = "published" => Over(row'[j]) /\ Over(r) /\ j = cur[v]
    BY <1>5, <1>9, <2>2 DEF RowOf, r, j
  <2>6. pc[v] = "exiting" => row'[j].status = "pending" /\ Ours(r, v)
    BY <1>5, <2>2, RowNames DEF RowOf, r, j, Ours
  <2>7. pc[v] = "poll" =>
          \/ r.status = "pending" /\ row'[j].status = "pending"
          \/ r.status = "processing" /\ r.owner = v /\ (Over(row'[j]) \/ row'[j].status = "pending")
          \/ Over(r) /\ Over(row'[j])
    <3>1. pc[v] = "poll" /\ GivesBack(w, r, v) => row'[j].status = "pending"
      BY <2>2, StatusNames DEF GivesBack
    <3>2. pc[v] = "poll" /\ GivesUp(w, r, v) => Over(row'[j])
      BY <2>2 DEF GivesUp
    <3>. QED
      BY <1>5, <3>1, <3>2 DEF GivesBack, GivesUp
  <2>8. /\ AtWork(v) => Ours(RowOf(v)', v) /\ Ours(MemOf(v)', v)
        /\ AfterWork(v) => Over(RowOf(v)') /\ Over(MemOf(v)')
    <3>1. AtWork(v) => pc[v] \in {"begun", "download", "launch"}
      BY <1>5 DEF AtWork
    <3>2. AfterWork(v) => pc[v] = "published"
      BY <1>5 DEF AfterWork
    <3>3. UNCHANGED <<mem, cur>>
      BY <1>1, <2>2 DEF WriteMoves
    <3>. QED
      BY <1>9, <2>4, <2>5, <3>1, <3>2, <3>3 DEF RowOf, MemOf
  <2>9. RunWrites(v)'
    BY <1>3, <1>4, <1>5, <2>3, <2>5 DEF RunWrites, Hand, t
  <2>10. \/ Over(r) /\ Over(row'[j])
         \/ r.status = "pending" /\ row'[j].status = "pending"
         \/ r.status = "processing" /\ r.owner = v /\ (Over(row'[j]) \/ row'[j].status \in Active)
    BY <1>5, <2>4, <2>5, <2>6, <2>7 DEF Ours, Active
  <2>. QED
    BY <1>12, <1>13, <2>2, <2>8, <2>9, <2>10
<1>15. CASE ReadRow(t)
  <2>1. /\ io'[t].stage = "commit" /\ io'[t].job = w.job /\ Hand(io'[t]) /\ w.stage = "row"
        /\ io'[t].snap = w.snap /\ io'[t].base = r /\ UNCHANGED <<row, result, mem>>
    BY <1>1, <1>15, ReadIs DEF w, j, r
  <2>2. RowOf(v)' = RowOf(v) /\ MemOf(v)' = MemOf(v) /\ row'[j] = r
    BY <1>3, <2>1 DEF RowOf, MemOf, r
  <2>3. pc[v] \in {"begun", "download", "launch"} /\ OwnHand(w, v) /\ w.job = cur[v] => OwnHand(io'[t], v)
    BY <1>9, <2>1 DEF OwnHand, RowOf, r, j
  <2>4. pc[v] = "published" /\ w.job = cur[v] => Over(r)
    BY <1>9 DEF RowOf, r, j
  <2>5. pc[v] = "exiting" /\ w.job = cur[v] => (Ours(RowOf(v), v) <=> Ours(r, v))
    BY DEF RowOf, r, j
  <2>6. GivesBack(w, r, v) => GivesBack(io'[t], r, v)
    BY <2>1 DEF GivesBack, Active
  <2>7. GivesUp(w, r, v) => GivesUp(io'[t], r, v)
    BY <1>11, <2>1 DEF GivesUp
  <2>8. row'[io'[t].job] = r
    BY <2>1, <2>2 DEF j
  <2>9. RunWrites(v)'
    BY <1>3, <1>5, <2>1, <2>2, <2>3, <2>4, <2>5, <2>6, <2>7, <2>8 DEF RunWrites, Hand, t
  <2>. QED
    BY <1>9, <1>12, <1>13, <2>1, <2>2, <2>9
<1>16. CASE StoreResult(t)
  <2>1. /\ w.stage = "result" /\ io'[t] = Idle /\ row'[j] = r /\ result' = result \cup {j}
        /\ Over(r) => Over(mem'[ProcOf[v]][j])
    BY <1>1, <1>11, <1>16, StoreIs DEF w, j, r
  <2>2. pc[v] = "published" /\ j = cur[v]
    BY <1>5, <2>1 DEF Hand, OwnHand, j
  <2>3. Over(r) /\ ~AtWork(v)
    BY <1>9, <2>2 DEF RowOf, r
  <2>4. Over(RowOf(v)') /\ Over(MemOf(v)')
    BY <1>3, <2>1, <2>2, <2>3 DEF RowOf, MemOf
  <2>5. RunWrites(v)'
    BY <2>1 DEF RunWrites, t
  <2>. QED
    BY <1>12, <1>13, <2>1, <2>3, <2>4, <2>5
<1>. QED
  BY <1>1, <1>14, <1>15, <1>16, WritesMove DEF Write, t

\* A heartbeat's write.
LEMMA HeartbeatWrite ==
    ASSUME Step, NEW v \in Workers, Write(Hb(v))
    PROVE  Safely
<1> DEFINE t == Hb(v)
           w == io[t]
           j == w.job
           r == row[j]
<1>1. t \in Threads /\ j \in Jobs /\ WriteMoves(t) /\ WorkerFits(v) /\ ProcOf[v] # ApiProc
      /\ ProcOfThread(t) = ProcOf[v]
  BY WritesMove, ThreadNames, StatusNames DEF Step, RunnerInv, Apart, ProcOfThread, Hb
<1>2. w # Idle /\ w.stage # "idle"
  BY DEF Write, Flush, ReadRow, CommitRow, FlushLost, StoreResult, ResultLost, Idle
<1>3. /\ Hand(w) /\ ~w.withResult /\ j = cur[v] /\ pc[v] \in {"join", "finished", "fail"}
      /\ Ours(w.snap, v)
      /\ w.stage = "commit" => Ours(w.base, v) \/ (Over(w.base) /\ Over(r))
  BY <1>1, <1>2 DEF WorkerFits, HbWrites, RowOf
<1>4. /\ Place(v)'
      /\ (AtWork(v)' <=> AtWork(v)) /\ (HandsIn(v)' <=> HandsIn(v)) /\ (AfterWork(v)' <=> AfterWork(v))
      /\ pc'[v] = pc[v] /\ cur'[v] = cur[v] /\ gr'[v] = gr[v]
      /\ \A s \in Threads : s # t => io'[s] = io[s]
  BY <1>1, WriteLeaves DEF WorkerFits
<1>5. io'[Run(v)] = io[Run(v)] /\ (pc[v] = "join" => io'[Gt(gr[v])] = io[Gt(gr[v])])
  BY <1>4, ThreadNames, ThreadsApart, JoinPlaces
<1>6. io[Run(v)] = Idle
  BY <1>1, <1>3 DEF WorkerFits, RunWrites
<1>7. AtWork(v) \/ HandsIn(v) \/ AfterWork(v)
  BY <1>3, JoinPlaces DEF AtWork, AfterWork
<1>8. /\ AtWork(v) => Ours(r, v) /\ Ours(MemOf(v), v)
      /\ HandsIn(v) => Over(MemOf(v)) /\ (Over(r) \/ (Ours(r, v) /\ Hand(io[Gt(gr[v])])))
      /\ AfterWork(v) => Over(r) /\ Over(MemOf(v))
  BY <1>1, <1>3 DEF WorkerFits, Holds, RowOf
<1>9. HandsIn(v) => pc[v] = "join"
  BY DEF HandsIn
<1>. HIDE DEF w, j, r, t
<1>10. Ours(r, v) \/ Over(r)
  BY <1>7, <1>8
<1>11. r # Blank /\ j \in enqueued
  BY <1>1, <1>10, RowNames, RowEnqueued DEF r
<1>12. UNCHANGED <<mem, result>> /\ (Ours(r, v) => Ours(row'[j], v)) /\ (Over(r) => Over(row'[j]))
       /\ (io'[t] = Idle
            \/ /\ Hand(io'[t]) /\ ~io'[t].withResult /\ io'[t].job = j /\ Ours(io'[t].snap, v)
               /\ io'[t].base = r /\ row'[j] = r)
  <2>1. CASE Flush(t) \/ CommitRow(t)
    <3>1. w.stage = "commit" => w.base # Blank
      BY <1>3, RowNames
    <3>2. /\ Ours(r, v) /\ Ours(w.snap, v) /\ (w.stage = "commit" => Ours(w.base, v)) => Ours(row'[j], v)
          /\ Over(r) /\ Ours(w.snap, v) /\ (w.stage = "commit" => Ours(w.base, v) \/ Over(w.base))
               => Over(row'[j])
          /\ Advance(t) /\ UNCHANGED <<result, mem>>
      BY <1>1, <1>11, <2>1, <3>1, Fate DEF w, j, r
    <3>3. io'[t] = Idle
      BY <1>1, <1>3, <3>2, Advances DEF Step, TypeOK, w
    <3>4. Ours(r, v) /\ w.stage = "commit" => Ours(w.base, v)
      BY <1>3, RowNames
    <3>. QED
      BY <1>3, <3>2, <3>3, <3>4
  <2>2. CASE ReadRow(t)
    <3>1. /\ io'[t].stage = "commit" /\ io'[t].job = j /\ Hand(io'[t]) /\ io'[t].snap = w.snap
          /\ io'[t].base = r /\ io'[t].withResult = w.withResult /\ UNCHANGED <<row, result, mem>>
      BY <1>1, <2>2, ReadIs DEF w, j, r
    <3>2. ~io'[t].withResult
      BY <1>3, <3>1
    <3>. QED
      BY <1>3, <3>1, <3>2 DEF r
  <2>3. CASE StoreResult(t)
    BY <1>3, <2>3 DEF StoreResult, Hand, w
  <2>. QED
    BY <1>1, <2>1, <2>2, <2>3, WritesMove DEF Write, t
<1>13. RowOf(v)' = row'[j] /\ MemOf(v)' = MemOf(v)
  BY <1>3, <1>4, <1>12 DEF RowOf, MemOf
<1>14. Holds(v)'
  BY <1>3, <1>4, <1>5, <1>8, <1>9, <1>12, <1>13 DEF Holds
<1>15. RunWrites(v)'
  BY <1>5, <1>6 DEF RunWrites
<1>16. HbWrites(v)'
  BY <1>3, <1>4, <1>10, <1>12, <1>13 DEF HbWrites, t
<1>17. WorkerFits(v)'
  BY <1>4, <1>14, <1>15, <1>16 DEF WorkerFits
<1>18. WriteSafe(t)
  <2>1. \A u \in Workers : Mine(t, u) \/ RowSafe(r, row'[j], u)
    BY <1>10, <1>12, RowNames DEF Mine, t, RowSafe, Ours
  <2>2. row'[j].status # "cancelled" /\ ~(r = Blank)
    BY <1>10, <1>11, <1>12, RowNames, StatusNames DEF Ours
  <2>. QED
    BY <1>1, <1>11, <1>12, <2>1, <2>2 DEF WriteSafe, w, j, r
<1>19. WriteOwn(t)
  <2>1. \A u \in Workers : Mine(t, u) => u = v
    BY ThreadsApart, JoinPlaces DEF Mine, t
  <2>. QED
    BY <1>17, <2>1, ThreadsApart DEF WriteOwn, t
<1>. QED
  BY <1>1, <1>18, <1>19, WriteFrame

\* A pipeline's write.
LEMMA PipelineWrite ==
    ASSUME Step, NEW g \in Graphs, Write(Gt(g))
    PROVE  Safely
<1> DEFINE t == Gt(g)
           w == io[t]
           j == w.job
           r == row[j]
<1>1. w # Idle /\ w.stage # "idle"
  BY DEF Write, Flush, ReadRow, CommitRow, FlushLost, StoreResult, ResultLost, Idle
<1>2. PipelineFits(g)
  BY DEF Step, RunnerInv
<1>3. /\ j = graph[g].job /\ graph[g].pc \in {"work", "deliver", "enqueue"}
      /\ \/ graph[g].pc \in {"work", "deliver"} /\ OwnHand(w, graph[g].worker)
         \/ /\ graph[g].pc = "enqueue" /\ w.stage # "idle"
            /\ Hand(w) => Over(w.snap)
            /\ w.stage = "commit" => w.base # Blank /\ (Over(w.base) => Over(r))
            /\ w.stage = "result" => Over(r)
  BY <1>1, <1>2 DEF PipelineFits, GraphWrites
<1>4. PICK v \in Workers : v = graph[g].worker /\ pc[v] = "join" /\ gr[v] = g
  BY <1>2, <1>3 DEF PipelineFits, Joined
<1>5. WorkerFits(v) /\ cur[v] = j
  BY <1>3, <1>4 DEF Step, RunnerInv, WorkerFits, Place
<1>6. t \in Threads /\ j \in Jobs /\ WriteMoves(t) /\ ProcOf[v] \in Procs /\ ProcOf[v] # ApiProc
  BY <1>4, WritesMove, ThreadNames, JobQueueAssumption DEF Step, Apart
<1>7. ProcOfThread(t) = ProcOf[v]
  <2>1. v # NoWorker
    BY <1>4, JobQueueAssumption
  <2>. QED
    BY <1>4, <2>1, StatusNames DEF ProcOfThread, GraphProc, Gt
<1>8. /\ Place(v)'
      /\ (AtWork(v)' <=> AtWork(v)) /\ (HandsIn(v)' <=> HandsIn(v)) /\ (AfterWork(v)' <=> AfterWork(v))
      /\ pc'[v] = pc[v] /\ cur'[v] = cur[v] /\ gr'[v] = gr[v] /\ graph'[g] = graph[g] /\ bg'[g] = bg[g]
      /\ \A s \in Threads : s # t => io'[s] = io[s]
  BY <1>4, <1>5, <1>6, WriteLeaves DEF WorkerFits
<1>9. io'[Run(v)] = io[Run(v)] /\ io'[Hb(v)] = io[Hb(v)] /\ io'[Bt(g)] = io[Bt(g)]
  BY <1>4, <1>8, ThreadNames, ThreadsApart
<1>10. /\ graph[g].pc \in {"work", "deliver"} => AtWork(v) /\ ~HandsIn(v) /\ ~AfterWork(v)
       /\ graph[g].pc = "enqueue" => HandsIn(v) /\ ~AtWork(v) /\ ~AfterWork(v)
  BY <1>4 DEF AtWork, HandsIn, AfterWork
<1>11. /\ AtWork(v) => Ours(r, v) /\ Ours(MemOf(v), v)
       /\ HandsIn(v) => Over(MemOf(v)) /\ (Over(r) \/ (Ours(r, v) /\ Hand(w)))
  BY <1>4, <1>5 DEF WorkerFits, Holds, RowOf
<1>12. graph[g].pc # "enqueue" => ~w.withResult
  BY DEF Step, TypeOK, Awaited
<1>. HIDE DEF w, j, r, t
<1>13. Ours(r, v) \/ Over(r)
  BY <1>3, <1>4, <1>10, <1>11
<1>14. r # Blank /\ j \in enqueued
  BY <1>6, <1>13, RowNames, RowEnqueued DEF r
<1>15. ASSUME Ours(r, v) => Ours(row'[j], v) \/ Over(row'[j]), Over(r) => Over(row'[j]),
              graph[g].pc # "enqueue" => Ours(row'[j], v) /\ mem'[ProcOf[v]][j] = mem[ProcOf[v]][j],
              graph[g].pc = "enqueue" => Over(row'[j]) \/ (Ours(row'[j], v) /\ Hand(io'[t])),
              mem'[ProcOf[v]][j] = mem[ProcOf[v]][j] \/ (Over(mem'[ProcOf[v]][j]) /\ Over(r)),
              j \in result' => j \in result \/ Over(row'[j]),
              GraphWrites(g)'
       PROVE  Safely
  <2>1. RowOf(v)' = row'[j] /\ MemOf(v)' = mem'[ProcOf[v]][j] /\ MemOf(v) = mem[ProcOf[v]][j]
    BY <1>5, <1>8 DEF RowOf, MemOf
  <2>2. Holds(v)'
    BY <1>3, <1>4, <1>8, <1>10, <1>11, <1>15, <2>1 DEF Holds, t
  <2>3. io[Run(v)] = Idle
    BY <1>4, <1>5 DEF WorkerFits, RunWrites
  <2>4. HbWrites(v)'
    <3>1. Over(RowOf(v)) => Over(RowOf(v)')
      BY <1>5, <1>15, <2>1 DEF RowOf, r
    <3>. QED
      BY <1>5, <1>8, <1>9, <3>1 DEF WorkerFits, HbWrites
  <2>5. WorkerFits(v)'
    BY <1>8, <1>9, <2>2, <2>3, <2>4 DEF WorkerFits, RunWrites
  <2>6. PipelineFits(g)'
    <3>1. Joined(g)'
      BY <1>2, <1>3, <1>4, <1>8 DEF PipelineFits, Joined
    <3>2. bg[g] = "off" /\ graph[g].pc # "done"
      BY <1>2, <1>3 DEF PipelineFits, Joined
    <3>3. Delivered(g)'
      BY <1>8, <3>2 DEF Delivered
    <3>4. BgWrites(g)'
      BY <1>2, <1>8, <1>9, <3>2 DEF PipelineFits, BgWrites
    <3>. QED
      BY <1>15, <3>1, <3>3, <3>4 DEF PipelineFits
  <2>7. \A u \in Workers : Mine(t, u) => u = v
    <3>1. SUFFICES ASSUME NEW u \in Workers, Mine(t, u) PROVE u = v
      OBVIOUS
    <3>2. pc[u] = "join" /\ gr[u] = g
      BY <3>1, ThreadsApart, JoinPlaces DEF Mine, t
    <3>. QED
      BY <1>4, <3>2, JoinPlaces
  <2>8. WriteOwn(t)
    BY <2>5, <2>6, <2>7, ThreadsApart DEF WriteOwn, t
  <2>9. WriteSafe(t)
    <3>1. \A u \in Workers : Mine(t, u) \/ RowSafe(r, row'[j], u)
      BY <1>4, <1>13, <1>15, RowNames DEF Mine, t, RowSafe, Ours
    <3>2. row'[j].status # "cancelled" /\ ~(r = Blank)
      BY <1>13, <1>14, <1>15, RowNames, StatusNames DEF Ours
    <3>. QED
      BY <1>6, <1>7, <1>14, <1>15, <3>1, <3>2 DEF WriteSafe, w, j, r
  <2>. QED
    BY <1>6, <2>8, <2>9, WriteFrame
<1>16. CASE Flush(t) \/ CommitRow(t)
  <2>1. w.stage = "commit" => w.base # Blank
    BY <1>3, <1>4, RowNames DEF OwnHand
  <2>2. /\ Ours(r, v) /\ Ours(w.snap, v) /\ (w.stage = "commit" => Ours(w.base, v)) => Ours(row'[j], v)
        /\ Over(w.snap) /\ (w.stage = "commit" => (Over(w.base) => Over(r))) => Over(row'[j])
        /\ Advance(t) /\ Hand(w) /\ UNCHANGED <<result, mem>>
    BY <1>6, <1>14, <1>16, <2>1, Fate DEF w, j, r
  <2>3. graph[g].pc # "enqueue" => Ours(row'[j], v)
    BY <1>3, <1>4, <1>10, <1>11, <2>2 DEF OwnHand
  <2>4. graph[g].pc = "enqueue" => Over(row'[j])
    BY <1>3, <2>2
  <2>5. \/ ~w.withResult /\ io'[t] = Idle
        \/ w.withResult /\ io'[t] # Idle /\ io'[t].stage = "result" /\ io'[t].job = j
    BY <1>6, <2>2, Advances DEF Step, TypeOK, w, j
  <2>6. GraphWrites(g)'
    BY <1>3, <1>8, <1>12, <2>4, <2>5 DEF GraphWrites, Hand, t
  <2>7. graph[g].pc # "enqueue" => ~Over(r)
    BY <1>3, <1>4, <1>10, <1>11, RowNames
  <2>. QED
    BY <1>15, <2>2, <2>3, <2>4, <2>6, <2>7
<1>17. CASE ReadRow(t)
  <2>1. /\ io'[t].stage = "commit" /\ io'[t].job = j /\ Hand(io'[t]) /\ w.stage = "row"
        /\ io'[t].snap = w.snap /\ io'[t].base = r /\ row'[j] = r /\ UNCHANGED <<row, result, mem>>
    BY <1>6, <1>17, ReadIs DEF w, j, r
  <2>2. OwnHand(w, v) /\ graph[g].pc # "enqueue" => OwnHand(io'[t], v)
    BY <1>3, <1>4, <1>10, <1>11, <2>1 DEF OwnHand
  <2>3. row'[io'[t].job] = r
    BY <2>1
  <2>4. GraphWrites(g)'
    BY <1>3, <1>4, <1>8, <1>14, <2>1, <2>2, <2>3 DEF GraphWrites, Hand, t
  <2>. QED
    BY <1>3, <1>4, <1>10, <1>11, <1>15, <2>1, <2>4
<1>18. CASE StoreResult(t)
  <2>1. /\ w.stage = "result" /\ io'[t] = Idle /\ row'[j] = r /\ result' = result \cup {j}
        /\ Over(r) => Over(mem'[ProcOf[v]][j])
    BY <1>6, <1>7, <1>14, <1>18, StoreIs DEF w, j, r
  <2>2. graph[g].pc = "enqueue" /\ Over(r)
    BY <1>3, <2>1 DEF OwnHand, Hand
  <2>3. GraphWrites(g)'
    BY <2>1 DEF GraphWrites, t
  <2>. QED
    BY <1>15, <2>1, <2>2, <2>3
<1>. QED
  BY <1>6, <1>16, <1>17, <1>18, WritesMove DEF Write, t

\* A write of the background services.
LEMMA BackgroundWrite ==
    ASSUME Step, NEW g \in Graphs, Write(Bt(g))
    PROVE  Safely
<1> DEFINE t == Bt(g)
           w == io[t]
           j == w.job
           r == row[j]
<1>1. w # Idle /\ w.stage # "idle"
  BY DEF Write, Flush, ReadRow, CommitRow, FlushLost, StoreResult, ResultLost, Idle
<1>2. PipelineFits(g)
  BY DEF Step, RunnerInv
<1>3. /\ j = graph[g].job /\ graph[g].pc = "done"
      /\ Hand(w) => Over(w.snap)
      /\ w.stage = "commit" => Over(w.base)
  BY <1>1, <1>2 DEF PipelineFits, BgWrites
<1>4. PICK v \in Workers : v = graph[g].worker
  BY <1>2, <1>3 DEF PipelineFits, Joined
<1>5. t \in Threads /\ j \in Jobs /\ WriteMoves(t) /\ ProcOf[v] \in Procs /\ ProcOf[v] # ApiProc
  BY <1>4, WritesMove, ThreadNames, JobQueueAssumption DEF Step, Apart
<1>6. ProcOfThread(t) = ProcOf[v]
  <2>1. v # NoWorker
    BY <1>4, JobQueueAssumption
  <2>. QED
    BY <1>4, <2>1, StatusNames DEF ProcOfThread, GraphProc, Bt
<1>7. Over(r) /\ Over(mem[ProcOf[v]][j]) /\ io[Gt(g)] = Idle
  BY <1>2, <1>3, <1>4 DEF PipelineFits, Delivered, GraphWrites
<1>8. /\ graph'[g] = graph[g] /\ bg'[g] = bg[g] /\ seen'[t] = seen[t]
      /\ \A s \in Threads : s # t => io'[s] = io[s]
  BY <1>5, WriteLeaves
<1>9. io'[Gt(g)] = io[Gt(g)]
  BY <1>8, ThreadNames, ThreadsApart
<1>. HIDE DEF w, j, r, t
<1>10. r # Blank /\ j \in enqueued
  BY <1>5, <1>7, RowNames, RowEnqueued DEF r
<1>11. /\ Over(row'[j])
       /\ mem'[ProcOf[v]][j] = mem[ProcOf[v]][j] \/ Over(mem'[ProcOf[v]][j])
       /\ \/ io'[t] = Idle
          \/ io'[t].stage = "result" /\ io'[t].job = j
          \/ io'[t].stage = "commit" /\ io'[t].job = j /\ Over(io'[t].snap) /\ Over(io'[t].base)
  <2>1. CASE Flush(t) \/ CommitRow(t)
    <3>1. w.stage = "commit" => w.base # Blank
      BY <1>3, RowNames
    <3>2. /\ Over(w.snap) /\ (w.stage = "commit" => (Over(w.base) => Over(r))) => Over(row'[j])
          /\ Advance(t) /\ Hand(w) /\ UNCHANGED <<result, mem>>
      BY <1>5, <1>10, <2>1, <3>1, Fate DEF w, j, r
    <3>3. io'[t] = Idle \/ (io'[t].stage = "result" /\ io'[t].job = j)
      BY <1>5, <3>2, Advances DEF Step, TypeOK, w, j
    <3>. QED
      BY <1>3, <1>7, <3>2, <3>3
  <2>2. CASE ReadRow(t)
    <3>1. /\ io'[t].stage = "commit" /\ io'[t].job = j /\ Hand(w)
          /\ io'[t].snap = w.snap /\ io'[t].base = r /\ row'[j] = r /\ UNCHANGED <<row, result, mem>>
      BY <1>5, <2>2, ReadIs DEF w, j, r
    <3>. QED
      BY <1>3, <1>7, <3>1
  <2>3. CASE StoreResult(t)
    BY <1>5, <1>6, <1>7, <1>10, <2>3, StoreIs DEF w, j, r
  <2>. QED
    BY <1>5, <2>1, <2>2, <2>3, WritesMove DEF Write, t
<1>12. Over(mem'[ProcOf[v]][j])
  BY <1>7, <1>11
<1>13. PipelineFits(g)'
  <2>1. Joined(g)'
    BY <1>2, <1>3, <1>4, <1>8 DEF PipelineFits, Joined
  <2>2. Delivered(g)'
    BY <1>2, <1>3, <1>4, <1>8, <1>11, <1>12 DEF PipelineFits, Delivered, t
  <2>3. GraphWrites(g)'
    BY <1>7, <1>9 DEF GraphWrites
  <2>4. BgWrites(g)'
    BY <1>3, <1>8, <1>11 DEF BgWrites, Hand, t
  <2>. QED
    BY <2>1, <2>2, <2>3, <2>4 DEF PipelineFits
<1>14. WriteSafe(t)
  <2>1. \A u \in Workers : RowSafe(r, row'[j], u)
    BY <1>7, <1>11 DEF RowSafe
  <2>2. row'[j].status # "cancelled" /\ ~(r = Blank)
    BY <1>10, <1>11, RowNames
  <2>. QED
    BY <1>5, <1>6, <1>7, <1>10, <1>11, <1>12, <2>1, <2>2 DEF WriteSafe, w, j, r
<1>15. WriteOwn(t)
  <2>1. \A u \in Workers : ~Mine(t, u)
    BY ThreadsApart, JoinPlaces DEF Mine, t
  <2>. QED
    BY <1>13, <2>1, ThreadsApart DEF WriteOwn, t
<1>. QED
  BY <1>5, <1>14, <1>15, WriteFrame

\* A new job gets its row.
LEMMA FateNew ==
    ASSUME Step, NEW t \in Threads, Flush(t) \/ CommitRow(t), row[io[t].job] = Blank,
           io[t].snap.status = "pending", io[t].stage = "commit" => io[t].base = Blank
    PROVE  row'[io[t].job].status = "pending" /\ Advance(t) /\ UNCHANGED <<result, mem>>
<1> DEFINE w == io[t]
           s == w.snap
<1>1. w.job \in Jobs /\ s \in Entry
  BY DEF Flush, CommitRow, Step, TypeOK, IoOK, InFlight
<1>2. Advance(t) /\ UNCHANGED <<result, mem>>
  BY DEF Flush, CommitRow
<1>3. CASE Flush(t)
  <2>1. row'[w.job] = Persist(Blank, s)
    BY <1>1, <1>3 DEF Flush, Step, TypeOK, RowOK
  <2>. QED
    BY <1>1, <1>2, <2>1, PersistNew
<1>4. CASE CommitRow(t)
  <2>1. w.base = Blank /\ w.stage = "commit"
    BY <1>4 DEF CommitRow
  <2>2. row'[w.job] = Columns(Blank, Blank, Persist(Blank, s))
    BY <1>1, <1>4, <2>1 DEF CommitRow, Columns, Step, TypeOK, RowOK
  <2>. HIDE DEF w, s
  <2>3. Persist(Blank, s).status = "pending"
    BY <1>1, PersistNew DEF s, w
  <2>4. Columns(Blank, Blank, Persist(Blank, s)).status = "pending"
    BY <2>3, ColumnsAre, RowNames
  <2>. QED
    BY <1>2, <2>2, <2>4 DEF w
<1>. QED
  BY <1>3, <1>4

\* A request's write.
LEMMA RequestWrite ==
    ASSUME Step, NEW q \in Requests, Write(Rt(q))
    PROVE  Safely
<1> DEFINE t == Rt(q)
           w == io[t]
           j == w.job
           r == row[j]
<1>1. w # Idle /\ w.stage # "idle"
  BY DEF Write, Flush, ReadRow, CommitRow, FlushLost, StoreResult, ResultLost, Idle
<1>2. RequestFits(q)
  BY DEF Step, RunnerInv
<1>3. /\ Hand(w) /\ ~w.withResult /\ j \in enqueued
      /\ Heals(w) \/ (Enqueues(w) /\ \A s \in Requests : io[Rt(s)].job = j => s = q)
  BY <1>1, <1>2 DEF RequestFits, ApiWrites
<1>4. t \in Threads /\ j \in Jobs /\ WriteMoves(t) /\ ProcOfThread(t) = ApiProc
  BY WritesMove, ThreadNames, StatusNames DEF ProcOfThread, Rt
<1>5. /\ api'[q] = api[q] /\ seen'[t] = seen[t] /\ enqueued' = enqueued
      /\ \A s \in Threads : s # t => io'[s] = io[s]
      /\ result \subseteq result' /\ (happened'["poll"] = 0 => happened["poll"] = 0)
  BY <1>4, WriteLeaves DEF WriteMoves, Step, CountsKept, Kinds
<1>. HIDE DEF w, j, r, t
<1>6. ASSUME UNCHANGED <<result, mem>>, Over(r) => Over(row'[j]),
             \/ Over(r) /\ Over(row'[j])
             \/ /\ r = Blank /\ row'[j].status \in {"pending", Unset}
                /\ \A s \in Requests : io[Rt(s)].job = j => s = q,
             ApiWrites(q)', io'[t].job \in {j, NoJob}
      PROVE  Safely
  <2>1. \A u \in Workers : RowSafe(r, row'[j], u)
    BY <1>6, RowNames, StatusNames DEF RowSafe
  <2>2. row'[j].status # "cancelled"
    BY <1>6, RowNames, StatusNames, UnsetIsNew
  <2>3. r = Blank => \A s \in Requests : Rt(s) # t => io[Rt(s)].job # j
    BY <1>6, RowNames DEF t
  <2>4. WriteSafe(t)
    BY <1>3, <1>4, <1>6, <2>1, <2>2, <2>3 DEF WriteSafe, w, j, r
  <2>5. Polls(q)'
    <3>1. \A k \in Jobs : Over(row[k]) => Over(row'[k])
      BY <1>4, <1>6 DEF WriteMoves, r, j, w
    <3>2. api[q].pc # "idle" => api[q].job \in Jobs
      BY DEF Step, TypeOK, ApiOK
    <3>. QED
      BY <1>2, <1>5, <3>1, <3>2 DEF RequestFits, Polls, Known, t
  <2>6. \A u \in Workers : ~Mine(t, u)
    BY ThreadsApart, JoinPlaces DEF Mine, t
  <2>7. WriteOwn(t)
    BY <1>6, <2>5, <2>6, ThreadsApart DEF WriteOwn, RequestFits, t, w, j
  <2>. QED
    BY <1>4, <2>4, <2>7, WriteFrame
<1>7. CASE ReadRow(t)
  <2>1. /\ io'[t].stage = "commit" /\ io'[t].job = j /\ Hand(io'[t]) /\ w.stage = "row"
        /\ io'[t].snap = w.snap /\ io'[t].base = r /\ io'[t].withResult = w.withResult
        /\ UNCHANGED <<row, result, mem>> /\ row'[j] = r
    BY <1>4, <1>7, ReadIs DEF w, j, r
  <2>2. ~io'[t].withResult
    BY <1>3, <2>1
  <2>3. row'[io'[t].job] = r
    BY <2>1
  <2>4. CASE Heals(w)
    <3>1. Over(r) /\ Over(w.snap)
      BY <2>4 DEF Heals, r, j
    <3>2. Over(io'[t].snap) /\ Over(row'[io'[t].job]) /\ Over(io'[t].base)
      BY <2>1, <2>3, <3>1
    <3>3. ApiWrites(q)'
      BY <1>3, <1>5, <2>1, <2>2, <3>2 DEF ApiWrites, Heals, Hand, t
    <3>. QED
      BY <1>6, <2>1, <3>1, <3>3
  <2>5. CASE Enqueues(w) /\ \A s \in Requests : io[Rt(s)].job = j => s = q
    <3>1. r = Blank /\ w.snap.status = "pending"
      BY <2>5 DEF Enqueues, r, j
    <3>2. \A s \in Requests : io'[Rt(s)].job = j => s = q
      BY <1>5, <2>5, ThreadNames, ThreadsApart DEF t
    <3>3. ApiWrites(q)'
      BY <1>3, <1>5, <2>1, <2>2, <2>3, <3>1, <3>2 DEF ApiWrites, Enqueues, Hand, t
    <3>. QED
      BY <1>6, <2>1, <2>5, <3>1, <3>3, RowNames
  <2>. QED
    BY <1>3, <2>4, <2>5
<1>8. CASE Flush(t) \/ CommitRow(t)
  <2>1. CASE Heals(w)
    <3>1. Over(r) /\ Over(w.snap) /\ (w.stage = "commit" => w.base # Blank)
      BY <2>1, RowNames DEF Heals, r, j
    <3>2. Over(row'[j]) /\ Advance(t) /\ UNCHANGED <<result, mem>>
      BY <1>4, <1>8, <3>1, Fate, RowNames DEF w, j, r
    <3>3. io'[t] = Idle
      BY <1>3, <1>4, <3>2, Advances DEF Step, TypeOK, w
    <3>. QED
      BY <1>6, <3>1, <3>2, <3>3 DEF ApiWrites, t, Idle
  <2>2. CASE Enqueues(w) /\ \A s \in Requests : io[Rt(s)].job = j => s = q
    <3>1. r = Blank /\ w.snap.status = "pending" /\ (w.stage = "commit" => w.base = Blank)
      BY <2>2 DEF Enqueues, r, j
    <3>2. row'[j].status = "pending" /\ Advance(t) /\ UNCHANGED <<result, mem>>
      BY <1>4, <1>8, <3>1, FateNew DEF w, j, r
    <3>3. io'[t] = Idle
      BY <1>3, <1>4, <3>2, Advances DEF Step, TypeOK, w
    <3>. QED
      BY <1>6, <2>2, <3>1, <3>2, <3>3, RowNames DEF ApiWrites, t, Idle
  <2>. QED
    BY <1>3, <2>1, <2>2
<1>9. CASE StoreResult(t)
  BY <1>3, <1>9 DEF StoreResult, Hand, w
<1>. QED
  BY <1>4, <1>7, <1>8, <1>9, WritesMove DEF Write, t

LEMMA WriteStep ==
    ASSUME Step, NEW t \in Threads, Write(t)
    PROVE  Safely
<1>1. \/ \E v \in Workers : t = Run(v) \/ t = Hb(v)
      \/ \E g \in Graphs : t = Gt(g) \/ t = Bt(g)
      \/ \E q \in Requests : t = Rt(q)
  BY DEF Threads, Run, Hb, Gt, Bt, Rt
<1>. QED
  BY <1>1, RunWrite, HeartbeatWrite, PipelineWrite, BackgroundWrite, RequestWrite

-----------------------------------------------------------------------------
(* Pipelines and background services *)

\* The cache of a pipeline's process changes for its own job only.
MemMoves(g) ==
    LET v == graph[g].worker
        j == graph[g].job
    IN  \/ UNCHANGED mem
        \/ /\ v \in Workers /\ j \in Jobs /\ MemElsewhere(ProcOf[v], j)
           /\ \/ Over(row[j]) /\ Over(mem'[ProcOf[v]][j])
              \/ ~Over(row[j]) /\ pc[v] = "join" /\ gr[v] = g

PipelineMoves(g) ==
    /\ UNCHANGED <<row, result, cancelReq, pc, cur, gr, beating, abandoned, api, enqueued>>
    /\ \A h \in Graphs \ {g} : graph'[h] = graph[h] /\ bg'[h] = bg[h]
    /\ IoElsewhere({Gt(g), Bt(g)}) /\ SeenElsewhere({Bt(g)})
    /\ MemMoves(g)

LEMMA PipelineLocal ==
    ASSUME Step, NEW g \in Graphs, PipelineMoves(g), PipelineFits(g)',
           \/ \A u \in Workers : pc[u] = "join" /\ gr[u] = g => WorkerFits(u)'
           \/ /\ graph'[g] = graph[g] /\ io'[Gt(g)] = io[Gt(g)]
              /\ UNCHANGED mem \/ Over(row[graph[g].job])
    PROVE  Safely
<1>1. /\ UNCHANGED <<row, result, cancelReq, pc, cur, gr, beating, abandoned, api, enqueued>>
      /\ \A h \in Graphs \ {g} : graph'[h] = graph[h] /\ bg'[h] = bg[h]
      /\ IoElsewhere({Gt(g), Bt(g)}) /\ SeenElsewhere({Bt(g)})
      /\ MemMoves(g)
  BY DEF PipelineMoves
<1>2. \A q \in Procs, k \in Jobs :
         \/ mem'[q][k] = mem[q][k]
         \/ Over(row[k]) /\ Over(mem'[q][k]) /\ q # ApiProc
         \/ /\ ~Over(row[k]) /\ q # ApiProc /\ k = graph[g].job
            /\ graph[g].worker \in Workers
            /\ pc[graph[g].worker] = "join" /\ gr[graph[g].worker] = g
  BY <1>1 DEF MemMoves, MemElsewhere, Step, Apart
<1>3. ASSUME NEW u \in Workers PROVE WorkerFits(u)'
  <2>1. WorkerFits(u)
    BY DEF Step, RunnerInv
  <2>2. CASE pc[u] = "join" /\ gr[u] = g /\ \A s \in Workers : pc[s] = "join" /\ gr[s] = g => WorkerFits(s)'
    BY <2>2
  <2>3. CASE ~(pc[u] = "join" /\ gr[u] = g)
             \/ (graph'[g] = graph[g] /\ io'[Gt(g)] = io[Gt(g)] /\ (UNCHANGED mem \/ Over(row[graph[g].job])))
    <3>1. AtWork(u) \/ HandsIn(u) \/ AfterWork(u) =>
            cur[u] \in Jobs /\ cur[u] # NoJob /\ ProcOf[u] \in Procs /\ pc[u] # "exiting"
      BY RunnerHas DEF AtWork, HandsIn, AfterWork
    <3>2. AtWork(u) => ~Over(RowOf(u))
      BY RunnerHas, RowNames
    <3>3. AtWork(u) \/ HandsIn(u) \/ AfterWork(u) =>
            MemOf(u)' = MemOf(u) \/ (Over(RowOf(u)) /\ Over(MemOf(u)'))
      <4>1. SUFFICES ASSUME AtWork(u) \/ HandsIn(u) \/ AfterWork(u), ~Over(RowOf(u)),
                            MemOf(u)' # MemOf(u)
                     PROVE  FALSE
        BY <1>1, <1>2, <3>1 DEF MemOf, RowOf
      <4>2. /\ cur[u] = graph[g].job /\ ~UNCHANGED mem
            /\ graph[g].worker \in Workers
            /\ pc[graph[g].worker] = "join" /\ gr[graph[g].worker] = g
        BY <1>1, <1>2, <3>1, <4>1 DEF MemOf, RowOf
      <4>3. cur[graph[g].worker] = graph[g].job
        BY <4>2, JoinPlaces
      <4>4. u = graph[g].worker
        BY <3>1, <4>1, <4>2, <4>3 DEF Step, RunnerInv, SingleRunner
      <4>5. ~Over(row[graph[g].job])
        BY <4>1, <4>2 DEF RowOf
      <4>. QED
        BY <2>3, <4>2, <4>4, <4>5
    <3>4. MemSafe(u)
      BY <2>1, <3>2, <3>3 DEF WorkerFits, Holds, MemSafe
    <3>5. io'[Run(u)] = io[Run(u)] /\ io'[Hb(u)] = io[Hb(u)] /\ seen'[Run(u)] = seen[Run(u)]
      BY <1>1, ThreadNames, ThreadsApart DEF IoElsewhere, SeenElsewhere
    <3>6. pc[u] = "join" => graph'[gr[u]] = graph[gr[u]] /\ io'[Gt(gr[u])] = io[Gt(gr[u])]
      BY <1>1, <2>3, JoinPlaces, ThreadNames, ThreadsApart DEF IoElsewhere
    <3>7. Apartly(u)
      BY <1>1, <3>5, <3>6 DEF Apartly, RowSafe
    <3>. QED
      BY <2>1, <3>4, <3>7, WorkerFrame DEF Step, TypeOK
  <2>. QED
    BY <2>2, <2>3
<1>4. ASSUME NEW h \in Graphs, h # g PROVE PipelineFits(h)'
  <2>1. PipelineFits(h)
    BY DEF Step, RunnerInv
  <2>2. io'[Gt(h)] = io[Gt(h)] /\ io'[Bt(h)] = io[Bt(h)] /\ seen'[Bt(h)] = seen[Bt(h)]
    BY <1>1, <1>4, ThreadNames, ThreadsApart DEF IoElsewhere, SeenElsewhere
  <2>3. graph[h].pc = "done" => Over(mem'[ProcOf[graph[h].worker]][graph[h].job])
    <3>1. SUFFICES ASSUME graph[h].pc = "done" PROVE Over(mem'[ProcOf[graph[h].worker]][graph[h].job])
      OBVIOUS
    <3>2. /\ graph[h].worker \in Workers /\ graph[h].job \in Jobs /\ ProcOf[graph[h].worker] \in Procs
          /\ Over(row[graph[h].job]) /\ Over(mem[ProcOf[graph[h].worker]][graph[h].job])
      BY <2>1, <3>1, JobQueueAssumption DEF PipelineFits, Joined, Delivered, Step, TypeOK, PipelineOK
    <3>. QED
      BY <1>2, <3>2
  <2>4. graph[h].pc \in {"begin", "work", "deliver", "enqueue"} =>
          pc'[graph[h].worker] = "join" /\ gr'[graph[h].worker] = h
    BY <1>1, <2>1 DEF PipelineFits, Joined
  <2>. QED
    BY <1>1, <1>4, <2>1, <2>2, <2>3, <2>4, PipelineFrame DEF Step, TypeOK
<1>5. ASSUME NEW r \in Requests PROVE RequestFits(r)'
  <2>1. \A s \in Requests : io'[Rt(s)] = io[Rt(s)] /\ seen'[Rt(s)] = seen[Rt(s)]
    BY <1>1, ThreadNames, ThreadsApart DEF IoElsewhere, SeenElsewhere
  <2>2. happened'["poll"] = 0 => happened["poll"] = 0
    BY DEF Step, CountsKept, Kinds
  <2>. QED
    BY <1>1, <2>1, <2>2, RequestFrame DEF Step, TypeOK, RunnerInv
<1>6. ASSUME NEW j \in Jobs PROVE RowFits(j)'
  <2>1. mem'[ApiProc][j] = mem[ApiProc][j]
    BY <1>2, JobQueueAssumption
  <2>2. happened'["crash"] = 0 => happened["crash"] = 0
    BY DEF Step, CountsKept, Kinds
  <2>. QED
    BY <1>1, <2>1, <2>2, RowFrame DEF Step, TypeOK, RunnerInv
<1>7. SingleRunner' /\ NothingTakenBack'
  BY <1>1 DEF SingleRunner, NothingTakenBack, Step, RunnerInv
<1>8. \A j \in Jobs : Over(row[j]) => Over(row'[j])
  BY <1>1
<1>. QED
  BY <1>3, <1>4, <1>5, <1>6, <1>7, <1>8 DEF Safely, RunnerInv

\* A pipeline that has not ended, and the worker that waits for it.
LEMMA AliveHas ==
    ASSUME Step, NEW g \in Graphs, graph[g].pc \in {"begin", "work", "deliver", "enqueue"}
    PROVE  \E v \in Workers :
             LET j == graph[g].job IN
             /\ v = graph[g].worker /\ pc[v] = "join" /\ gr[v] = g /\ cur[v] = j
             /\ j \in Jobs /\ ProcOf[v] \in Procs /\ GraphProc(g) = ProcOf[v]
             /\ WorkerFits(v) /\ io[Run(v)] = Idle /\ mem[ProcOf[v]][j] \in Entry
             /\ bg[g] = "off" /\ io[Bt(g)] = Idle
             /\ \A u \in Workers : pc[u] = "join" /\ gr[u] = g => u = v
             /\ graph[g].pc # "enqueue" => /\ AtWork(v) /\ Ours(row[j], v) /\ Ours(mem[ProcOf[v]][j], v)
             /\ graph[g].pc = "enqueue" => /\ HandsIn(v) /\ Over(mem[ProcOf[v]][j])
                                           /\ Over(row[j]) \/ (Ours(row[j], v) /\ Hand(io[Gt(g)]))
<1> DEFINE v == graph[g].worker
           j == graph[g].job
<1>1. PipelineFits(g)
  BY DEF Step, RunnerInv
<1>2. v \in Workers /\ pc[v] = "join" /\ gr[v] = g
  BY <1>1 DEF PipelineFits, Joined
<1>3. cur[v] = j /\ WorkerFits(v) /\ io[Run(v)] = Idle
  BY <1>2 DEF Step, RunnerInv, WorkerFits, Place, RunWrites
<1>4. j \in Jobs /\ ProcOf[v] \in Procs /\ GraphProc(g) = ProcOf[v] /\ mem[ProcOf[v]][j] \in Entry
  BY <1>2, JobQueueAssumption DEF GraphProc, Step, TypeOK, PipelineOK, MemOK
<1>5. bg[g] = "off" /\ io[Bt(g)] = Idle
  BY <1>1 DEF PipelineFits, Joined, BgWrites
<1>6. \A u \in Workers : pc[u] = "join" /\ gr[u] = g => u = v
  BY JoinPlaces
<1>7. (graph[g].pc # "enqueue" => AtWork(v)) /\ (graph[g].pc = "enqueue" => HandsIn(v))
  BY <1>2 DEF AtWork, HandsIn
<1>8. /\ AtWork(v) => Ours(row[j], v) /\ Ours(mem[ProcOf[v]][j], v)
      /\ HandsIn(v) => Over(mem[ProcOf[v]][j]) /\ (Over(row[j]) \/ (Ours(row[j], v) /\ Hand(io[Gt(g)])))
  BY <1>2, <1>3 DEF WorkerFits, Holds, RowOf, MemOf
<1>. QED
  BY <1>2, <1>3, <1>4, <1>5, <1>6, <1>7, <1>8

GraphTurns(g, label) ==
    /\ graph'[g].pc = label /\ graph'[g].worker = graph[g].worker /\ graph'[g].job = graph[g].job
    /\ \A h \in Graphs \ {g} : graph'[h] = graph[h]
    /\ UNCHANGED <<row, result, cancelReq, seen, pc, cur, gr, beating, abandoned, api, enqueued>>

LEMMA GraphTurned ==
    ASSUME PipelineOK, NEW g \in Graphs, NEW label,
           GraphGoto(g, label) \/ (UNCHANGED graph /\ graph[g].pc = label),
           UNCHANGED <<table, cancelReq, seen, worker, api, history>>
    PROVE  GraphTurns(g, label)
BY DEF GraphTurns, GraphGoto, PipelineOK, table, worker, history

\* A turn of a pipeline that works, up to the delivery of its summary.
LEMMA GraphWorks ==
    ASSUME Step, NEW g \in Graphs, NEW label, GraphTurns(g, label),
           graph[g].pc \in {"begin", "work", "deliver"}, io[Gt(g)] = Idle, UNCHANGED bg,
           IoElsewhere({Gt(g)}), MemElsewhere(GraphProc(g), graph[g].job),
           LET w == io'[Gt(g)]
               m == mem'[GraphProc(g)][graph[g].job]
           IN  \/ /\ label \in {"work", "deliver", "failed"} /\ Ours(m, graph[g].worker)
                  /\ \/ w = Idle
                     \/ label # "failed" /\ w.job = graph[g].job /\ OwnHand(w, graph[g].worker)
               \/ /\ label = "enqueue" /\ Over(m)
                  /\ w.stage = "row" /\ w.job = graph[g].job /\ Over(w.snap)
    PROVE  Safely
<1>1. PICK v \in Workers :
        LET j == graph[g].job IN
        /\ v = graph[g].worker /\ pc[v] = "join" /\ gr[v] = g /\ cur[v] = j
        /\ j \in Jobs /\ ProcOf[v] \in Procs /\ GraphProc(g) = ProcOf[v]
        /\ WorkerFits(v) /\ io[Run(v)] = Idle
        /\ bg[g] = "off" /\ io[Bt(g)] = Idle
        /\ \A u \in Workers : pc[u] = "join" /\ gr[u] = g => u = v
        /\ AtWork(v) /\ Ours(row[j], v)
  BY AliveHas
<1>2. /\ graph'[g].pc = label /\ graph'[g].worker = v /\ graph'[g].job = cur[v]
      /\ \A h \in Graphs \ {g} : graph'[h] = graph[h]
      /\ UNCHANGED <<row, result, cancelReq, seen, pc, cur, gr, beating, abandoned, api, enqueued>>
  BY <1>1 DEF GraphTurns
<1>3. RowOf(v)' = RowOf(v) /\ Ours(RowOf(v), v) /\ ~Over(RowOf(v)) /\ cur[v] \in Jobs
        /\ MemOf(v)' = mem'[GraphProc(g)][graph[g].job]
  BY <1>1, <1>2, RowNames DEF RowOf, MemOf
<1> DEFINE w == io'[Gt(g)]
           m == MemOf(v)'
<1>4. \/ /\ label \in {"work", "deliver", "failed"} /\ Ours(m, v)
         /\ w = Idle \/ (label # "failed" /\ w.job = cur[v] /\ OwnHand(w, v))
      \/ /\ label = "enqueue" /\ Over(m)
         /\ w.stage = "row" /\ w.job = cur[v] /\ Over(w.snap)
  BY <1>1, <1>3
<1>. HIDE DEF w, m
<1>5. io'[Run(v)] = Idle /\ io'[Hb(v)] = io[Hb(v)] /\ io'[Bt(g)] = Idle
  BY <1>1, ThreadNames, ThreadsApart DEF IoElsewhere
<1>6. PipelineMoves(g)
  <2>1. IoElsewhere({Gt(g), Bt(g)}) /\ SeenElsewhere({Bt(g)})
    BY <1>2 DEF IoElsewhere, SeenElsewhere
  <2>2. MemMoves(g)
    BY <1>1 DEF MemMoves, Ours, Over, Ended
  <2>. QED
    BY <1>2, <2>1, <2>2 DEF PipelineMoves
<1>7. PipelineFits(g)'
  <2>1. Joined(g)'
    BY <1>1, <1>2 DEF Joined
  <2>2. Delivered(g)'
    BY <1>1, <1>2, <1>4 DEF Delivered
  <2>3. GraphWrites(g)'
    BY <1>2, <1>4 DEF GraphWrites, Hand, w
  <2>4. BgWrites(g)'
    BY <1>5 DEF BgWrites
  <2>. QED
    BY <2>1, <2>2, <2>3, <2>4 DEF PipelineFits
<1>8. WorkerFits(v)'
  <2>1. Place(v)'
    BY <1>1, <1>2, <1>4 DEF WorkerFits, Place
  <2>2. /\ AtWork(v)' <=> label \in {"work", "deliver", "failed"}
        /\ HandsIn(v)' <=> label = "enqueue"
        /\ ~AfterWork(v)'
    BY <1>1, <1>2, <1>4 DEF AtWork, HandsIn, AfterWork
  <2>3. Holds(v)'
    BY <1>1, <1>2, <1>3, <1>4, <2>2 DEF Holds, Hand, w, m
  <2>4. RunWrites(v)' /\ HbWrites(v)'
    BY <1>1, <1>2, <1>3, <1>5 DEF WorkerFits, RunWrites, HbWrites
  <2>. QED
    BY <2>1, <2>3, <2>4 DEF WorkerFits
<1>. QED
  BY <1>1, <1>6, <1>7, <1>8, PipelineLocal

\* The same with an upsert of the worker's own record.
LEMMA GraphUpserts ==
    ASSUME Step, NEW g \in Graphs, graph[g].pc \in {"begin", "work"}, io[Gt(g)] = Idle,
           NEW label \in {"work", "deliver"}, GraphTurns(g, label), UNCHANGED bg,
           NEW x \in {0, 1},
           \/ SetProgress(Gt(g), GraphProc(g), graph[g].job, x)
           \/ Upsert(Gt(g), GraphProc(g), graph[g].job, Fields("processing", Unset, Unset, x))
    PROVE  Safely
<1> DEFINE p == GraphProc(g)
           j == graph[g].job
           m == mem[p][j]
           f == Fields("processing", Unset, Unset, x)
<1>1. PICK v \in Workers :
        /\ v = graph[g].worker /\ j \in Jobs /\ p \in Procs /\ m \in Entry /\ Ours(m, v)
  BY AliveHas
<1>2. UpsertOn(m, Gt(g), p, j, f, FALSE)
  BY <1>1, RowNames, OursStay DEF SetProgress, Upsert
<1>3. f \in Entry
  BY FieldsType, StatusNames
<1>4. Ours(Merge(f, m), v)
  BY <1>1, OursStay
<1>. HIDE DEF f, m
<1>5. Upserted(m, Gt(g), p, j, f, FALSE)
  BY <1>1, <1>2, <1>3, ThreadNames, UpsertDoes DEF Step, TypeOK
<1>6. /\ IoElsewhere({Gt(g)}) /\ MemElsewhere(p, j) /\ Ours(mem'[p][j], graph[g].worker)
      /\ io'[Gt(g)].job = graph[g].job /\ OwnHand(io'[Gt(g)], graph[g].worker)
  BY <1>1, <1>4, <1>5 DEF Upserted, OwnHand, Hand
<1>. QED
  BY <1>6, GraphWorks

LEMMA GraphStep ==
    ASSUME Step, NEW g \in Graphs, Graph(g)
    PROVE  Safely
<1>. USE DEF GraphAt
<1>1. CASE StartJob(g)
  <2>1. /\ graph[g].pc = "begin" /\ io[Gt(g)] = Idle /\ UNCHANGED bg
        /\ Upsert(Gt(g), GraphProc(g), graph[g].job, Fields("processing", Unset, Unset, 0))
    BY <1>1 DEF StartJob
  <2>2. GraphTurns(g, "work")
    BY <1>1, GraphTurned DEF StartJob, Step, TypeOK
  <2>. QED
    BY <2>1, <2>2, GraphUpserts
<1>2. CASE ProgressTick(g)
  <2> DEFINE p == GraphProc(g)
             j == graph[g].job
             m == mem[p][j]
  <2>1. graph[g].pc = "work" /\ io[Gt(g)] = Idle /\ UNCHANGED bg
    BY <1>2 DEF ProgressTick
  <2>2. GraphTurns(g, "work")
    BY <1>2, GraphTurned DEF ProgressTick, Step, TypeOK
  <2>3. CASE SetProgress(Gt(g), p, j, 0)
    BY <2>1, <2>2, <2>3, GraphUpserts
  <2>4. CASE /\ mem' = [mem EXCEPT ![p][j] = [m EXCEPT !.status = Or(@, "processing"), !.prog = 0]]
             /\ UNCHANGED io
    <3>1. j \in Jobs /\ p \in Procs /\ m \in Entry /\ Ours(m, graph[g].worker) /\ graph[g].worker \in Workers
      BY <2>1, AliveHas
    <3>2. Or(m.status, "processing") = "processing" /\ m.status = "processing"
      BY <3>1, OursStay, RowNames
    <3>3. Ours([m EXCEPT !.status = Or(@, "processing"), !.prog = 0], graph[g].worker)
      BY <3>1, <3>2 DEF Ours, Entry
    <3>4. mem'[p][j] = [m EXCEPT !.status = Or(@, "processing"), !.prog = 0] /\ MemElsewhere(p, j)
      BY <2>4, <3>1 DEF MemElsewhere, Step, TypeOK, MemOK
    <3>5. Ours(mem'[p][j], graph[g].worker)
      BY <3>3, <3>4
    <3>6. IoElsewhere({Gt(g)}) /\ io'[Gt(g)] = Idle
      BY <2>1, <2>4 DEF IoElsewhere
    <3>. QED
      BY <2>1, <2>2, <3>4, <3>5, <3>6, GraphWorks
  <2>. QED
    BY <1>2, <2>3, <2>4 DEF ProgressTick
<1>3. CASE GraphFails(g)
  <2>1. graph[g].pc = "work" /\ io[Gt(g)] = Idle /\ UNCHANGED <<bg, mem, io>>
    BY <1>3 DEF GraphFails
  <2>2. GraphTurns(g, "failed")
    BY <1>3, GraphTurned DEF GraphFails, Step, TypeOK
  <2>3. Ours(mem'[GraphProc(g)][graph[g].job], graph[g].worker)
    BY <2>1, AliveHas
  <2>4. IoElsewhere({Gt(g)}) /\ MemElsewhere(GraphProc(g), graph[g].job) /\ io'[Gt(g)] = Idle
    BY <2>1 DEF IoElsewhere, MemElsewhere
  <2>. QED
    BY <2>1, <2>2, <2>3, <2>4, GraphWorks
<1>4. CASE SummaryReady(g)
  <2>1. /\ graph[g].pc = "work" /\ io[Gt(g)] = Idle /\ UNCHANGED bg
        /\ SetProgress(Gt(g), GraphProc(g), graph[g].job, 1)
    BY <1>4 DEF SummaryReady
  <2>2. GraphTurns(g, "deliver")
    BY <1>4, GraphTurned DEF SummaryReady, Step, TypeOK
  <2>. QED
    BY <2>1, <2>2, GraphUpserts
<1>5. CASE DeliverSummary(g)
  <2> DEFINE p == GraphProc(g)
             j == graph[g].job
             m == mem[p][j]
             f == Fields("complete", Unset, Unset, 1)
  <2>1. /\ graph[g].pc = "deliver" /\ io[Gt(g)] = Idle /\ UNCHANGED bg
        /\ UpsertOn(m, Gt(g), p, j, f, TRUE)
    BY <1>5 DEF DeliverSummary
  <2>2. GraphTurns(g, "enqueue")
    BY <1>5, GraphTurned DEF DeliverSummary, Step, TypeOK
  <2>3. j \in Jobs /\ p \in Procs /\ m \in Entry
    BY <2>1, AliveHas
  <2>4. f \in Entry
    BY FieldsType, StatusNames
  <2>5. Over(Merge(f, m))
    <3>1. Merge(f, m).status = Or("complete", m.status)
      BY FieldsMerge
    <3>. QED
      BY <3>1, RowNames DEF Or, Over, Ended
  <2>. HIDE DEF f, m
  <2>6. Upserted(m, Gt(g), p, j, f, TRUE)
    BY <2>1, <2>3, <2>4, ThreadNames, UpsertDoes DEF Step, TypeOK
  <2>7. /\ IoElsewhere({Gt(g)}) /\ MemElsewhere(p, j) /\ Over(mem'[p][j])
        /\ io'[Gt(g)].job = graph[g].job /\ io'[Gt(g)].stage = "row" /\ Over(io'[Gt(g)].snap)
    BY <2>5, <2>6 DEF Upserted
  <2>. QED
    BY <2>1, <2>2, <2>7, GraphWorks
<1>6. CASE EnqueuePostSummary(g)
  <2>1. /\ graph[g].pc = "enqueue" /\ io[Gt(g)] = Idle /\ UNCHANGED <<mem, io>>
        /\ bg'[g] \in {"index", bg[g]} /\ \A h \in Graphs \ {g} : bg'[h] = bg[h]
    BY <1>6 DEF EnqueuePostSummary, Step, TypeOK, PipelineOK
  <2>2. GraphTurns(g, "done")
    BY <1>6, GraphTurned DEF EnqueuePostSummary, Step, TypeOK
  <2>3. PICK v \in Workers :
          LET j == graph[g].job IN
          /\ v = graph[g].worker /\ pc[v] = "join" /\ gr[v] = g /\ cur[v] = j
          /\ j \in Jobs /\ WorkerFits(v) /\ io[Run(v)] = Idle /\ bg[g] = "off" /\ io[Bt(g)] = Idle
          /\ \A u \in Workers : pc[u] = "join" /\ gr[u] = g => u = v
          /\ Over(mem[ProcOf[v]][j]) /\ (Over(row[j]) \/ Hand(io[Gt(g)]))
    BY <2>1, AliveHas
  <2>4. Over(row[cur[v]])
    BY <2>1, <2>3 DEF Hand, Idle
  <2>5. /\ graph'[g].pc = "done" /\ graph'[g].worker = v /\ graph'[g].job = cur[v]
        /\ UNCHANGED <<row, result, cancelReq, seen, pc, cur, gr, beating, abandoned, api, enqueued>>
    BY <2>2, <2>3 DEF GraphTurns
  <2>6. PipelineMoves(g)
    BY <2>1, <2>2 DEF PipelineMoves, MemMoves, GraphTurns, IoElsewhere, SeenElsewhere
  <2>7. PipelineFits(g)'
    <3>1. Joined(g)' /\ GraphWrites(g)' /\ BgWrites(g)'
      BY <2>1, <2>3, <2>5 DEF Joined, GraphWrites, BgWrites
    <3>2. Delivered(g)'
      BY <2>1, <2>3, <2>4, <2>5 DEF Delivered
    <3>. QED
      BY <3>1, <3>2 DEF PipelineFits
  <2>8. WorkerFits(v)'
    <3>1. Place(v)'
      BY <2>3, <2>5 DEF WorkerFits, Place
    <3>2. ~AtWork(v)' /\ ~HandsIn(v)' /\ RowOf(v)' = row[cur[v]] /\ MemOf(v)' = mem[ProcOf[v]][cur[v]]
      BY <2>1, <2>3, <2>5 DEF AtWork, HandsIn, RowOf, MemOf
    <3>3. Holds(v)'
      BY <2>3, <2>4, <2>5, <3>2 DEF Holds
    <3>4. RunWrites(v)' /\ HbWrites(v)'
      BY <2>1, <2>3, <2>5 DEF WorkerFits, RunWrites, HbWrites, RowOf
    <3>. QED
      BY <3>1, <3>3, <3>4 DEF WorkerFits
  <2>. QED
    BY <2>3, <2>6, <2>7, <2>8, PipelineLocal
<1>7. CASE ReapGraph(g)
  <2>1. /\ graph[g].pc \in {"done", "failed"} /\ \A u \in Workers : gr[u] # g
        /\ bg[g] = "off" /\ io[Bt(g)] = Idle
        /\ graph'[g] = NoThread /\ \A h \in Graphs \ {g} : graph'[h] = graph[h]
        /\ UNCHANGED <<mem, io, bg>>
        /\ UNCHANGED <<row, result, cancelReq, pc, cur, gr, beating, abandoned, api, enqueued>>
    BY <1>7 DEF ReapGraph, Step, TypeOK, PipelineOK, table, worker, history
  <2>2. io[Gt(g)] = Idle
    BY <2>1 DEF Step, RunnerInv, PipelineFits, GraphWrites
  <2>3. SeenElsewhere({Bt(g)})
    BY <1>7 DEF ReapGraph, SeenElsewhere, Step, TypeOK, SeenOK
  <2>4. PipelineMoves(g)
    BY <2>1, <2>3 DEF PipelineMoves, MemMoves, IoElsewhere
  <2>5. PipelineFits(g)'
    BY <2>1, <2>2 DEF PipelineFits, Joined, Delivered, GraphWrites, BgWrites, NoThread
  <2>. QED
    BY <2>1, <2>4, <2>5, PipelineLocal
<1>. QED
  BY <1>1, <1>2, <1>3, <1>4, <1>5, <1>6, <1>7 DEF Graph

\* A turn of the background services of a delivered job.
LEMMA BackgroundHas ==
    ASSUME Step, NEW g \in Graphs, bg[g] # "off"
    PROVE  \E v \in Workers :
             LET j == graph[g].job IN
             /\ v = graph[g].worker /\ graph[g].pc = "done" /\ j \in Jobs /\ ProcOf[v] \in Procs
             /\ GraphProc(g) = ProcOf[v] /\ PipelineFits(g) /\ io[Gt(g)] = Idle
             /\ Over(row[j]) /\ row[j] \in Row /\ row[j] # Blank
             /\ Over(mem[ProcOf[v]][j]) /\ mem[ProcOf[v]][j] \in Entry
<1> DEFINE v == graph[g].worker
           j == graph[g].job
<1>1. PipelineFits(g)
  BY DEF Step, RunnerInv
<1>2. graph[g].pc = "done"
  BY <1>1 DEF PipelineFits, Joined
<1>3. v \in Workers /\ io[Gt(g)] = Idle /\ Over(row[j]) /\ Over(mem[ProcOf[v]][j])
  BY <1>1, <1>2 DEF PipelineFits, Joined, GraphWrites, Delivered
<1>4. j \in Jobs /\ ProcOf[v] \in Procs /\ GraphProc(g) = ProcOf[v] /\ mem[ProcOf[v]][j] \in Entry
  BY <1>2, <1>3, JobQueueAssumption DEF GraphProc, Step, TypeOK, PipelineOK, MemOK
<1>5. row[j] \in Row /\ row[j] # Blank
  BY <1>3, <1>4, RowNames, RowsKnown DEF Step, TypeOK
<1>. QED
  BY <1>1, <1>2, <1>3, <1>4, <1>5

LEMMA BackgroundTurns ==
    ASSUME Step, NEW g \in Graphs, bg[g] # "off",
           UNCHANGED <<table, cancelReq, worker, graph, api, history>>,
           \A h \in Graphs \ {g} : bg'[h] = bg[h],
           IoElsewhere({Bt(g)}), SeenElsewhere({Bt(g)}),
           MemElsewhere(GraphProc(g), graph[g].job),
           Over(mem'[GraphProc(g)][graph[g].job]),
           LET w == io'[Bt(g)] IN
           w = io[Bt(g)] \/ (w.stage = "row" /\ w.job = graph[g].job /\ Over(w.snap)),
           bg'[g] = "finalizing" /\ seen'[Bt(g)].found => Over(seen'[Bt(g)].entry)
    PROVE  Safely
<1> DEFINE w == io'[Bt(g)]
<1>1. PICK v \in Workers :
        LET j == graph[g].job IN
        /\ v = graph[g].worker /\ graph[g].pc = "done" /\ j \in Jobs /\ ProcOf[v] \in Procs
        /\ GraphProc(g) = ProcOf[v] /\ PipelineFits(g) /\ io[Gt(g)] = Idle
        /\ Over(row[j])
  BY BackgroundHas
<1>2. UNCHANGED <<row, result, cancelReq, pc, cur, gr, beating, abandoned, graph, api, enqueued>>
  BY DEF table, worker, history
<1>3. io'[Gt(g)] = Idle
  BY <1>1, ThreadNames, ThreadsApart DEF IoElsewhere
<1>4. w = io[Bt(g)] \/ (w.stage = "row" /\ w.job = graph[g].job /\ Over(w.snap))
  OBVIOUS
<1>. HIDE DEF w
<1>5. PipelineMoves(g)
  BY <1>1, <1>2 DEF PipelineMoves, MemMoves, IoElsewhere, SeenElsewhere
<1>6. Joined(g)' /\ GraphWrites(g)'
  BY <1>1, <1>2, <1>3 DEF PipelineFits, Joined, GraphWrites
<1>7. Delivered(g)'
  BY <1>1, <1>2 DEF Delivered
<1>8. BgWrites(g)'
  BY <1>1, <1>2, <1>4 DEF PipelineFits, BgWrites, Hand, w
<1>. QED
  BY <1>1, <1>2, <1>3, <1>5, <1>6, <1>7, <1>8, PipelineLocal DEF PipelineFits

\* The same with an upsert of a finished record.
LEMMA BackgroundUpserts ==
    ASSUME Step, NEW g \in Graphs, bg[g] # "off",
           UNCHANGED <<table, cancelReq, worker, graph, api, history>>,
           NEW label \in BgPcs, BgGoto(g, label), label # "finalizing", SeenElsewhere({Bt(g)}),
           NEW m \in Entry, Over(m), NEW f \in Entry, f.status \in {"complete", Unset},
           NEW b \in BOOLEAN, UpsertOn(m, Bt(g), GraphProc(g), graph[g].job, f, b)
    PROVE  Safely
<1>1. graph[g].job \in Jobs /\ GraphProc(g) \in Procs
  BY BackgroundHas
<1>2. Over(Merge(f, m))
  <2>1. Merge(f, m).status = Or(f.status, m.status)
    BY DEF Merge
  <2>. QED
    BY <2>1, RowNames DEF Or, Over, Ended
<1>3. Upserted(m, Bt(g), GraphProc(g), graph[g].job, f, b)
  BY <1>1, ThreadNames, UpsertDoes DEF Step, TypeOK
<1>4. /\ IoElsewhere({Bt(g)}) /\ MemElsewhere(GraphProc(g), graph[g].job)
      /\ Over(mem'[GraphProc(g)][graph[g].job])
      /\ io'[Bt(g)].stage = "row" /\ io'[Bt(g)].job = graph[g].job /\ Over(io'[Bt(g)].snap)
  BY <1>2, <1>3 DEF Upserted
<1>5. bg'[g] = label /\ \A h \in Graphs \ {g} : bg'[h] = bg[h]
  BY DEF BgGoto, Step, TypeOK, PipelineOK
<1>. QED
  BY <1>4, <1>5, BackgroundTurns

LEMMA BackgroundStep ==
    ASSUME Step, NEW g \in Graphs, Background(g)
    PROVE  Safely
<1> DEFINE p == GraphProc(g)
           j == graph[g].job
<1>1. bg[g] # "off"
  BY DEF Background, SetBg, FinalizeRead, FinalizeMetrics, FinalizeFails, PatchResultCarbon, BgAt
<1>2. /\ j \in Jobs /\ p \in Procs /\ Over(row[j]) /\ row[j] \in Row /\ row[j] # Blank
      /\ Over(mem[p][j]) /\ mem[p][j] \in Entry /\ PipelineFits(g) /\ graph[g].pc = "done"
  BY <1>1, BackgroundHas
<1>3. ASSUME NEW from, NEW floor \in 1..2, NEW to \in BgPcs, to # "finalizing", SetBg(g, from, floor, to)
      PROVE  Safely
  <2> DEFINE old == Or(mem[p][j].prog, 0)
             x == IF old > floor THEN old ELSE floor
             f == Fields(Unset, Unset, Unset, x)
  <2>1. /\ UpsertOn(mem[p][j], Bt(g), p, j, f, FALSE) /\ BgGoto(g, to)
        /\ UNCHANGED <<table, cancelReq, seen, worker, graph, api, history>>
    BY <1>3 DEF SetBg, Upsert
  <2>2. x \in 0..2
    BY <1>2 DEF Or, Entry
  <2>. HIDE DEF x
  <2>3. f \in Entry /\ f.status = Unset
    BY <2>2, FieldsType DEF Fields, Blank
  <2>4. SeenElsewhere({Bt(g)})
    BY <2>1 DEF SeenElsewhere
  <2>. HIDE DEF f, p, j
  <2>. QED
    BY <1>1, <1>2, <1>3, <2>1, <2>3, <2>4, BackgroundUpserts DEF p, j
<1>4. CASE FinalizeRead(g)
  <2>1. /\ io[Bt(g)] = Idle /\ GetJob(Bt(g), p, j) /\ BgGoto(g, "finalizing") /\ UNCHANGED <<mem, io>>
        /\ UNCHANGED <<table, cancelReq, worker, graph, api, history>>
    BY <1>4 DEF FinalizeRead, BgAt
  <2>2. seen'[Bt(g)].entry = View(row[j], mem[p][j]) /\ SeenElsewhere({Bt(g)})
    BY <1>2, <2>1, ThreadNames DEF GetJob, SeenElsewhere, Step, TypeOK, SeenOK
  <2>3. Over(seen'[Bt(g)].entry)
    BY <1>2, <2>2, ViewOver
  <2>4. \A h \in Graphs \ {g} : bg'[h] = bg[h]
    BY <2>1 DEF BgGoto, Step, TypeOK, PipelineOK
  <2>5. IoElsewhere({Bt(g)}) /\ MemElsewhere(p, j) /\ io'[Bt(g)] = io[Bt(g)] /\ mem'[p][j] = mem[p][j]
    BY <2>1 DEF IoElsewhere, MemElsewhere
  <2>. QED
    BY <1>1, <1>2, <2>1, <2>2, <2>3, <2>4, <2>5, BackgroundTurns
<1>5. CASE FinalizeMetrics(g)
  <2> DEFINE e == Returned(Bt(g), p, j)
             status == IF e.status \in Done THEN "complete" ELSE "processing"
             f == Fields(status, Unset, Unset, 2)
  <2>1. /\ bg[g] = "finalizing" /\ UpsertOn(e, Bt(g), p, j, f, FALSE) /\ BgGoto(g, "patch") /\ Forget(Bt(g))
        /\ UNCHANGED <<table, cancelReq, worker, graph, api, history>>
    BY <1>5 DEF FinalizeMetrics, BgAt
  <2>2. Over(e)
    BY <1>2, <2>1 DEF Returned, PipelineFits, Delivered
  <2>3. e \in Entry
    BY <1>2, ReturnedType, ThreadNames DEF Step, TypeOK
  <2>4. status = "complete"
    BY <2>2, RowNames
  <2>. HIDE DEF status, e
  <2>7. f.status = "complete"
    BY <2>4 DEF Fields, Blank
  <2>8. f \in Entry
    BY <2>4, FieldsType, StatusNames
  <2>5. f \in Entry /\ f.status = "complete"
    BY <2>7, <2>8
  <2>6. SeenElsewhere({Bt(g)})
    BY <2>1 DEF Forget, SeenElsewhere, Step, TypeOK, SeenOK
  <2>9. "patch" \in BgPcs
    BY DEF BgPcs
  <2>. HIDE DEF f
  <2>. QED
    BY <1>1, <2>1, <2>2, <2>3, <2>5, <2>6, <2>9, BackgroundUpserts
<1>6. CASE FinalizeFails(g)
  <2>1. /\ BgGoto(g, "wrapup") /\ Forget(Bt(g)) /\ UNCHANGED <<mem, io>>
        /\ UNCHANGED <<table, cancelReq, worker, graph, api, history>>
    BY <1>6 DEF FinalizeFails
  <2>2. SeenElsewhere({Bt(g)})
    BY <2>1 DEF Forget, SeenElsewhere, Step, TypeOK, SeenOK
  <2>3. bg'[g] = "wrapup" /\ \A h \in Graphs \ {g} : bg'[h] = bg[h]
    BY <2>1 DEF BgGoto, Step, TypeOK, PipelineOK
  <2>4. IoElsewhere({Bt(g)}) /\ MemElsewhere(p, j) /\ io'[Bt(g)] = io[Bt(g)] /\ mem'[p][j] = mem[p][j]
    BY <2>1 DEF IoElsewhere, MemElsewhere
  <2>. QED
    BY <1>1, <1>2, <2>1, <2>2, <2>3, <2>4, StatusNames, BackgroundTurns
<1>7. CASE PatchResultCarbon(g)
  <2> DEFINE e == Current(p, j)
             f == Fields("complete", Unset, Unset, 2)
  <2>1. /\ UpsertOn(e, Bt(g), p, j, f, TRUE) /\ BgGoto(g, "wrapup")
        /\ UNCHANGED seen /\ UNCHANGED <<table, cancelReq, worker, graph, api, history>>
    BY <1>7 DEF PatchResultCarbon
  <2>2. Over(e)
    BY <1>2, ViewOver DEF Current
  <2>3. e \in Entry
    BY <1>2, CurrentType DEF Step, TypeOK
  <2>6. f.status = "complete"
    BY DEF Fields, Blank
  <2>7. f \in Entry
    BY FieldsType, StatusNames
  <2>4. f \in Entry /\ f.status = "complete"
    BY <2>6, <2>7
  <2>5. SeenElsewhere({Bt(g)})
    BY <2>1 DEF SeenElsewhere
  <2>8. "wrapup" \in BgPcs
    BY DEF BgPcs
  <2>. HIDE DEF e, f
  <2>. QED
    BY <1>1, <2>1, <2>2, <2>3, <2>4, <2>5, <2>8, BackgroundUpserts
<1>8. CASE SetBg(g, "index", 1, "carbon") \/ SetBg(g, "carbon", 1, "finalize") \/ SetBg(g, "wrapup", 2, "off")
  BY <1>3, <1>8 DEF BgPcs
<1>. QED
  BY <1>4, <1>5, <1>6, <1>7, <1>8 DEF Background

-----------------------------------------------------------------------------
(* The worker loop *)

\* A job on its way, or over, in the hands of a worker is not one that can be claimed or reclaimed.
LEMMA HeldRow ==
    ASSUME Step, NEW u \in Workers, AtWork(u) \/ HandsIn(u) \/ AfterWork(u)
    PROVE  /\ Over(RowOf(u)) \/ Ours(RowOf(u), u)
           /\ AtWork(u) => Ours(RowOf(u), u)
           /\ cur[u] \in Jobs /\ cur[u] # NoJob /\ pc[u] # "exiting" /\ ProcOf[u] \in Procs
BY RunnerHas DEF WorkerFits, Holds, AtWork, HandsIn, AfterWork

\* Where a worker with a job is.
LEMMA HoldersAre ==
    ASSUME Step, NEW u \in Workers, cur[u] # NoJob, pc[u] # "exiting"
    PROVE  AtWork(u) \/ HandsIn(u) \/ AfterWork(u)
<1>1. Place(u) /\ pc[u] \in RunPcs
  BY DEF Step, RunnerInv, WorkerFits, TypeOK, WorkerOK
<1>2. pc[u] \notin {"down", "poll", "cancelling"}
  BY <1>1 DEF Place
<1>. QED
  BY <1>1, <1>2, JoinPlaces DEF RunPcs, AtWork, AfterWork

LEMMA Claims ==
    ASSUME Step, NEW w \in Workers, ClaimNextJob(w)
    PROVE  Safely
<1>1. PICK j \in Jobs :
        LET new == [row[j] EXCEPT !.status = "processing", !.attempts = @ + 1,
                                  !.owner = w, !.hb = "fresh", !.prog = KeptProg(@)]
        IN  /\ pc[w] = "poll" /\ io[Run(w)] = Idle /\ row[j].status = "pending"
            /\ InTime(\A t \in Threads : io[t].job # j)
            /\ row' = [row EXCEPT ![j] = new]
            /\ mem' = [mem EXCEPT ![ProcOf[w]][j] = new]
            /\ pc' = [pc EXCEPT ![w] = "claimed"] /\ cur' = [cur EXCEPT ![w] = j]
            /\ UNCHANGED <<result, cancelReq, io, seen, gr, beating, abandoned, graph,
                           bg, api, enqueued>>
  BY DEF ClaimNextJob, Claimable
<1> DEFINE new == [row[j] EXCEPT !.status = "processing", !.attempts = @ + 1,
                                 !.owner = w, !.hb = "fresh", !.prog = KeptProg(@)]
<1>2. row[j] \in Row /\ row[j] # Blank /\ j \in enqueued /\ ~Over(row[j])
  <2>1. row[j] # Blank
    BY <1>1, RowNames
  <2>. QED
    BY <1>1, <2>1, RowsKnown, RowEnqueued, RowNames DEF Step, TypeOK
<1>3. Ours(new, w)
  BY <1>2 DEF Ours, Row
<1>4. /\ row' = [row EXCEPT ![j] = new] /\ mem' = [mem EXCEPT ![ProcOf[w]][j] = new]
      /\ pc[w] = "poll" /\ io[Run(w)] = Idle /\ row[j].status = "pending"
      /\ \A t \in Threads : io[t].job # j
      /\ UNCHANGED happened
  BY <1>1, NothingSpent
<1>. HIDE DEF new
<1>5. /\ pc'[w] = "claimed" /\ cur'[w] = j /\ \A u \in Workers \ {w} : pc'[u] = pc[u] /\ cur'[u] = cur[u]
      /\ UNCHANGED <<result, cancelReq, io, seen, gr, beating, abandoned, graph, bg, api, enqueued>>
  BY <1>1 DEF Step, TypeOK, WorkerOK
<1>6. /\ row'[j] = new /\ \A k \in Jobs \ {j} : row'[k] = row[k]
      /\ mem'[ProcOf[w]][j] = new /\ MemElsewhere(ProcOf[w], j)
  BY <1>4, JobQueueAssumption DEF MemElsewhere, Step, TypeOK, RowOK, MemOK
<1>7. \A u \in Workers : AtWork(u) \/ HandsIn(u) \/ AfterWork(u) =>
         cur[u] # j /\ cur[u] \in Jobs /\ ProcOf[u] \in Procs
  BY <1>2, <1>4, HeldRow, RowNames DEF RowOf, Ours
<1>8. ASSUME NEW u \in Workers, u # w PROVE WorkerFits(u)'
  <2>1. WorkerFits(u)
    BY DEF Step, RunnerInv
  <2>2. pc'[u] = pc[u] /\ cur'[u] = cur[u]
    BY <1>5, <1>8
  <2>3. /\ AtWork(u)' <=> AtWork(u)
        /\ HandsIn(u)' <=> HandsIn(u)
        /\ AfterWork(u)' <=> AfterWork(u)
    BY <1>5, <2>2 DEF AtWork, HandsIn, AfterWork
  <2>4. AtWork(u) \/ HandsIn(u) \/ AfterWork(u) => RowOf(u)' = RowOf(u) /\ MemOf(u)' = MemOf(u)
    BY <1>6, <1>7, <2>2 DEF RowOf, MemOf, MemElsewhere
  <2>5. Place(u)'
    BY <1>5, <2>1, <2>2 DEF WorkerFits, Place
  <2>6. pc[u] = "failing" => AtWork(u)
    BY DEF AtWork
  <2>7. Holds(u)'
    BY <1>5, <2>1, <2>2, <2>3, <2>4, <2>6 DEF WorkerFits, Holds
  <2>8. RunWrites(u)'
    <3> DEFINE x == io[Run(u)]
    <3>1. x.job # j /\ io'[Run(u)] = x
      BY <1>4, <1>5, ThreadNames
    <3>2. Hand(x) => row'[x.job] = row[x.job]
      BY <1>6, <3>1, ThreadNames DEF Hand, Step, TypeOK, IoOK
    <3>3. x.job = cur[u] /\ Hand(x) => RowOf(u)' = RowOf(u)
      BY <2>2, <3>2 DEF RowOf
    <3>. HIDE DEF x
    <3>4. x # Idle =>
            \/ pc[u] \in {"begun", "download", "launch"} /\ x.job = cur[u] /\ OwnHand(x, u)
            \/ /\ pc[u] = "published" /\ x.job = cur[u] /\ x.stage # "idle"
               /\ Hand(x) => Over(x.snap)
               /\ x.stage = "commit" => Over(x.base)
            \/ /\ pc[u] = "exiting" /\ x.job = cur[u] /\ Hand(x)
               /\ x.snap.status = "pending" /\ Ours(RowOf(u), u)
               /\ x.stage = "commit" => Ours(x.base, u)
            \/ pc[u] = "poll" /\ Hand(x) /\ (GivesBack(x, row[x.job], u) \/ GivesUp(x, row[x.job], u))
      BY <2>1 DEF WorkerFits, RunWrites, x
    <3>. QED
      BY <2>2, <3>1, <3>2, <3>3, <3>4 DEF RunWrites
  <2>9. HbWrites(u)'
    <3>1. io[Hb(u)] # Idle => RowOf(u)' = RowOf(u)
      <4>1. SUFFICES ASSUME io[Hb(u)] # Idle PROVE RowOf(u)' = RowOf(u)
        OBVIOUS
      <4>2. io[Hb(u)].job = cur[u] /\ pc[u] \in {"join", "finished", "fail"}
        BY <2>1, <4>1 DEF WorkerFits, HbWrites
      <4>3. cur[u] \in Jobs /\ cur[u] # j
        BY <1>4, <4>2, ThreadNames DEF Step, TypeOK, WorkerOK
      <4>. QED
        BY <1>6, <2>2, <4>3 DEF RowOf
    <3>. QED
      BY <1>5, <2>1, <2>2, <3>1 DEF WorkerFits, HbWrites
  <2>. QED
    BY <2>5, <2>7, <2>8, <2>9 DEF WorkerFits
<1>9. WorkerFits(w)'
  <2>1. w \notin beating /\ io[Hb(w)] = Idle
    BY <1>4, RunnerHas
  <2>2. Place(w)'
    BY <1>5, <2>1 DEF Place
  <2>3. ~HandsIn(w)' /\ ~AfterWork(w)' /\ RowOf(w)' = new /\ MemOf(w)' = new
    BY <1>5, <1>6 DEF HandsIn, AfterWork, RowOf, MemOf
  <2>4. Holds(w)'
    BY <1>3, <1>5, <2>3 DEF Holds
  <2>5. RunWrites(w)' /\ HbWrites(w)'
    BY <1>4, <1>5, <2>1 DEF RunWrites, HbWrites
  <2>. QED
    BY <2>2, <2>4, <2>5 DEF WorkerFits
<1>10. \A k \in Jobs : Over(row[k]) => Over(row'[k])
  BY <1>2, <1>6
<1>11. ASSUME NEW g \in Graphs PROVE PipelineFits(g)'
  <2>1. PipelineFits(g)
    BY DEF Step, RunnerInv
  <2>2. graph[g].pc \in {"begin", "work", "deliver", "enqueue"} =>
          pc'[graph[g].worker] = "join" /\ gr'[graph[g].worker] = g
    BY <1>4, <1>5, <2>1 DEF PipelineFits, Joined
  <2>3. graph[g].pc = "done" => Over(mem'[ProcOf[graph[g].worker]][graph[g].job])
    <3>1. SUFFICES ASSUME graph[g].pc = "done" PROVE Over(mem'[ProcOf[graph[g].worker]][graph[g].job])
      OBVIOUS
    <3>2. /\ graph[g].worker \in Workers /\ graph[g].job \in Jobs /\ ProcOf[graph[g].worker] \in Procs
          /\ Over(row[graph[g].job]) /\ Over(mem[ProcOf[graph[g].worker]][graph[g].job])
      BY <2>1, <3>1, JobQueueAssumption DEF PipelineFits, Joined, Delivered, Step, TypeOK, PipelineOK
    <3>. QED
      BY <1>2, <1>6, <3>2 DEF MemElsewhere
  <2>. QED
    BY <1>5, <1>10, <2>1, <2>2, <2>3, PipelineFrame DEF Step, TypeOK
<1>12. ASSUME NEW r \in Requests PROVE RequestFits(r)'
  <2>1. Hand(io[Rt(r)]) /\ row[io[Rt(r)].job] = Blank => row'[io[Rt(r)].job] = Blank
    BY <1>4, <1>6, ThreadNames DEF Hand, Step, TypeOK, IoOK
  <2>. QED
    BY <1>4, <1>5, <1>10, <2>1, RequestFrame DEF Step, TypeOK, RunnerInv
<1>13. ASSUME NEW k \in Jobs PROVE RowFits(k)'
  <2>1. row'[k] = row[k] \/ (row'[k].status # "cancelled" /\ k \in enqueued')
    BY <1>2, <1>3, <1>5, <1>6, RowNames, StatusNames DEF Ours
  <2>2. mem'[ApiProc][k] = mem[ApiProc][k]
    BY <1>6, JobQueueAssumption DEF MemElsewhere, Step, Apart
  <2>. QED
    BY <1>4, <1>5, <1>10, <2>1, <2>2, RowFrame DEF Step, TypeOK, RunnerInv
<1>14. SingleRunner'
  <2>1. \A u \in Workers \ {w} : cur[u] # NoJob /\ pc[u] # "exiting" => cur[u] # j
    BY <1>7, HoldersAre
  <2>2. SingleRunner /\ j # NoJob
    BY JobQueueAssumption DEF Step, RunnerInv
  <2>. QED
    BY <1>5, <2>1, <2>2 DEF SingleRunner
<1>15. NothingTakenBack'
  BY <1>5 DEF NothingTakenBack, Step, RunnerInv
<1>16. \A k \in Jobs : Over(row[k]) => Over(row'[k])
  BY <1>10
<1>. QED
  BY <1>8, <1>9, <1>11, <1>12, <1>13, <1>14, <1>15, <1>16 DEF Safely, RunnerInv

\* The rows in S leave processing; no worker but w may rely on them.
Frees(w, S) ==
    /\ S \subseteq Jobs
    /\ \A j \in S : row[j].status = "processing" /\ row'[j].status \in {"pending", "error"}
    /\ \A j \in Jobs \ S : row'[j] = row[j]
    /\ \A q \in Procs, k \in Jobs : mem'[q][k] = mem[q][k] \/ (q = ProcOf[w] /\ k \in S)
    /\ \A u \in Workers : AtWork(u) \/ HandsIn(u) \/ AfterWork(u) => cur[u] \notin S
    /\ \A u \in Workers : (u = w /\ pc[w] = "down") \/ \A j \in S : RowSafe(row[j], row'[j], u)
    /\ \A u \in Workers \ {w} : pc'[u] = pc[u]
    /\ pc'[w] = pc[w] \/ (pc[w] = "down" /\ pc'[w] = "poll")
    /\ UNCHANGED <<result, cancelReq, io, seen, cur, gr, beating, abandoned, graph, bg, api,
                   enqueued, happened>>

LEMMA FreesFits ==
    ASSUME Step, NEW w \in Workers, pc[w] \in {"poll", "down"}, NEW S, Frees(w, S)
    PROVE  Safely
<1>1. /\ S \subseteq Jobs
      /\ \A j \in S : row[j].status = "processing" /\ row'[j].status \in {"pending", "error"}
      /\ \A j \in Jobs \ S : row'[j] = row[j]
      /\ \A q \in Procs, k \in Jobs : mem'[q][k] = mem[q][k] \/ (q = ProcOf[w] /\ k \in S)
      /\ \A u \in Workers : AtWork(u) \/ HandsIn(u) \/ AfterWork(u) => cur[u] \notin S
      /\ \A u \in Workers : (u = w /\ pc[w] = "down") \/ \A j \in S : RowSafe(row[j], row'[j], u)
      /\ \A u \in Workers \ {w} : pc'[u] = pc[u]
      /\ pc'[w] = pc[w] \/ (pc[w] = "down" /\ pc'[w] = "poll")
      /\ UNCHANGED <<result, cancelReq, io, seen, cur, gr, beating, abandoned, graph, bg, api,
                     enqueued, happened>>
  BY DEF Frees
<1>2. \A j \in Jobs : Over(row[j]) => row'[j] = row[j]
  BY <1>1, RowNames
<1>3. ASSUME NEW u \in Workers, u # w \/ pc[w] # "down" PROVE WorkerFits(u)'
  <2>1. WorkerFits(u)
    BY DEF Step, RunnerInv
  <2>2. \A j \in Jobs : RowSafe(row[j], row'[j], u)
    BY <1>1, <1>3 DEF RowSafe
  <2>3. AtWork(u) \/ HandsIn(u) \/ AfterWork(u) => MemOf(u)' = MemOf(u)
    BY <1>1, HeldRow DEF MemOf
  <2>4. MemSafe(u)
    BY <2>1, <2>3 DEF WorkerFits, Holds, MemSafe
  <2>5. pc'[u] = pc[u]
    BY <1>1, <1>3
  <2>6. Apartly(u)
    BY <1>1, <2>2, <2>5 DEF Apartly
  <2>. QED
    BY <2>1, <2>4, <2>6, WorkerFrame DEF Step, TypeOK
<1>4. ASSUME pc[w] = "down" PROVE WorkerFits(w)'
  <2>1. cur[w] = NoJob /\ io[Run(w)] = Idle /\ io[Hb(w)] = Idle /\ w \notin beating
    BY <1>4, StatusNames DEF Step, RunnerInv, WorkerFits, Place, RunWrites, HbWrites
  <2>2. pc'[w] \in {"poll", "down"}
    BY <1>1, <1>4
  <2>3. Place(w)' /\ Holds(w)'
    BY <1>1, <2>1, <2>2 DEF Place, Holds, AtWork, HandsIn, AfterWork
  <2>4. RunWrites(w)' /\ HbWrites(w)'
    BY <1>1, <2>1 DEF RunWrites, HbWrites
  <2>. QED
    BY <2>3, <2>4 DEF WorkerFits
<1>4a. \A u \in Workers : WorkerFits(u)'
  <2>1. CASE pc[w] = "down"
    <3>1. WorkerFits(w)'
      BY <2>1, <1>4
    <3>. QED
      BY <1>3, <3>1
  <2>2. CASE pc[w] # "down"
    BY <2>2, <1>3
  <2>. QED
    BY <2>1, <2>2
<1>5. ASSUME NEW g \in Graphs PROVE PipelineFits(g)'
  <2>1. PipelineFits(g)
    BY DEF Step, RunnerInv
  <2>2. graph[g].pc \in {"begin", "work", "deliver", "enqueue"} =>
          pc'[graph[g].worker] = "join" /\ gr'[graph[g].worker] = g
    BY <1>1, <2>1 DEF PipelineFits, Joined
  <2>3. graph[g].pc = "done" => Over(mem'[ProcOf[graph[g].worker]][graph[g].job])
    <3>1. SUFFICES ASSUME graph[g].pc = "done" PROVE Over(mem'[ProcOf[graph[g].worker]][graph[g].job])
      OBVIOUS
    <3>2. /\ graph[g].worker \in Workers /\ graph[g].job \in Jobs /\ ProcOf[graph[g].worker] \in Procs
          /\ Over(row[graph[g].job]) /\ Over(mem[ProcOf[graph[g].worker]][graph[g].job])
      BY <2>1, <3>1, JobQueueAssumption DEF PipelineFits, Joined, Delivered, Step, TypeOK, PipelineOK
    <3>3. graph[g].job \notin S
      BY <1>1, <3>2, RowNames
    <3>. QED
      BY <1>1, <3>2, <3>3
  <2>. QED
    BY <1>1, <1>2, <2>1, <2>2, <2>3, PipelineFrame DEF Step, TypeOK
<1>6. ASSUME NEW r \in Requests PROVE RequestFits(r)'
  <2>1. Hand(io[Rt(r)]) /\ row[io[Rt(r)].job] = Blank => row'[io[Rt(r)].job] = Blank
    BY <1>1, RowNames, ThreadNames DEF Hand, Step, TypeOK, IoOK
  <2>. QED
    BY <1>1, <1>2, <2>1, RequestFrame DEF Step, TypeOK, RunnerInv
<1>7. ASSUME NEW k \in Jobs PROVE RowFits(k)'
  <2>1. row'[k] = row[k] \/ (row'[k].status # "cancelled" /\ k \in enqueued')
    BY <1>1, RowEnqueued, RowNames
  <2>2. mem'[ApiProc][k] = mem[ApiProc][k]
    BY <1>1, JobQueueAssumption DEF Step, Apart
  <2>. QED
    BY <1>1, <1>2, <2>1, <2>2, RowFrame DEF Step, TypeOK, RunnerInv
<1>8. SingleRunner'
  <2>1. SingleRunner /\ (pc[w] = "down" => cur[w] = NoJob)
    BY DEF Step, RunnerInv, WorkerFits, Place
  <2>. QED
    BY <1>1, <2>1 DEF SingleRunner
<1>9. NothingTakenBack'
  BY <1>1 DEF NothingTakenBack, Step, RunnerInv
<1>10. \A j \in Jobs : Over(row[j]) => Over(row'[j])
  BY <1>2
<1>. QED
  BY <1>4a, <1>5, <1>6, <1>7, <1>8, <1>9, <1>10 DEF Safely, RunnerInv

Recovered(w, S, failed) ==
    /\ \A j \in S : row[j] \in Row /\ row'[j].status = IF j \in failed THEN "error" ELSE "pending"
    /\ \A j \in Jobs \ S : row'[j] = row[j]
    /\ \A q \in Procs, k \in Jobs : mem'[q][k] = mem[q][k] \/ (q = ProcOf[w] /\ k \in S)
Working(S) == \A j \in S : row[j].status = "processing"

LEMMA RecoverDoes ==
    ASSUME Step, NEW w \in Workers, NEW S \in SUBSET Jobs, NEW failed \in SUBSET Jobs,
           Working(S), Recover(ProcOf[w], S, failed)
    PROVE  Recovered(w, S, failed)
<1>1. \A j \in S : row[j] \in Row
  BY RowNames, RowsKnown DEF Step, TypeOK, Working
<1>2. \A r \in Row : \A s : Requeued(r, s).status = s
  BY DEF Requeued, Row
<1>3. ASSUME NEW j \in Jobs
      PROVE  row'[j] = IF j \in S THEN Requeued(row[j], IF j \in failed THEN "error" ELSE "pending")
                       ELSE row[j]
  BY DEF Recover
<1>4. \A j \in S : row'[j].status = IF j \in failed THEN "error" ELSE "pending"
  BY <1>1, <1>2, <1>3
<1>5. \A q \in Procs, k \in Jobs : mem'[q][k] = mem[q][k] \/ (q = ProcOf[w] /\ k \in S)
  BY DEF Recover, Step, TypeOK, MemOK
<1>. QED
  BY <1>1, <1>3, <1>4, <1>5 DEF Recovered

LEMMA Recovers ==
    ASSUME Step, NEW w \in Workers, ReclaimStaleJobs(w) \/ StartWorker(w)
    PROVE  Safely
<1>1. CASE ReclaimStaleJobs(w)
  <2>0a. PICK S \in SUBSET Jobs : S = {j \in Jobs : Stale(row[j])}
    OBVIOUS
  <2>0b. PICK failed \in SUBSET Jobs : failed = {j \in S : ~MayRetry(row[j].attempts)}
    OBVIOUS
  <2>1. /\ pc[w] = "poll" /\ Recover(ProcOf[w], S, failed) /\ pc' = pc
        /\ UNCHANGED <<result, cancelReq, io, seen, cur, gr, beating, abandoned, graph, bg, api,
                       enqueued, happened>>
    BY <1>1, <2>0a, <2>0b DEF ReclaimStaleJobs, worker, history
  <2>2. \A j \in S : row[j].status = "processing" /\ row[j].hb = "stale"
    BY <2>0a DEF Stale
  <2>3. \A j \in S : j \in failed <=> ~MayRetry(row[j].attempts)
    BY <2>0b
  <2>4. S \in SUBSET Jobs /\ failed \in SUBSET Jobs
    OBVIOUS
  <2>4a. Working(S)
    BY <2>2 DEF Working
  <2>4b. Recovered(w, S, failed)
    BY <2>1, <2>4, <2>4a, RecoverDoes
  <2>5. /\ \A j \in S : row[j] \in Row
                          /\ row'[j].status = (IF j \in failed THEN "error" ELSE "pending")
        /\ \A j \in Jobs \ S : row'[j] = row[j]
        /\ \A q \in Procs, k \in Jobs : mem'[q][k] = mem[q][k] \/ (q = ProcOf[w] /\ k \in S)
    BY <2>4b DEF Recovered
  <2>6. ASSUME NEW j \in S, NEW u \in Workers PROVE RowSafe(row[j], row'[j], u)
    <3>1. row[j].attempts \in Nat /\ MaxAttempts \in Nat
      BY <2>5, JobQueueAssumption DEF Row
    <3>2. CASE MayRetry(row[j].attempts)
      <4>1. row[j].attempts < MaxAttempts /\ row'[j].status = "pending"
        BY <2>3, <2>5, <3>2 DEF MayRetry
      <4>. QED
        BY <2>2, <3>1, <4>1 DEF RowSafe
    <3>3. CASE ~MayRetry(row[j].attempts)
      <4>1. row[j].attempts >= MaxAttempts
        BY <3>1, <3>3 DEF MayRetry
      <4>2. Over(row'[j])
        BY <2>3, <2>5, <3>3 DEF Over, Ended
      <4>. QED
        BY <2>2, <3>1, <4>1, <4>2 DEF RowSafe
    <3>. QED
      BY <3>2, <3>3
  <2>7. \A u \in Workers : AtWork(u) \/ HandsIn(u) \/ AfterWork(u) => cur[u] \notin S
    BY <2>2, HeldRow, RowNames DEF RowOf, Ours
  <2>8. Frees(w, S)
    BY <2>1, <2>2, <2>4, <2>5, <2>6, <2>7 DEF Frees
  <2>. QED
    BY <2>1, <2>8, FreesFits
<1>2. CASE StartWorker(w)
  <2>0. PICK S \in SUBSET Jobs : S = {j \in Jobs : row[j].status = "processing" /\ row[j].owner = w}
    OBVIOUS
  <2>1. /\ pc[w] = "down" /\ Recover(ProcOf[w], S, {}) /\ pc' = [pc EXCEPT ![w] = "poll"]
        /\ UNCHANGED <<result, cancelReq, io, seen, cur, gr, beating, abandoned, graph, bg, api,
                       enqueued, happened>>
    BY <1>2, <2>0 DEF StartWorker, history
  <2>2. \A j \in S : row[j].status = "processing" /\ row[j].owner = w
    BY <2>0
  <2>3. S \in SUBSET Jobs /\ {} \in SUBSET Jobs
    OBVIOUS
  <2>3a. Working(S)
    BY <2>2 DEF Working
  <2>3b. Recovered(w, S, {})
    BY <2>1, <2>3, <2>3a, RecoverDoes
  <2>4. /\ \A j \in S : row'[j].status = "pending"
        /\ \A j \in Jobs \ S : row'[j] = row[j]
        /\ \A q \in Procs, k \in Jobs : mem'[q][k] = mem[q][k] \/ (q = ProcOf[w] /\ k \in S)
    BY <2>3b DEF Recovered
  <2>5. \A j \in S, u \in Workers \ {w} : RowSafe(row[j], row'[j], u)
    BY <2>2, RowNames DEF RowSafe
  <2>6. \A u \in Workers : AtWork(u) \/ HandsIn(u) \/ AfterWork(u) => u # w
    BY <2>1 DEF AtWork, HandsIn, AfterWork
  <2>7. \A u \in Workers : AtWork(u) \/ HandsIn(u) \/ AfterWork(u) => cur[u] \notin S
    BY <2>2, <2>6, HeldRow, RowNames DEF RowOf, Ours
  <2>8. pc'[w] = "poll" /\ \A u \in Workers \ {w} : pc'[u] = pc[u]
    BY <2>1 DEF Step, TypeOK, WorkerOK
  <2>9. Frees(w, S)
    BY <2>1, <2>2, <2>3, <2>4, <2>5, <2>7, <2>8 DEF Frees
  <2>. QED
    BY <2>1, <2>9, FreesFits
<1>. QED
  BY <1>1, <1>2

-----------------------------------------------------------------------------
(* The end of a process *)

LEMMA HaltLeaves ==
    ASSUME Step, NEW p \in Procs, Halt(p)
    PROVE  /\ \A u \in Workers : ProcOf[u] = p =>
                 /\ pc'[u] = "down" /\ cur'[u] = NoJob /\ u \notin beating'
                 /\ io'[Run(u)] = Idle /\ io'[Hb(u)] = Idle
           /\ \A u \in Workers : ProcOf[u] # p =>
                 /\ pc'[u] = pc[u] /\ cur'[u] = cur[u] /\ gr'[u] = gr[u] /\ (u \in beating' => u \in beating)
                 /\ io'[Run(u)] = io[Run(u)] /\ io'[Hb(u)] = io[Hb(u)] /\ seen'[Run(u)] = seen[Run(u)]
           /\ \A g \in Graphs : GraphProc(g) = p =>
                 graph'[g] = NoThread /\ bg'[g] = "off" /\ io'[Gt(g)] = Idle /\ io'[Bt(g)] = Idle
           /\ \A g \in Graphs : GraphProc(g) # p =>
                 /\ graph'[g] = graph[g] /\ bg'[g] = bg[g] /\ seen'[Bt(g)] = seen[Bt(g)]
                 /\ io'[Gt(g)] = io[Gt(g)] /\ io'[Bt(g)] = io[Bt(g)]
           /\ \A r \in Requests : p = ApiProc => io'[Rt(r)] = Idle /\ api'[r] = NoRequest
           /\ \A r \in Requests : p # ApiProc =>
                 io'[Rt(r)] = io[Rt(r)] /\ api'[r] = api[r] /\ seen'[Rt(r)] = seen[Rt(r)]
           /\ \A q \in Procs : q # p => mem'[q] = mem[q]
           /\ cancelReq' = [cancelReq EXCEPT ![p] = {}] /\ abandoned' \subseteq abandoned
           /\ UNCHANGED <<row, result, enqueued>>
<1>1. /\ \A u \in Workers : ProcOfThread(Run(u)) = ProcOf[u] /\ ProcOfThread(Hb(u)) = ProcOf[u]
      /\ \A g \in Graphs : ProcOfThread(Gt(g)) = GraphProc(g) /\ ProcOfThread(Bt(g)) = GraphProc(g)
      /\ \A r \in Requests : ProcOfThread(Rt(r)) = ApiProc
  BY StatusNames DEF ProcOfThread, Run, Hb, Gt, Bt, Rt
<1>2. \A t \in Threads : IF ProcOfThread(t) = p THEN io'[t] = Idle ELSE io'[t] = io[t] /\ seen'[t] = seen[t]
  BY DEF Halt
<1>3. \A u \in Workers : IF ProcOf[u] = p THEN pc'[u] = "down" /\ cur'[u] = NoJob /\ u \notin beating'
                         ELSE /\ pc'[u] = pc[u] /\ cur'[u] = cur[u] /\ gr'[u] = gr[u]
                              /\ u \in beating' => u \in beating
  BY DEF Halt
<1>4. \A g \in Graphs : IF GraphProc(g) = p THEN graph'[g] = NoThread /\ bg'[g] = "off"
                        ELSE graph'[g] = graph[g] /\ bg'[g] = bg[g]
  BY DEF Halt
<1>5. \A r \in Requests : IF p = ApiProc THEN api'[r] = NoRequest ELSE api'[r] = api[r]
  BY DEF Halt
<1>6. /\ \A q \in Procs : q # p => mem'[q] = mem[q]
      /\ cancelReq' = [cancelReq EXCEPT ![p] = {}] /\ abandoned' \subseteq abandoned
      /\ UNCHANGED <<row, result, enqueued>>
  BY DEF Halt, Step, TypeOK, MemOK, table, history
<1>7. \A u \in Workers : IF ProcOf[u] = p THEN io'[Run(u)] = Idle /\ io'[Hb(u)] = Idle
                         ELSE io'[Run(u)] = io[Run(u)] /\ io'[Hb(u)] = io[Hb(u)] /\ seen'[Run(u)] = seen[Run(u)]
  BY <1>1, <1>2, ThreadNames
<1>8. \A g \in Graphs : IF GraphProc(g) = p THEN io'[Gt(g)] = Idle /\ io'[Bt(g)] = Idle
                        ELSE io'[Gt(g)] = io[Gt(g)] /\ io'[Bt(g)] = io[Bt(g)] /\ seen'[Bt(g)] = seen[Bt(g)]
  BY <1>1, <1>2, ThreadNames
<1>9. \A r \in Requests : IF p = ApiProc THEN io'[Rt(r)] = Idle
                          ELSE io'[Rt(r)] = io[Rt(r)] /\ seen'[Rt(r)] = seen[Rt(r)]
  BY <1>1, <1>2, ThreadNames
<1>. QED
  BY <1>3, <1>4, <1>5, <1>6, <1>7, <1>8, <1>9

LEMMA Halts ==
    ASSUME Step, NEW p \in Procs, Halt(p), p = ApiProc => happened'["crash"] # 0
    PROVE  Safely
<1>1. \A u \in Workers : ProcOf[u] = p =>
         /\ pc'[u] = "down" /\ cur'[u] = NoJob /\ u \notin beating'
         /\ io'[Run(u)] = Idle /\ io'[Hb(u)] = Idle
  BY HaltLeaves
<1>2. \A u \in Workers : ProcOf[u] # p =>
         /\ pc'[u] = pc[u] /\ cur'[u] = cur[u] /\ gr'[u] = gr[u] /\ (u \in beating' => u \in beating)
         /\ io'[Run(u)] = io[Run(u)] /\ io'[Hb(u)] = io[Hb(u)] /\ seen'[Run(u)] = seen[Run(u)]
  BY HaltLeaves
<1>3. \A g \in Graphs : GraphProc(g) = p =>
         graph'[g] = NoThread /\ bg'[g] = "off" /\ io'[Gt(g)] = Idle /\ io'[Bt(g)] = Idle
  BY HaltLeaves
<1>4. \A g \in Graphs : GraphProc(g) # p =>
         /\ graph'[g] = graph[g] /\ bg'[g] = bg[g] /\ seen'[Bt(g)] = seen[Bt(g)]
         /\ io'[Gt(g)] = io[Gt(g)] /\ io'[Bt(g)] = io[Bt(g)]
  BY HaltLeaves
<1>5. /\ \A r \in Requests : p = ApiProc => io'[Rt(r)] = Idle /\ api'[r] = NoRequest
      /\ \A r \in Requests : p # ApiProc =>
           io'[Rt(r)] = io[Rt(r)] /\ api'[r] = api[r] /\ seen'[Rt(r)] = seen[Rt(r)]
  BY HaltLeaves
<1>6. /\ \A q \in Procs : q # p => mem'[q] = mem[q]
      /\ cancelReq' = [cancelReq EXCEPT ![p] = {}] /\ abandoned' \subseteq abandoned
      /\ UNCHANGED <<row, result, enqueued>>
  BY HaltLeaves
<1>7. \A g \in Graphs : graph[g].worker \in Workers => GraphProc(g) = ProcOf[graph[g].worker]
  BY DEF GraphProc
<1>8. ASSUME NEW u \in Workers PROVE WorkerFits(u)'
  <2>1. WorkerFits(u)
    BY DEF Step, RunnerInv
  <2>2. CASE ProcOf[u] = p
    <3>1. pc'[u] = "down" /\ cur'[u] = NoJob /\ u \notin beating' /\ io'[Run(u)] = Idle /\ io'[Hb(u)] = Idle
      BY <1>1, <2>2
    <3>2. Place(u)' /\ Holds(u)'
      BY <3>1 DEF Place, Holds, AtWork, HandsIn, AfterWork
    <3>3. RunWrites(u)' /\ HbWrites(u)'
      BY <3>1 DEF RunWrites, HbWrites
    <3>. QED
      BY <3>2, <3>3 DEF WorkerFits
  <2>3. CASE ProcOf[u] # p
    <3>1. mem'[ProcOf[u]] = mem[ProcOf[u]]
      BY <1>6, <2>3, JobQueueAssumption
    <3>2. MemOf(u)' = MemOf(u)
      BY <1>2, <2>3, <3>1 DEF MemOf
    <3>3. MemSafe(u)
      BY <2>1, <3>2 DEF WorkerFits, Holds, MemSafe
    <3>4. pc[u] = "join" => graph'[gr[u]] = graph[gr[u]] /\ io'[Gt(gr[u])] = io[Gt(gr[u])]
      BY <1>4, <1>7, <2>3, JoinPlaces
    <3>5. Apartly(u)
      BY <1>2, <1>6, <2>3, <3>4 DEF Apartly, RowSafe
    <3>. QED
      BY <2>1, <3>3, <3>5, WorkerFrame DEF Step, TypeOK
  <2>. QED
    BY <2>2, <2>3
<1>9. ASSUME NEW g \in Graphs PROVE PipelineFits(g)'
  <2>1. PipelineFits(g)
    BY DEF Step, RunnerInv
  <2>2. CASE GraphProc(g) = p
    <3>1. graph'[g] = NoThread /\ bg'[g] = "off" /\ io'[Gt(g)] = Idle /\ io'[Bt(g)] = Idle
      BY <1>3, <2>2
    <3>2. graph'[g].pc = "idle"
      BY <3>1 DEF NoThread
    <3>. QED
      BY <3>1, <3>2 DEF PipelineFits, Joined, Delivered, GraphWrites, BgWrites
  <2>3. CASE GraphProc(g) # p
    <3>1. graph[g].pc # "idle" => graph[g].worker \in Workers /\ ProcOf[graph[g].worker] # p
      BY <1>7, <2>1, <2>3 DEF PipelineFits, Joined
    <3>2. graph[g].pc \in {"begin", "work", "deliver", "enqueue"} =>
            pc'[graph[g].worker] = "join" /\ gr'[graph[g].worker] = g
      BY <1>2, <2>1, <3>1, StatusNames DEF PipelineFits, Joined
    <3>3. graph[g].pc = "done" => Over(mem'[ProcOf[graph[g].worker]][graph[g].job])
      BY <1>6, <2>1, <3>1, StatusNames, JobQueueAssumption DEF PipelineFits, Delivered
    <3>. QED
      BY <1>4, <1>6, <2>1, <2>3, <3>2, <3>3, PipelineFrame DEF Step, TypeOK
  <2>. QED
    BY <2>2, <2>3
<1>10. ASSUME NEW r \in Requests PROVE RequestFits(r)'
  <2>1. RequestFits(r)
    BY DEF Step, RunnerInv
  <2>2. CASE p = ApiProc
    <3>1. io'[Rt(r)] = Idle /\ api'[r].pc = "idle"
      BY <1>5, <2>2 DEF NoRequest
    <3>. QED
      BY <3>1 DEF RequestFits, ApiWrites, Polls
  <2>3. CASE p # ApiProc
    <3>1. \A s \in Requests : io'[Rt(s)] = io[Rt(s)] /\ api'[s] = api[s] /\ seen'[Rt(s)] = seen[Rt(s)]
      BY <1>5, <2>3
    <3>2. happened'["poll"] = 0 => happened["poll"] = 0
      BY DEF Step, CountsKept, Kinds
    <3>. QED
      BY <1>6, <2>1, <3>1, <3>2, RequestFrame DEF Step, TypeOK
  <2>. QED
    BY <2>2, <2>3
<1>11. ASSUME NEW j \in Jobs PROVE RowFits(j)'
  <2>1. happened'["crash"] = 0 => happened["crash"] = 0 /\ mem'[ApiProc] = mem[ApiProc]
    BY <1>6, JobQueueAssumption DEF Step, CountsKept, Kinds
  <2>. QED
    BY <1>6, <2>1, RowFrame DEF Step, TypeOK, RunnerInv
<1>12. SingleRunner'
  <2>1. \A u \in Workers : cur'[u] # NoJob => cur'[u] = cur[u] /\ pc'[u] = pc[u]
    BY <1>1, <1>2
  <2>. QED
    BY <2>1 DEF SingleRunner, Step, RunnerInv
<1>13. NothingTakenBack'
  BY <1>6 DEF NothingTakenBack, Step, RunnerInv, TypeOK, RestOK
<1>14. \A j \in Jobs : Over(row[j]) => Over(row'[j])
  BY <1>6
<1>. QED
  BY <1>8, <1>9, <1>10, <1>11, <1>12, <1>13, <1>14 DEF Safely, RunnerInv

LEMMA Ends ==
    ASSUME Step
    PROVE  /\ \A p \in Procs : Crash(p) => Safely
           /\ \A w \in Workers : ExitProcess(w) => Safely
<1>1. ASSUME NEW p \in Procs, Crash(p) PROVE Safely
  <2>1. happened'["crash"] # 0
    BY <1>1, SpentCounts DEF Crash, Kinds, Step, TypeOK
  <2>. QED
    BY <1>1, <2>1, Halts DEF Crash
<1>2. ASSUME NEW w \in Workers, ExitProcess(w) PROVE Safely
  BY <1>2, Halts, JobQueueAssumption DEF ExitProcess, Step, Apart
<1>. QED
  BY <1>1, <1>2

LEMMA LoopStep ==
    ASSUME Step, NEW w \in Workers, Loop(w)
    PROVE  Safely \/ UNCHANGED vars
BY Recovers, Claims, Releases, Ends DEF Loop, IdlePoll

-----------------------------------------------------------------------------
(* Time *)

LEMMA AgeKeeps ==
    /\ \A e \in Entry : Age(e).status = e.status /\ Age(e).attempts = e.attempts
    /\ \A e \in Row \cup {Blank} : Age(e) = Blank <=> e = Blank
<1>1. ASSUME NEW e \in Entry PROVE Age(e).status = e.status /\ Age(e).attempts = e.attempts
  BY DEF Age, Entry
<1>2. ASSUME NEW e \in Row PROVE Age(e) # Blank /\ e # Blank
  BY <1>1, RowIsEntry, BlankIsEntry, AgeType
<1>3. Age(Blank) = Blank
  BY UnsetIsNew DEF Age, Blank
<1>. QED
  BY <1>1, <1>2, <1>3

\* A write that has aged.
SameWrite(x, y) ==
    /\ y.stage = x.stage /\ y.job = x.job /\ y.withResult = x.withResult
    /\ y.snap.status = x.snap.status /\ y.base.status = x.base.status
    /\ y.base = Blank <=> x.base = Blank
    /\ y = Idle <=> x = Idle

LEMMA AgeWrite ==
    ASSUME NEW x \in InFlight, x.job # NoJob
    PROVE  SameWrite(x, [x EXCEPT !.snap = Age(@), !.base = Age(@)])
<1> DEFINE y == [x EXCEPT !.snap = Age(@), !.base = Age(@)]
<1>1. /\ y.stage = x.stage /\ y.job = x.job /\ y.withResult = x.withResult
      /\ y.snap = Age(x.snap) /\ y.base = Age(x.base)
      /\ x.snap \in Entry /\ x.base \in Row \cup {Blank}
  BY DEF InFlight
<1>2. Idle.job = NoJob
  BY DEF Idle
<1>. HIDE DEF y
<1>3. x.base \in Entry
  BY <1>1, RowIsEntry, BlankIsEntry
<1>4. y # Idle /\ x # Idle
  BY <1>1, <1>2
<1>. QED
  BY <1>1, <1>3, <1>4, AgeKeeps DEF SameWrite, y

LEMMA StallDoes ==
    ASSUME Step, NEW j \in Jobs, StallWindow(j)
    PROVE  /\ row[j].status = "processing" /\ row'[j].status = "processing"
           /\ row'[j].owner = row[j].owner /\ row'[j].attempts = row[j].attempts
           /\ \A k \in Jobs \ {j} : row'[k] = row[k]
           /\ \A p \in Procs, k \in Jobs : k # j => mem'[p][k] = mem[p][k]
           /\ \A p \in Procs : mem'[p][j].status = mem[p][j].status
           /\ \A t \in Threads : SameWrite(io[t], io'[t]) /\ (io[t].job # j => io'[t] = io[t])
           /\ \A t \in Threads : /\ seen'[t].found = seen[t].found
                                 /\ seen'[t].entry.status = seen[t].entry.status
                                 /\ seen'[t].entry.attempts = seen[t].entry.attempts
           /\ \A u \in Workers : cur[u] # j
           /\ UNCHANGED <<result, cancelReq, pc, cur, gr, beating, abandoned, graph, bg, api,
                          enqueued, happened>>
<1>1. row[j].status = "processing" /\ row[j] \in Row
  BY RowNames, RowsKnown DEF StallWindow, Step, TypeOK
<1>2. row'[j] = [row[j] EXCEPT !.hb = "stale"] /\ \A k \in Jobs \ {j} : row'[k] = row[k]
  BY DEF StallWindow, Step, TypeOK, RowOK
<1>3. row'[j].status = row[j].status /\ row'[j].owner = row[j].owner /\ row'[j].attempts = row[j].attempts
  BY <1>1, <1>2 DEF Row
<1>4. ASSUME NEW p \in Procs
      PROVE  /\ \A k \in Jobs : k # j => mem'[p][k] = mem[p][k]
             /\ mem'[p][j].status = mem[p][j].status
  <2>1. mem[p] \in [Jobs -> Entry]
    BY DEF Step, TypeOK, MemOK
  <2>2. mem'[p] = [mem[p] EXCEPT ![j] = Age(@)]
    BY DEF StallWindow
  <2>. QED
    BY <2>1, <2>2, AgeKeeps
<1>5. ASSUME NEW t \in Threads PROVE SameWrite(io[t], io'[t]) /\ (io[t].job # j => io'[t] = io[t])
  <2>1. io[t] \in InFlight /\ j # NoJob
    BY JobQueueAssumption DEF Step, TypeOK, IoOK
  <2>2. io'[t] = IF io[t].job = j THEN [io[t] EXCEPT !.snap = Age(@), !.base = Age(@)] ELSE io[t]
    BY DEF StallWindow
  <2>3. CASE io[t].job = j
    BY <2>1, <2>2, <2>3, AgeWrite
  <2>4. CASE io[t].job # j
    BY <2>2, <2>4 DEF SameWrite
  <2>. QED
    BY <2>3, <2>4
<1>6. ASSUME NEW t \in Threads
      PROVE  /\ seen'[t].found = seen[t].found
             /\ seen'[t].entry.status = seen[t].entry.status
             /\ seen'[t].entry.attempts = seen[t].entry.attempts
  <2>1. seen[t] \in [found : BOOLEAN, entry : Entry]
    BY DEF Step, TypeOK, SeenOK
  <2>2. seen'[t] = [seen[t] EXCEPT !.entry = Age(@)]
    BY DEF StallWindow
  <2>3. seen'[t].found = seen[t].found /\ seen'[t].entry = Age(seen[t].entry) /\ seen[t].entry \in Entry
    BY <2>1, <2>2
  <2>. QED
    BY <2>3, AgeKeeps
<1>7. ~Attended(j) /\ UNCHANGED happened
  BY NothingSpent DEF StallWindow, Disturbing
<1>8. UNCHANGED <<result, cancelReq, pc, cur, gr, beating, abandoned, graph, bg, api, enqueued>>
  BY DEF StallWindow, worker, history
<1>9. \A u \in Workers : cur[u] # j
  BY <1>7 DEF Attended
<1>. QED
  BY <1>1, <1>2, <1>3, <1>4, <1>5, <1>6, <1>7, <1>8, <1>9

LEMMA Stalls ==
    ASSUME Step, NEW j \in Jobs, StallWindow(j)
    PROVE  Safely
<1>1. /\ row[j].status = "processing" /\ row'[j].status = "processing"
      /\ row'[j].owner = row[j].owner /\ row'[j].attempts = row[j].attempts
      /\ \A k \in Jobs \ {j} : row'[k] = row[k]
  BY StallDoes
<1>2. /\ \A p \in Procs, k \in Jobs : k # j => mem'[p][k] = mem[p][k]
      /\ \A p \in Procs : mem'[p][j].status = mem[p][j].status
  BY StallDoes
<1>3. \A t \in Threads : SameWrite(io[t], io'[t]) /\ (io[t].job # j => io'[t] = io[t])
  BY StallDoes
<1>4. \A t \in Threads : /\ seen'[t].found = seen[t].found
                         /\ seen'[t].entry.status = seen[t].entry.status
                         /\ seen'[t].entry.attempts = seen[t].entry.attempts
  BY StallDoes
<1>5. /\ \A u \in Workers : cur[u] # j
      /\ UNCHANGED <<result, cancelReq, pc, cur, gr, beating, abandoned, graph, bg, api,
                     enqueued, happened>>
  BY StallDoes
<1>6. \A k \in Jobs : Over(row[k]) => k # j /\ row'[k] = row[k]
  BY <1>1, RowNames
<1>7. row[j] # Blank /\ j \in enqueued /\ j \notin result
  BY <1>1, RowNames, RowEnqueued DEF Step, RunnerInv, RowFits
<1>8. ASSUME NEW u \in Workers PROVE WorkerFits(u)'
  <2>1. WorkerFits(u)
    BY DEF Step, RunnerInv
  <2>2. /\ AtWork(u)' <=> AtWork(u)
        /\ HandsIn(u)' <=> HandsIn(u)
        /\ AfterWork(u)' <=> AfterWork(u)
    BY <1>5 DEF AtWork, HandsIn, AfterWork
  <2>3. AtWork(u) \/ HandsIn(u) \/ AfterWork(u) => RowOf(u)' = RowOf(u) /\ MemOf(u)' = MemOf(u)
    BY <1>1, <1>2, <1>5, HeldRow DEF RowOf, MemOf
  <2>4. Place(u)'
    BY <1>5, <2>1 DEF WorkerFits, Place
  <2>5. pc[u] = "failing" => AtWork(u)
    BY DEF AtWork
  <2>6. HandsIn(u) /\ Hand(io[Gt(gr[u])]) => Hand(io'[Gt(gr[u])])
    <3>1. HandsIn(u) => gr[u] \in Graphs
      BY JoinPlaces DEF HandsIn
    <3>. QED
      BY <1>3, <3>1, ThreadNames DEF Hand, SameWrite
  <2>7. Holds(u)'
    BY <1>4, <1>5, <2>1, <2>2, <2>3, <2>5, <2>6, ThreadNames DEF WorkerFits, Holds
  <2>8. RunWrites(u)'
    <3>0. PICK x : x = io[Run(u)]
      OBVIOUS
    <3>1. /\ SameWrite(x, io'[Run(u)]) /\ (x.job # j => io'[Run(u)] = x)
          /\ Hand(x) => x.job \in Jobs
      BY <1>3, <3>0, ThreadNames DEF Hand, Step, TypeOK, IoOK
    <3>2. x # Idle =>
            \/ pc[u] \in {"begun", "download", "launch"} /\ x.job = cur[u] /\ OwnHand(x, u)
            \/ /\ pc[u] = "published" /\ x.job = cur[u] /\ x.stage # "idle"
               /\ Hand(x) => Over(x.snap)
               /\ x.stage = "commit" => Over(x.base)
            \/ /\ pc[u] = "exiting" /\ x.job = cur[u] /\ Hand(x)
               /\ x.snap.status = "pending" /\ Ours(RowOf(u), u)
               /\ x.stage = "commit" => Ours(x.base, u)
            \/ pc[u] = "poll" /\ Hand(x) /\ (GivesBack(x, row[x.job], u) \/ GivesUp(x, row[x.job], u))
      BY <2>1, <3>0 DEF WorkerFits, RunWrites
    <3>3. CASE x.job # j
      <4>1. Hand(x) => row'[x.job] = row[x.job]
        BY <1>1, <3>1, <3>3
      <4>2. Hand(x) /\ x.job = cur[u] => RowOf(u)' = RowOf(u)
        BY <1>5, <4>1 DEF RowOf
      <4>3. io'[Run(u)] = x /\ pc'[u] = pc[u] /\ cur'[u] = cur[u]
        BY <1>5, <3>1, <3>3
      <4>. QED
        BY <3>2, <4>1, <4>2, <4>3 DEF RunWrites
    <3>4. CASE x.job = j
      <4>1. x.job # cur[u]
        BY <1>5, <3>4
      <4>2. x # Idle => pc[u] = "poll" /\ Hand(x) /\ (GivesBack(x, row[j], u) \/ GivesUp(x, row[j], u))
        BY <3>2, <3>4, <4>1
      <4>3. PICK y : y = io'[Run(u)]
        OBVIOUS
      <4>4. SameWrite(x, y) /\ y.job = j
        BY <3>1, <3>4, <4>3 DEF SameWrite
      <4>5. GivesBack(x, row[j], u) => GivesBack(y, row'[j], u)
        BY <1>1, <4>4 DEF GivesBack, SameWrite
      <4>6. GivesUp(x, row[j], u) => GivesUp(y, row'[j], u)
        BY <1>1, <4>4 DEF GivesUp, SameWrite, Over
      <4>7. y # Idle => pc'[u] = "poll" /\ Hand(y) /\ (GivesBack(y, row'[y.job], u) \/ GivesUp(y, row'[y.job], u))
        BY <1>5, <4>2, <4>4, <4>5, <4>6 DEF SameWrite, Hand
      <4>. QED
        BY <4>3, <4>7 DEF RunWrites
    <3>. QED
      BY <3>3, <3>4
  <2>9. HbWrites(u)'
    <3>1. io[Hb(u)] # Idle => io'[Hb(u)] = io[Hb(u)] /\ RowOf(u)' = RowOf(u)
      <4>1. SUFFICES ASSUME io[Hb(u)] # Idle PROVE io'[Hb(u)] = io[Hb(u)] /\ RowOf(u)' = RowOf(u)
        OBVIOUS
      <4>2. io[Hb(u)].job = cur[u] /\ pc[u] \in {"join", "finished", "fail"}
        BY <2>1, <4>1 DEF WorkerFits, HbWrites
      <4>3. cur[u] \in Jobs /\ cur[u] # j
        BY <1>5, <4>2 DEF Step, TypeOK, WorkerOK
      <4>. QED
        BY <1>1, <1>3, <1>5, <4>2, <4>3, ThreadNames DEF RowOf
    <3>2. io[Hb(u)] = Idle => io'[Hb(u)] = Idle
      BY <1>3, ThreadNames DEF SameWrite
    <3>. QED
      BY <1>5, <2>1, <3>1, <3>2 DEF WorkerFits, HbWrites
  <2>. QED
    BY <2>4, <2>7, <2>8, <2>9 DEF WorkerFits
<1>9. ASSUME NEW g \in Graphs PROVE PipelineFits(g)'
  <2>1. PipelineFits(g)
    BY DEF Step, RunnerInv
  <2>2. Joined(g)'
    BY <1>5, <2>1 DEF PipelineFits, Joined
  <2>3. graph[g].pc \in {"begin", "work", "deliver", "enqueue", "done"} =>
          graph[g].job \in Jobs /\ graph[g].job # j /\ graph[g].worker \in Workers
    <3>1. CASE graph[g].pc \in {"begin", "work", "deliver", "enqueue"}
      BY <1>5, <2>1, <3>1, JoinPlaces, StatusNames DEF PipelineFits, Joined, Step, TypeOK, PipelineOK
    <3>2. CASE graph[g].pc = "done"
      BY <1>6, <2>1, <3>2 DEF PipelineFits, Joined, Delivered, Step, TypeOK, PipelineOK
    <3>. QED
      BY <3>1, <3>2
  <2>4. /\ io[Gt(g)] # Idle => io[Gt(g)].job = graph[g].job /\ graph[g].pc \in {"work", "deliver", "enqueue"}
        /\ io[Bt(g)] # Idle => io[Bt(g)].job = graph[g].job /\ graph[g].pc = "done"
    BY <2>1 DEF PipelineFits, GraphWrites, BgWrites
  <2>5. io'[Gt(g)] = io[Gt(g)] /\ io'[Bt(g)] = io[Bt(g)]
    BY <1>3, <2>3, <2>4, ThreadNames DEF SameWrite
  <2>6. Delivered(g)'
    <3>1. ASSUME graph[g].pc = "done"
          PROVE  /\ Over(row'[graph[g].job])
                 /\ Over(mem'[ProcOf[graph[g].worker]][graph[g].job])
      BY <1>2, <1>6, <2>1, <2>3, <3>1, JobQueueAssumption DEF PipelineFits, Delivered
    <3>2. bg[g] = "finalizing" /\ seen'[Bt(g)].found => Over(seen'[Bt(g)].entry)
      BY <1>4, <2>1, ThreadNames DEF PipelineFits, Delivered, Over
    <3>. QED
      BY <1>5, <3>1, <3>2 DEF Delivered
  <2>7. graph[g].pc \in {"work", "deliver", "enqueue", "done"} => row'[graph[g].job] = row[graph[g].job]
    BY <1>1, <2>3
  <2>8. GraphWrites(g)' /\ BgWrites(g)'
    BY <1>5, <2>1, <2>4, <2>5, <2>7 DEF PipelineFits, GraphWrites, BgWrites
  <2>. QED
    BY <2>2, <2>6, <2>8 DEF PipelineFits
<1>10. ASSUME NEW r \in Requests PROVE RequestFits(r)'
  <2>1. RequestFits(r)
    BY DEF Step, RunnerInv
  <2>2. \A s \in Requests : io'[Rt(s)].job = io[Rt(s)].job
    BY <1>3, ThreadNames DEF SameWrite
  <2>3. ApiWrites(r)'
    <3>1. CASE io[Rt(r)] = Idle
      BY <1>3, <3>1, ThreadNames DEF ApiWrites, SameWrite
    <3>2. CASE io[Rt(r)] # Idle
      <4>1. /\ Hand(io[Rt(r)]) /\ ~io[Rt(r)].withResult /\ io[Rt(r)].job \in enqueued
            /\ \/ Heals(io[Rt(r)])
               \/ Enqueues(io[Rt(r)]) /\ \A s \in Requests : io[Rt(s)].job = io[Rt(r)].job => s = r
        BY <2>1, <3>2 DEF RequestFits, ApiWrites
      <4>2. io[Rt(r)].job \in Jobs
        BY <4>1 DEF Step, TypeOK, RestOK
      <4>3. io[Rt(r)].job # j
        BY <1>6, <1>7, <4>1, <4>2 DEF Heals, Enqueues
      <4>4. io'[Rt(r)] = io[Rt(r)] /\ row'[io[Rt(r)].job] = row[io[Rt(r)].job]
        BY <1>1, <1>3, <4>2, <4>3, ThreadNames
      <4>. QED
        BY <1>5, <2>2, <4>1, <4>4 DEF ApiWrites, Heals, Enqueues
    <3>. QED
      BY <3>1, <3>2
  <2>4. api[r].pc # "idle" /\ seen[Rt(r)].found /\ Known(seen[Rt(r)].entry, api[r].job)
          => Known(seen[Rt(r)].entry, api[r].job)'
    <3>1. api[r].pc # "idle" => api[r].job \in Jobs
      BY DEF Step, TypeOK, ApiOK
    <3>. QED
      BY <1>4, <1>5, <1>6, <3>1, ThreadNames DEF Known, Over
  <2>5. Polls(r)'
    BY <1>4, <1>5, <2>1, <2>4, ThreadNames DEF RequestFits, Polls
  <2>. QED
    BY <2>3, <2>5 DEF RequestFits
<1>11. ASSUME NEW k \in Jobs PROVE RowFits(k)'
  <2>1. RowFits(k)
    BY DEF Step, RunnerInv
  <2>2. CASE k = j
    <3>1. Known(mem[ApiProc][j], j) => mem[ApiProc][j].status = "pending"
      BY <1>6 DEF Known
    <3>2. Known(mem[ApiProc][j], j) => Known(mem[ApiProc][j], j)'
      BY <1>2, <3>1, JobQueueAssumption DEF Known
    <3>. QED
      BY <1>1, <1>5, <1>7, <2>1, <2>2, <3>2, StatusNames DEF RowFits
  <2>3. CASE k # j
    <3>1. mem'[ApiProc][k] = mem[ApiProc][k] /\ row'[k] = row[k]
      BY <1>1, <1>2, <2>3, JobQueueAssumption
    <3>. QED
      BY <1>5, <2>1, <3>1 DEF RowFits, Known
  <2>. QED
    BY <2>2, <2>3
<1>12. SingleRunner' /\ NothingTakenBack'
  BY <1>5 DEF SingleRunner, NothingTakenBack, Step, RunnerInv
<1>13. \A k \in Jobs : Over(row[k]) => Over(row'[k])
  BY <1>6
<1>. QED
  BY <1>8, <1>9, <1>10, <1>11, <1>12, <1>13 DEF Safely, RunnerInv

-----------------------------------------------------------------------------
(* Requests *)

\* A request changes what the API process knows, and nothing a worker relies on.
ApiMoves(r) ==
    /\ UNCHANGED <<row, result, cancelReq, pc, cur, gr, beating, abandoned, graph, bg>>
    /\ \A s \in Requests \ {r} : api'[s] = api[s]
    /\ IoElsewhere({Rt(r)}) /\ SeenElsewhere({Rt(r)})
    /\ \A q \in Procs : q # ApiProc => mem'[q] = mem[q]
    /\ enqueued \subseteq enqueued'
    /\ \A k \in Jobs : \/ k \notin enqueued'
                       \/ Known(mem'[ApiProc][k], k)
                       \/ mem'[ApiProc][k] = mem[ApiProc][k] /\ k \in enqueued
    /\ \/ io'[Rt(r)].job = io[Rt(r)].job
       \/ \A s \in Requests \ {r} : io[Rt(s)] # Idle /\ row[io[Rt(s)].job] = Blank =>
             io'[Rt(r)].job # io[Rt(s)].job

LEMMA ApiLocal ==
    ASSUME Step, NEW r \in Requests, ApiMoves(r), RequestFits(r)'
    PROVE  Safely
<1>1. /\ UNCHANGED <<row, result, cancelReq, pc, cur, gr, beating, abandoned, graph, bg>>
      /\ \A s \in Requests \ {r} : api'[s] = api[s]
      /\ IoElsewhere({Rt(r)}) /\ SeenElsewhere({Rt(r)})
      /\ \A q \in Procs : q # ApiProc => mem'[q] = mem[q]
      /\ enqueued \subseteq enqueued'
  BY DEF ApiMoves
<1>2. \A u \in Workers : mem'[ProcOf[u]] = mem[ProcOf[u]]
  BY <1>1, JobQueueAssumption DEF Step, Apart
<1>3. ASSUME NEW u \in Workers PROVE WorkerFits(u)'
  <2>1. WorkerFits(u)
    BY DEF Step, RunnerInv
  <2>2. MemSafe(u)
    BY <1>1, <1>2, <2>1 DEF MemSafe, MemOf, WorkerFits, Holds
  <2>3. io'[Run(u)] = io[Run(u)] /\ io'[Hb(u)] = io[Hb(u)] /\ seen'[Run(u)] = seen[Run(u)]
    BY <1>1, ThreadNames, ThreadsApart DEF IoElsewhere, SeenElsewhere
  <2>4. pc[u] = "join" => io'[Gt(gr[u])] = io[Gt(gr[u])]
    BY <1>1, ThreadNames, ThreadsApart, JoinPlaces DEF IoElsewhere
  <2>5. Apartly(u)
    BY <1>1, <2>3, <2>4 DEF Apartly, RowSafe
  <2>. QED
    BY <2>1, <2>2, <2>5, WorkerFrame DEF Step, TypeOK
<1>4. ASSUME NEW g \in Graphs PROVE PipelineFits(g)'
  <2>1. PipelineFits(g)
    BY DEF Step, RunnerInv
  <2>2. io'[Gt(g)] = io[Gt(g)] /\ io'[Bt(g)] = io[Bt(g)] /\ seen'[Bt(g)] = seen[Bt(g)]
    BY <1>1, ThreadNames, ThreadsApart DEF IoElsewhere, SeenElsewhere
  <2>3. graph[g].pc \in {"begin", "work", "deliver", "enqueue"} =>
          pc'[graph[g].worker] = "join" /\ gr'[graph[g].worker] = g
    BY <1>1, <2>1 DEF PipelineFits, Joined
  <2>4. graph[g].pc = "done" => Over(mem'[ProcOf[graph[g].worker]][graph[g].job])
    BY <1>2, <2>1, StatusNames DEF PipelineFits, Joined, Delivered
  <2>. QED
    BY <1>1, <2>1, <2>2, <2>3, <2>4, PipelineFrame DEF Step, TypeOK
<1>5. ASSUME NEW s \in Requests, s # r PROVE RequestFits(s)'
  <2>1. io'[Rt(s)] = io[Rt(s)] /\ seen'[Rt(s)] = seen[Rt(s)]
    BY <1>1, <1>5, ThreadNames, ThreadsApart DEF IoElsewhere, SeenElsewhere
  <2>2. io[Rt(s)] # Idle /\ row[io[Rt(s)].job] = Blank =>
          \A q \in Requests : io'[Rt(q)].job = io[Rt(q)].job \/ io'[Rt(q)].job # io[Rt(s)].job
    <3>1. \A q \in Requests \ {r} : io'[Rt(q)] = io[Rt(q)]
      BY <1>1, ThreadNames, ThreadsApart DEF IoElsewhere
    <3>. QED
      BY <1>5, <3>1 DEF ApiMoves
  <2>3. happened'["poll"] = 0 => happened["poll"] = 0
    BY DEF Step, CountsKept, Kinds
  <2>. QED
    BY <1>1, <1>5, <2>1, <2>2, <2>3, RequestFrame DEF Step, TypeOK, RunnerInv
<1>6. ASSUME NEW k \in Jobs PROVE RowFits(k)'
  <2>1. happened'["crash"] = 0 => happened["crash"] = 0
    BY DEF Step, CountsKept, Kinds
  <2>2. \/ k \notin enqueued'
        \/ Known(mem'[ApiProc][k], k)
        \/ mem'[ApiProc][k] = mem[ApiProc][k] /\ k \in enqueued
    BY DEF ApiMoves
  <2>3. k \in enqueued' =>
          \/ mem'[ApiProc][k].status = "pending"
          \/ Over(mem'[ApiProc][k]) /\ Over(row'[k])
          \/ mem'[ApiProc][k] = mem[ApiProc][k] /\ k \in enqueued
    BY <1>1, <2>2 DEF Known
  <2>. QED
    BY <1>1, <2>1, <2>3, RowFrame DEF Step, TypeOK, RunnerInv
<1>7. SingleRunner' /\ NothingTakenBack'
  BY <1>1 DEF SingleRunner, NothingTakenBack, Step, RunnerInv
<1>8. \A j \in Jobs : Over(row[j]) => Over(row'[j])
  BY <1>1
<1>. QED
  BY <1>3, <1>4, <1>5, <1>6, <1>7, <1>8 DEF Safely, RunnerInv

LEMMA ApiGoes ==
    ASSUME ApiOK, NEW r \in Requests, NEW label \in ApiPcs, ApiGoto(r, label)
    PROVE  /\ api'[r].pc = label
           /\ label # "idle" => api'[r].job = api[r].job
           /\ \A s \in Requests \ {r} : api'[s] = api[s]
BY DEF ApiOK, ApiGoto, NoRequest

\* What the row and the cache say of a job that waits or is over, get_job says too.
LEMMA ViewKnown ==
    ASSUME Step, NEW j \in Jobs, row[j] # Blank, NEW m \in Entry, Known(m, j)
    PROVE  Known(View(row[j], m), j)
<1>1. row[j] \in Row /\ row[j].status # "cancelled"
  BY RowsKnown DEF Step, TypeOK, RunnerInv, RowFits
<1>2. CASE Over(row[j])
  BY <1>1, <1>2, ViewOver DEF Known
<1>3. CASE ~Over(row[j])
  <2>1. m.status = "pending"
    BY <1>3 DEF Known
  <2>2. row[j].status \in Active /\ row[j].status \notin Done
    BY <1>1, <1>3 DEF Row, Statuses, Over, Ended, Done, Active
  <2>3. CacheWins(row[j], m)
    BY <2>1, <2>2 DEF CacheWins, Active
  <2>4. View(row[j], m).status = IF CacheWins(row[j], m) THEN m.status ELSE row[j].status
    BY <1>1 DEF View, Row
  <2>. QED
    BY <2>1, <2>3, <2>4 DEF Known
<1>. QED
  BY <1>2, <1>3

LEMMA PollHas ==
    ASSUME Step, NEW r \in Requests, api[r].pc # "idle"
    PROVE  /\ api[r].pc \in {"poll", "heal", "healing", "settle", "confirm"}
           /\ api[r].job \in Jobs /\ api[r].job \in enqueued
           /\ happened["poll"] # 0 /\ happened'["poll"] # 0 /\ happened["crash"] = 0
           /\ Known(mem[ApiProc][api[r].job], api[r].job) /\ mem[ApiProc][api[r].job] \in Entry
           /\ ApiEntry(r) \in Entry /\ Known(ApiEntry(r), api[r].job)
           /\ api[r].pc = "healing" => Over(row[api[r].job])
<1>1. Polls(r)
  BY DEF Step, RunnerInv, RequestFits
<1>2. /\ api[r].pc \in {"poll", "heal", "healing", "settle", "confirm"}
      /\ happened["poll"] # 0 /\ api[r].job \in enqueued
      /\ seen[Rt(r)].found => Known(seen[Rt(r)].entry, api[r].job)
      /\ api[r].pc = "healing" => api[r].job \in result
  BY <1>1 DEF Polls
<1>3. api[r].job \in Jobs
  BY DEF Step, TypeOK, ApiOK
<1>4. happened'["poll"] # 0 /\ happened["crash"] = 0
  BY <1>2 DEF Step, CountsKept, Kinds, Calm
<1>5. Known(mem[ApiProc][api[r].job], api[r].job) /\ (api[r].job \in result => Over(row[api[r].job]))
  BY <1>2, <1>3, <1>4 DEF Step, RunnerInv, RowFits
<1>6. mem[ApiProc][api[r].job] \in Entry /\ ApiEntry(r) \in Entry
  BY <1>3, JobQueueAssumption, ThreadNames DEF ApiEntry, Returned, Step, TypeOK, MemOK, SeenOK
<1>7. Known(ApiEntry(r), api[r].job)
  BY <1>2, <1>5 DEF ApiEntry, Returned
<1>. QED
  BY <1>2, <1>3, <1>4, <1>5, <1>6, <1>7

\* A poll goes on.
Polling == UNCHANGED <<row, result, cancelReq, pc, cur, gr, beating, abandoned, graph, bg, enqueued>>
HealsNow(r) ==
    LET w == io'[Rt(r)] IN
    /\ w.stage = "row" /\ ~w.withResult /\ w.job = api[r].job
    /\ Over(w.snap) /\ Over(row[api[r].job])

LEMMA PollTurns ==
    ASSUME Step, NEW r \in Requests, api[r].pc # "idle", io[Rt(r)] = Idle, Polling,
           NEW label \in {"idle", "heal", "healing", "settle", "confirm"}, ApiGoto(r, label),
           label = "healing" => api[r].job \in result,
           IoElsewhere({Rt(r)}), SeenElsewhere({Rt(r)}), MemElsewhere(ApiProc, api[r].job),
           Known(mem'[ApiProc][api[r].job], api[r].job),
           seen'[Rt(r)].found => Known(seen'[Rt(r)].entry, api[r].job),
           io'[Rt(r)] = Idle \/ HealsNow(r)
    PROVE  Safely
<1>1. /\ api[r].job \in Jobs /\ api[r].job \in enqueued /\ happened'["poll"] # 0
      /\ \A k \in Jobs : k \in enqueued' => k \in enqueued
  BY PollHas DEF Polling
<1>2. label \in ApiPcs
  BY DEF ApiPcs
<1>3. /\ api'[r].pc = label /\ (label # "idle" => api'[r].job = api[r].job)
      /\ \A s \in Requests \ {r} : api'[s] = api[s]
  BY <1>2, ApiGoes DEF Step, TypeOK
<1>4. api'[r].pc # "idle" /\ seen'[Rt(r)].found =>
          LET e == seen'[Rt(r)].entry IN
          e.status = "pending" \/ (Over(e) /\ Over(row'[api'[r].job]))
  BY <1>3 DEF Known, Polling
<1>5. ASSUME MemOK', MemOK, NEW q \in Procs, q # ApiProc PROVE mem'[q] = mem[q]
  <2>1. mem'[q] \in [Jobs -> Entry] /\ mem[q] \in [Jobs -> Entry]
    BY <1>5 DEF MemOK
  <2>2. \A k \in Jobs : mem'[q][k] = mem[q][k]
    BY <1>5 DEF MemElsewhere
  <2>. QED
    BY <2>1, <2>2
<1>6. \A q \in Procs : q # ApiProc => mem'[q] = mem[q]
  BY <1>5 DEF Step, TypeOK
<1>7. ASSUME NEW k \in Jobs
      PROVE  \/ k \notin enqueued'
             \/ Known(mem'[ApiProc][k], k)
             \/ mem'[ApiProc][k] = mem[ApiProc][k] /\ k \in enqueued
  BY <1>1, JobQueueAssumption DEF MemElsewhere
<1>8. \/ io'[Rt(r)].job = io[Rt(r)].job
      \/ \A s \in Requests \ {r} : io[Rt(s)] # Idle /\ row[io[Rt(s)].job] = Blank =>
            io'[Rt(r)].job # io[Rt(s)].job
  BY RowNames DEF HealsNow
<1>9. ApiMoves(r)
  BY <1>3, <1>6, <1>7, <1>8 DEF ApiMoves, Polling
<1>10. Polls(r)'
  <2>1. api'[r].pc \in {"idle", "poll", "heal", "healing", "settle", "confirm"}
    BY <1>3
  <2>2. api'[r].pc # "idle" => api'[r].job \in enqueued'
    BY <1>1, <1>3 DEF Polling
  <2>3. api'[r].pc = "healing" => api'[r].job \in result'
    BY <1>3 DEF Polling
  <2>. QED
    BY <1>1, <1>4, <2>1, <2>2, <2>3 DEF Polls, Known
<1>11. ApiWrites(r)'
  BY <1>1 DEF ApiWrites, HealsNow, Heals, Hand, Polling
<1>. QED
  BY <1>9, <1>10, <1>11, ApiLocal DEF RequestFits

LEMMA NewJob ==
    ASSUME Step, NEW r \in Requests, NEW j \in Jobs, EnqueueJob(r, j)
    PROVE  Safely
<1>1. /\ api[r].pc = "idle" /\ io[Rt(r)] = Idle /\ j \notin enqueued
      /\ Upsert(Rt(r), ApiProc, j, NewRow) /\ enqueued' = enqueued \cup {j}
      /\ UNCHANGED <<row, result, cancelReq, seen, pc, cur, gr, beating, abandoned, graph, bg, api>>
  BY DEF EnqueueJob, ApiAt, table, worker
<1>2. NewRow \in Entry /\ mem[ApiProc][j] \in Entry
  BY NewRowIsRow, RowIsEntry, JobQueueAssumption DEF Step, TypeOK, MemOK
<1>3. UpsertOn(mem[ApiProc][j], Rt(r), ApiProc, j, NewRow, FALSE)
  BY <1>1 DEF Upsert
<1>4. Upserted(mem[ApiProc][j], Rt(r), ApiProc, j, NewRow, FALSE)
  BY <1>2, <1>3, ThreadNames, UpsertDoes, JobQueueAssumption DEF Step, TypeOK
<1>5. Merge(NewRow, mem[ApiProc][j]).status = "pending"
  <2>1. NewRow.status = "pending"
    BY DEF NewRow
  <2>2. Merge(NewRow, mem[ApiProc][j]).status = Or(NewRow.status, mem[ApiProc][j].status)
    BY DEF Merge
  <2>. QED
    BY <2>1, <2>2, RowNames DEF Or
<1>6. /\ io'[Rt(r)].stage = "row" /\ io'[Rt(r)].job = j /\ ~io'[Rt(r)].withResult
      /\ io'[Rt(r)].snap.status = "pending" /\ mem'[ApiProc][j].status = "pending"
      /\ IoElsewhere({Rt(r)}) /\ MemElsewhere(ApiProc, j)
  BY <1>4, <1>5 DEF Upserted
<1>7. row[j] = Blank
  BY <1>1, RowEnqueued
<1>8. \A s \in Requests : io[Rt(s)].job # j
  <2>1. ASSUME NEW s \in Requests PROVE io[Rt(s)].job # j
    <3>1. CASE io[Rt(s)] = Idle
      BY <3>1, JobQueueAssumption DEF Idle
    <3>2. CASE io[Rt(s)] # Idle
      BY <1>1, <3>2 DEF Step, RunnerInv, RequestFits, ApiWrites
    <3>. QED
      BY <3>1, <3>2
  <2>. QED
    BY <2>1
<1>9. ASSUME NEW q \in Procs, q # ApiProc PROVE mem'[q] = mem[q]
  <2>1. mem'[q] \in [Jobs -> Entry] /\ mem[q] \in [Jobs -> Entry]
    BY DEF Step, TypeOK, MemOK
  <2>2. \A k \in Jobs : mem'[q][k] = mem[q][k]
    BY <1>6, <1>9 DEF MemElsewhere
  <2>. QED
    BY <2>1, <2>2
<1>10. ASSUME NEW k \in Jobs
       PROVE  \/ k \notin enqueued'
              \/ Known(mem'[ApiProc][k], k)
              \/ mem'[ApiProc][k] = mem[ApiProc][k] /\ k \in enqueued
  BY <1>1, <1>6, JobQueueAssumption DEF MemElsewhere, Known
<1>11. ApiMoves(r)
  BY <1>1, <1>6, <1>8, <1>9, <1>10 DEF ApiMoves, SeenElsewhere
<1>12. \A s \in Requests : io'[Rt(s)].job = j => s = r
  BY <1>6, <1>8, ThreadNames, ThreadsApart DEF IoElsewhere
<1>13. ApiWrites(r)' /\ Polls(r)'
  BY <1>1, <1>6, <1>7, <1>12 DEF ApiWrites, Enqueues, Hand, Polls
<1>. QED
  BY <1>11, <1>13, ApiLocal DEF RequestFits

LEMMA PollBegins ==
    ASSUME Step, NEW r \in Requests, NEW j \in Jobs, Request(r, j, "poll", "poll")
    PROVE  Safely
<1>1. /\ io[Rt(r)] = Idle /\ row[j] # Blank /\ Spend("poll") /\ GetJob(Rt(r), ApiProc, j)
      /\ api' = [api EXCEPT ![r] = [pc |-> "poll", job |-> j]]
      /\ UNCHANGED <<row, result, mem, cancelReq, io, pc, cur, gr, beating, abandoned, graph, bg, enqueued>>
  BY DEF Request, ApiAt, table, worker, history
<1>2. happened'["poll"] # 0
  BY <1>1, SpentCounts DEF Kinds, Step, TypeOK
<1>3. happened["crash"] = 0
  BY <1>1, NothingSpent DEF Step, CountsKept, Kinds
<1>4. j \in enqueued
  BY <1>1, RowEnqueued
<1>5. Known(mem[ApiProc][j], j) /\ mem[ApiProc][j] \in Entry
  BY <1>3, <1>4, JobQueueAssumption DEF Step, RunnerInv, RowFits, TypeOK, MemOK
<1>6. Known(View(row[j], mem[ApiProc][j]), j)
  BY <1>1, <1>5, ViewKnown
<1>7. seen'[Rt(r)].entry = View(row[j], mem[ApiProc][j]) /\ SeenElsewhere({Rt(r)})
  BY <1>1, ThreadNames DEF GetJob, SeenElsewhere, Step, TypeOK, SeenOK
<1>8. api'[r].pc = "poll" /\ api'[r].job = j /\ \A s \in Requests \ {r} : api'[s] = api[s]
  BY <1>1 DEF Step, TypeOK, ApiOK
<1>9. ApiMoves(r)
  BY <1>1, <1>7, <1>8 DEF ApiMoves, IoElsewhere
<1>10. ApiWrites(r)'
  BY <1>1 DEF ApiWrites
<1>11. LET e == seen'[Rt(r)].entry IN
       e.status = "pending" \/ (Over(e) /\ Over(row'[api'[r].job]))
  BY <1>1, <1>6, <1>7, <1>8 DEF Known
<1>12. Polls(r)'
  BY <1>1, <1>2, <1>4, <1>8, <1>11 DEF Polls, Known
<1>. QED
  BY <1>9, <1>10, <1>12, ApiLocal DEF RequestFits

LEMMA RefreshDoes ==
    ASSUME Step, NEW r \in Requests, api[r].pc # "idle", Refresh(r)
    PROVE  MemElsewhere(ApiProc, api[r].job) /\ Known(mem'[ApiProc][api[r].job], api[r].job)
<1>1. Known(ApiEntry(r), api[r].job) /\ api[r].job \in Jobs
  BY PollHas
<1>2. mem' = [mem EXCEPT ![ApiProc][api[r].job] = ApiEntry(r)]
  BY DEF Refresh, ApiJob
<1>3. mem'[ApiProc][api[r].job] = ApiEntry(r)
  BY <1>1, <1>2, JobQueueAssumption DEF Step, TypeOK, MemOK
<1>4. MemElsewhere(ApiProc, api[r].job)
  BY <1>2, JobQueueAssumption DEF MemElsewhere, Step, TypeOK, MemOK
<1>. QED
  BY <1>1, <1>3, <1>4

LEMMA PollReads ==
    ASSUME Step, NEW r \in Requests, NEW from, from # "idle",
           NEW to \in {"healing", "settle"}, Reread(r, from, to),
           to = "healing" => api[r].job \in result
    PROVE  Safely
<1>1. /\ api[r].pc = from /\ io[Rt(r)] = Idle /\ GetJob(Rt(r), ApiProc, api[r].job) /\ ApiGoto(r, to)
      /\ UNCHANGED <<mem, io>> /\ Polling
  BY DEF Reread, ApiAt, ApiJob, Polling, table, worker, history
<1>2. /\ api[r].job \in Jobs /\ Known(mem[ApiProc][api[r].job], api[r].job)
      /\ mem[ApiProc][api[r].job] \in Entry
  BY <1>1, PollHas
<1>3. SeenElsewhere({Rt(r)}) /\ MemElsewhere(ApiProc, api[r].job) /\ IoElsewhere({Rt(r)})
  BY <1>1 DEF GetJob, SeenElsewhere, MemElsewhere, IoElsewhere, Step, TypeOK, SeenOK
<1>4. seen'[Rt(r)].found => /\ row[api[r].job] # Blank
                            /\ seen'[Rt(r)].entry = View(row[api[r].job], mem[ApiProc][api[r].job])
  BY <1>1, ThreadNames DEF GetJob, Step, TypeOK, SeenOK
<1>5. seen'[Rt(r)].found => Known(seen'[Rt(r)].entry, api[r].job)
  BY <1>2, <1>4, ViewKnown
<1>6. mem'[ApiProc][api[r].job] = mem[ApiProc][api[r].job] /\ io'[Rt(r)] = Idle
  BY <1>1
<1>. QED
  BY <1>1, <1>2, <1>3, <1>5, <1>6, PollTurns

LEMMA PollSettles ==
    ASSUME Step, NEW r \in Requests, api[r].pc # "idle", io[Rt(r)] = Idle, Refresh(r),
           NEW label \in {"idle", "heal"}, ApiGoto(r, label), Forget(Rt(r)), UNCHANGED io, Polling
    PROVE  Safely
<1>1. MemElsewhere(ApiProc, api[r].job) /\ Known(mem'[ApiProc][api[r].job], api[r].job)
  BY RefreshDoes
<1>2. ~seen'[Rt(r)].found /\ SeenElsewhere({Rt(r)}) /\ IoElsewhere({Rt(r)})
  BY ThreadNames DEF Forget, Nothing, SeenElsewhere, IoElsewhere, Step, TypeOK, SeenOK
<1>. QED
  BY <1>1, <1>2, StatusNames, PollTurns

LEMMA PollHeals ==
    ASSUME Step, NEW r \in Requests, Heal(r)
    PROVE  Safely
<1>1. CASE ApiAt(r, "settle") /\ Refresh(r) /\ ApiGoto(r, "idle") /\ Forget(Rt(r))
             /\ UNCHANGED <<table, cancelReq, io, worker, graph, bg, history, happened>>
  BY <1>1, PollSettles, StatusNames DEF ApiAt, Polling, table, worker, history
<1>2. CASE /\ ApiAt(r, "healing") /\ ApiUpsert(r, Fields("complete", NoWorker, "none", 2))
           /\ ApiGoto(r, "confirm") /\ Forget(Rt(r))
           /\ UNCHANGED <<table, cancelReq, worker, graph, bg, history, happened>>
  <2> DEFINE f == Fields("complete", NoWorker, "none", 2)
             j == api[r].job
  <2>1. api[r].pc = "healing" /\ io[Rt(r)] = Idle /\ Polling
    BY <1>2 DEF ApiAt, Polling, table, worker, history
  <2>2. UpsertOn(ApiEntry(r), Rt(r), ApiProc, j, f, FALSE)
    BY <1>2 DEF ApiUpsert, ApiJob
  <2>3. j \in Jobs /\ ApiEntry(r) \in Entry /\ Over(row[j]) /\ api[r].pc # "idle"
    BY <2>1, PollHas, StatusNames
  <2>4. f \in Entry
    BY FieldsType, StatusNames
  <2>5. Over(Merge(f, ApiEntry(r)))
    <3>1. Merge(f, ApiEntry(r)).status = Or("complete", ApiEntry(r).status)
      BY FieldsMerge
    <3>. QED
      BY <3>1, RowNames DEF Or, Over, Ended
  <2>. HIDE DEF f
  <2>6. Upserted(ApiEntry(r), Rt(r), ApiProc, j, f, FALSE)
    BY <2>2, <2>3, <2>4, ThreadNames, UpsertDoes, JobQueueAssumption DEF Step, TypeOK
  <2>7. /\ HealsNow(r) /\ Known(mem'[ApiProc][j], j)
        /\ IoElsewhere({Rt(r)}) /\ MemElsewhere(ApiProc, j)
    BY <2>3, <2>5, <2>6 DEF Upserted, HealsNow, Known
  <2>8. ~seen'[Rt(r)].found /\ SeenElsewhere({Rt(r)})
    BY <1>2, ThreadNames DEF Forget, Nothing, SeenElsewhere, Step, TypeOK, SeenOK
  <2>. QED
    BY <1>2, <2>1, <2>3, <2>7, <2>8, StatusNames, PollTurns
<1>. QED
  BY <1>1, <1>2 DEF Heal

LEMMA ApiStep ==
    ASSUME Step, NEW r \in Requests, Api(r)
    PROVE  Safely
<1>1. api[r].pc \in {"idle", "poll", "heal", "healing", "settle", "confirm"}
  BY DEF Step, RunnerInv, RequestFits, Polls
<1>2. ~Spend("cancel") /\ ~Spend("purge")
  BY NothingSpent DEF Disturbing
<1>3. ASSUME NEW j \in Jobs,
             EnqueueJob(r, j) \/ Request(r, j, "poll", "poll") \/ Request(r, j, "cancel", "cancel")
               \/ Request(r, j, "purge", "purge")
      PROVE  Safely
  BY <1>2, <1>3, NewJob, PollBegins DEF Request
<1>4. CASE PollDecide(r)
  <2>1. /\ api[r].pc = "poll" /\ io[Rt(r)] = Idle /\ Refresh(r) /\ Forget(Rt(r)) /\ UNCHANGED io /\ Polling
        /\ ApiGoto(r, IF Stale(ApiEntry(r)) THEN "stalled" ELSE IF NeedsHeal(ApiEntry(r)) THEN "heal" ELSE "idle")
    BY <1>4 DEF PollDecide, ApiAt, Polling, table, worker, history
  <2>2. Known(ApiEntry(r), api[r].job)
    BY <2>1, PollHas, StatusNames
  <2>3. ~Stale(ApiEntry(r))
    BY <2>2, RowNames DEF Known, Stale
  <2>4. ApiGoto(r, "heal") \/ ApiGoto(r, "idle")
    BY <2>1, <2>3
  <2>. QED
    BY <2>1, <2>4, StatusNames, PollSettles
<1>5. CASE HealRead(r)
  <2>1. CASE api[r].job \in result
    BY <1>5, <2>1, StatusNames, PollReads DEF HealRead, ApiJob
  <2>2. CASE api[r].job \notin result
    BY <1>5, <2>2, StatusNames, PollReads DEF HealRead, ApiJob
  <2>. QED
    BY <2>1, <2>2
<1>6. CASE Reread(r, "confirm", "settle")
  BY <1>6, StatusNames, PollReads
<1>7. ~Reread(r, "stalled", "requeue") /\ ~RequeueStalled(r) /\ ~CancelJob(r) /\ ~PurgeCancel(r)
        /\ ~DeleteRecord(r)
  BY <1>1 DEF Reread, RequeueStalled, CancelJob, PurgeCancel, DeleteRecord, ApiAt
<1>. QED
  BY <1>3, <1>4, <1>5, <1>6, <1>7, PollHeals DEF Api

-----------------------------------------------------------------------------
(* Every step *)

LEMMA InitSafe == Init => RunnerInv /\ Calm(happened)
<1>. SUFFICES ASSUME Init PROVE RunnerInv /\ Calm(happened)
  OBVIOUS
<1>1. ASSUME NEW u \in Workers PROVE WorkerFits(u)
  <2>1. pc[u] = "down" /\ cur[u] = NoJob /\ u \notin beating /\ io[Run(u)] = Idle /\ io[Hb(u)] = Idle
    BY ThreadNames DEF Init
  <2>. QED
    BY <2>1 DEF WorkerFits, Place, Holds, AtWork, HandsIn, AfterWork, RunWrites, HbWrites
<1>2. ASSUME NEW g \in Graphs PROVE PipelineFits(g)
  <2>1. graph[g].pc = "idle" /\ bg[g] = "off" /\ io[Gt(g)] = Idle /\ io[Bt(g)] = Idle
    BY ThreadNames DEF Init, NoThread
  <2>. QED
    BY <2>1 DEF PipelineFits, Joined, Delivered, GraphWrites, BgWrites
<1>3. ASSUME NEW r \in Requests PROVE RequestFits(r)
  <2>1. api[r].pc = "idle" /\ io[Rt(r)] = Idle
    BY ThreadNames DEF Init, NoRequest
  <2>. QED
    BY <2>1 DEF RequestFits, ApiWrites, Polls
<1>4. ASSUME NEW j \in Jobs PROVE RowFits(j)
  BY RowNames DEF Init, RowFits
<1>5. SingleRunner /\ NothingTakenBack
  BY DEF Init, SingleRunner, NothingTakenBack
<1>6. Calm(happened)
  BY DEF Init, Calm, Kinds
<1>. QED
  BY <1>1, <1>2, <1>3, <1>4, <1>5, <1>6 DEF RunnerInv

LEMMA CalmBefore ==
    ASSUME CountsKept, Calm(happened')
    PROVE  Calm(happened)
BY DEF CountsKept, Calm, Kinds

LEMMA NextSafe ==
    ASSUME Apart, TypeOK, RunnerInv, Calm(happened'), [Next]_vars
    PROVE  Safely
<1>1. TypeOK' /\ CountsKept
  BY NextType, NextCounts
<1>2. Calm(happened)
  BY <1>1, CalmBefore
<1>3. Step
  BY <1>1, <1>2 DEF Step
<1>4. ASSUME UNCHANGED vars PROVE Safely
  BY <1>4 DEF vars, Safely, RunnerInv, WorkerFits, Place, Holds, AtWork, HandsIn, AfterWork, RowOf, MemOf,
     RunWrites, HbWrites, PipelineFits, Joined, Delivered, GraphWrites, BgWrites, RequestFits, ApiWrites,
     Heals, Enqueues, Polls, Known, RowFits, NothingTakenBack, SingleRunner
<1>5. ASSUME Next PROVE Safely
  BY <1>3, <1>4, <1>5, WriteStep, LoopStep, RunnerStep, Beats, GraphStep, BackgroundStep, ApiStep, Ends,
     Stalls DEF Next
<1>. QED
  BY <1>4, <1>5

\* The worker runs a job from the claim to its end alone: with the workers in processes of
\* their own, and as long as no heartbeat stalls, no call hangs and nothing is cancelled or
\* deleted, claim_next_job and recover_stale_processing_jobs hand a row to nobody while
\* another worker has it, whichever transactions overlap and whichever processes die.
THEOREM OneRunner == Apart /\ Undisturbed => (Spec => []SingleRunner)
<1>. SUFFICES ASSUME Apart, Undisturbed PROVE Spec => []SingleRunner
  OBVIOUS
<1>1. Init => RunnerInv /\ Calm(happened)
  BY InitSafe
<1>2. TypeOK /\ RunnerInv /\ Calm(happened) /\ [Next]_vars => RunnerInv' /\ Calm(happened)'
  <2>. SUFFICES ASSUME TypeOK, RunnerInv, Calm(happened), [Next]_vars
                PROVE  RunnerInv' /\ Calm(happened)'
    OBVIOUS
  <2>1. TypeOK' /\ OneSpent
    BY NextType, NextSpent
  <2>2. Calm(happened')
    BY <2>1, CalmStays
  <2>. QED
    BY <2>2, NextSafe DEF Safely
<1>3. RunnerInv => SingleRunner
  BY DEF RunnerInv
<1>. QED
  BY <1>1, <1>2, <1>3, TypeCorrect, PTL DEF Spec

\* With the workers in processes of their own and as long as the history is calm, whatever
\* the budgets allow later, a row that is complete or in error is never put back to work: not
\* by a late upsert_entry of a heartbeat, a pipeline or its background services, nor by
\* fail_or_retry_job, recover_stale_processing_jobs or the heal of a poll.
THEOREM FinishedIsFinal == Spec => DoneIsFinal
<1> DEFINE Safe  == Apart /\ Calm(happened) => RunnerInv
           Final == Apart /\ Calm(happened') =>
                      \A j \in Jobs : row[j].status \in Done => row'[j].status \in Done \cup {Unset}
<1>1. Init => Safe
  BY InitSafe
<1>2. TypeOK /\ Safe /\ [Next]_vars => Safe' /\ [Final]_vars
  <2>. SUFFICES ASSUME TypeOK, Safe, [Next]_vars, Apart, Calm(happened') PROVE RunnerInv' /\ Final
    BY DEF Apart
  <2>1. RunnerInv
    BY NextCounts, CalmBefore
  <2>2. RunnerInv' /\ \A j \in Jobs : Over(row[j]) => Over(row'[j])
    BY <2>1, NextSafe DEF Safely
  <2>3. \A j \in Jobs : row[j].status \in Done => Over(row[j])
    BY <2>1 DEF RunnerInv, RowFits, Done, Over, Ended
  <2>4. \A j \in Jobs : Over(row'[j]) => row'[j].status \in Done
    BY RowNames
  <2>. QED
    BY <2>2, <2>3, <2>4
<1> HIDE DEF Safe
<1>. QED
  BY <1>1, <1>2, TypeCorrect, PTL DEF Spec, DoneIsFinal

=============================================================================

---------------------------- MODULE DocumentDag ----------------------------
(***************************************************************************)
(* execute_document_dag and run_dag_compile (core/pipeline_executor.py,      *)
(* core/dag_scheduler.py): the graph of one document is executed by the      *)
(* calling thread, which runs waves of nodes through the capacity pool and   *)
(* puts a fallback text where no model answered, and by invocations of the   *)
(* pool's workers, which an expired wall abandons but does not stop.         *)
(*                                                                           *)
(* A text is its quality and what went into it.  Of the pool (CapacityPool)  *)
(* only the order is kept: an unsettled node has at most one invocation the  *)
(* pool waits for, and is tried again or given up when that one fails.       *)
(***************************************************************************)
EXTENDS Naturals, Sequences, FiniteSets

CONSTANTS
    Chunks,     \* the chunk nodes
    Compiles,   \* the regional, chapter and executive nodes
    Finals,     \* those of kind executive or final
    Deps,       \* dep_ids of a compile node
    Depth,      \* its depth
    MaxDepth,   \* the depth of the graph
    Blank,      \* nodes above an overflow layer: planned without an input text
    MapTries,   \* max_attempts of the pool for a chunk
    NodeTries,  \* and for a compile node
    MaxEsc,     \* max_escalations
    EscBatch,   \* max_escalate_chunks
    MaxRepairs, \* weak nodes repaired
    MaxPasses,  \* wave passes
    Faults      \* bound: invocations abandoned and nodes cancelled

Nodes == Chunks \cup Compiles

\* The invocations of one node that may exist at a time.
Slots == 1..Faults + 1

\* The graph is a tree.  A parent is as deep as its deepest dependency or deeper:
\* an overflow layer takes the depth of the node it is put under.
ASSUME DocumentDagAssumption ==
    /\ IsFiniteSet(Nodes) /\ Chunks \cap Compiles = {} /\ Chunks # {}
    /\ Finals \subseteq Compiles /\ Finals # {} /\ Blank \subseteq Compiles
    /\ MaxDepth \in Nat \ {0}
    /\ Depth \in [Compiles -> 1..MaxDepth]
    /\ Deps \in [Compiles -> (SUBSET Nodes) \ {{}}]
    /\ \A n \in Compiles : \A d \in Deps[n] \cap Compiles : Depth[d] <= Depth[n]
    /\ \A n, m \in Compiles : n # m => Deps[n] \cap Deps[m] = {}
    /\ {MapTries, NodeTries, MaxPasses} \subseteq Nat \ {0}
    /\ {MaxEsc, EscBatch, MaxRepairs, Faults} \subseteq Nat

VARIABLES
    phase,     \* what the calling thread does
    status,    \* status of a node
    out,       \* output_summary of a node
    input,     \* input_text of a compile node: what its text is made of
    run,       \* run[n][s]: an invocation of node n
    batch,     \* the nodes of the pool that are not settled
    wave,      \* all nodes of the pool
    tries,     \* failed attempts of a node in this wave
    retries,   \* n.retries of a compile node
    failed,    \* failed_idx
    escs,      \* esc_count
    depth, pass, ran, \* the loop over the waves
    weak,      \* weak_nodes
    todo,      \* nodes to repair
    path,      \* what is left of the branch being recomputed
    mending,   \* the node of it being recomputed, if any
    final,     \* final_summary
    late,      \* the pre-executive ceiling is near or has passed
    cancelled, \* node_cancels
    abandoned, \* history: invocations abandoned so far
    succeeded  \* history: the final nodes a model has written a text of

nodeVars == <<status, out, input, retries, weak, succeeded>>
poolVars == <<batch, wave, tries>>
escVars == <<failed, escs>>
laps == <<depth, pass, ran>>
repairVars == <<todo, path, mending>>
loopVars == <<phase, escVars, laps, repairVars, final>>
envVars == <<late, cancelled, abandoned>>
vars == <<nodeVars, poolVars, loopVars, envVars, run>>

-----------------------------------------------------------------------------
(* The graph *)

\* Reach[n] is n with all it depends on: the least set closed under Deps.
Closed(S) == \A n \in S \cap Compiles : Deps[n] \subseteq S
Reach == [n \in Nodes |-> {m \in Nodes : \A S \in SUBSET Nodes : n \in S /\ Closed(S) => m \in S}]

\* The chunks below a node, and the branch from a node up to the top.
Below(n) == Reach[n] \cap Chunks
Branch(n) == {m \in Compiles : n \in Reach[m]}

-----------------------------------------------------------------------------
(* Texts *)

\* stitch: a text put together without a model; notice: what stitching nothing
\* returns; weak: refused by the validation; good: accepted by it, or the text
\* of a chunk, which is a summary or an excerpt of its source.
Qualities == {"none", "stitch", "notice", "weak", "good"}

NoText == [q |-> "none", from |-> {}]

\* A text of node n, with the texts it was made of.
TextOf(n, q, from) == [q |-> q, from |-> from \cup {<<n, q>>}]

\* is_executive_compile_success: no stitch.  The notice does not read like one.
Durable(t) == t.q \in {"notice", "weak", "good"}

ChunkText(c) == TextOf(c, "good", {})
Stitch(n, from) == TextOf(n, IF from = {} THEN "notice" ELSE "stitch", from)

\* What _compile_node_text may return for an input.
Compiled(n, from) ==
    {TextOf(n, q, from) : q \in IF from = {} THEN {"notice"} ELSE {"stitch", "weak", "good"}}

Joined(n) == UNION {out[d].from : d \in Deps[n]}

\* The input of a node when it starts; a variant that leaves out stitched texts.
RefreshedDurable(n) == UNION {out[d].from : d \in {e \in Deps[n] : Durable(out[e])}}
Refreshed(n) == IF Joined(n) = {} THEN input[n] ELSE Joined(n)


-----------------------------------------------------------------------------
(* Invocations and the pool *)

Idle == [pc |-> "idle", live |-> FALSE, read |-> {}]
Free(n, s) == run[n][s] = Idle
Waited(n) == \E s \in Slots : run[n][s].live

\* The pool may start an invocation of n in slot s.
Pulls(n, s) ==
    /\ n \in batch /\ ~Waited(n) /\ Free(n, s)
    /\ \A r \in Slots : r < s => ~Free(n, r)

Works(n, s, pc, text) == run' = [run EXCEPT ![n][s] = [pc |-> pc, live |-> TRUE, read |-> text]]
Ends(n, s) == run' = [run EXCEPT ![n][s] = Idle]

MaxTries(n) == IF n \in Chunks THEN MapTries ELSE NodeTries

Accept(n) == batch' = batch \ {n} /\ UNCHANGED tries
\* run_capacity_pool returns.
Returns == batch = {} /\ tries' = [n \in Nodes |-> 0] /\ UNCHANGED batch

\* Variants of Refuse: attempts without a limit, and attempts that do not count.
RefuseUncounted(n) == UNCHANGED tries /\ (UNCHANGED batch \/ batch' = batch \ {n})

\* One more attempt, unless they are used up or the pool gives up for time.
Refuse(n) ==
    /\ tries' = [tries EXCEPT ![n] = @ + 1]
    /\ \/ tries[n] + 1 < MaxTries(n) /\ UNCHANGED batch
       \/ batch' = batch \ {n}
Settles(n, ok) == IF ok THEN Accept(n) ELSE Refuse(n)

\* The pool learns the result of an invocation only if it still waits for it.
Reports(n, s, ok) ==
    /\ Ends(n, s)
    /\ IF run[n][s].live THEN Settles(n, ok) ELSE UNCHANGED <<batch, tries>>
    /\ UNCHANGED <<wave, loopVars, envVars>>

Skips(n, ok) == Settles(n, ok) /\ UNCHANGED <<run, wave, loopVars, envVars>>
Started == UNCHANGED <<batch, wave, tries, loopVars, envVars>>

Marks(n, s) == status' = [status EXCEPT ![n] = s]
Writes(n, t) ==
    /\ out' = [out EXCEPT ![n] = t]
    /\ succeeded' = IF n \in Finals /\ t.q \in {"weak", "good"} THEN succeeded \cup {n} ELSE succeeded
TextKept == UNCHANGED <<out, succeeded>>

Troubles == abandoned + Cardinality(cancelled)

\* hard_timeout of the pool: the invocation goes on, its result is dropped.
Abandon(n, s) ==
    /\ run[n][s].live
    /\ Troubles < Faults
    /\ abandoned' = abandoned + 1
    /\ run' = [run EXCEPT ![n][s].live = FALSE]
    /\ Refuse(n)
    /\ UNCHANGED <<nodeVars, wave, loopVars, late, cancelled>>

-----------------------------------------------------------------------------
(* Map: _run_chunk *)

StartMap(c, s) ==
    /\ phase = "map" /\ Pulls(c, s)
    /\ \/ /\ c \in cancelled
          /\ Marks(c, "failed") /\ Skips(c, FALSE) /\ TextKept
       \/ /\ c \notin cancelled /\ late
          /\ Marks(c, "completed") /\ Writes(c, ChunkText(c)) /\ Skips(c, TRUE)
       \/ /\ c \notin cancelled /\ ~late
          /\ Marks(c, "running") /\ Works(c, s, "map", {}) /\ Started /\ TextKept
    /\ UNCHANGED <<input, retries, weak>>

\* A usable summary, or an excerpt when the wall is near or a deadline was hit;
\* a rate limit, which leaves the node pending; any other failure.
EndMap(c, s) ==
    /\ run[c][s].pc = "map"
    /\ \/ /\ Marks(c, "completed") /\ Reports(c, s, TRUE)
          /\ Writes(c, ChunkText(c))
       \/ /\ \/ Marks(c, "pending")
             \/ Marks(c, "failed")
          /\ Reports(c, s, FALSE) /\ TextKept
    /\ UNCHANGED <<input, retries, weak>>

\* Every chunk gets a text; then the validation names the chunks to escalate.
Heal ==
    /\ phase = "map" /\ Returns
    /\ LET healed == {c \in Chunks : out[c] = NoText}
       IN  /\ out' = [n \in Nodes |-> IF n \in healed THEN ChunkText(n) ELSE out[n]]
           /\ status' = [n \in Nodes |-> IF n \in healed THEN "completed" ELSE status[n]]
    /\ failed' \in SUBSET Chunks
    /\ phase' = "judge"
    /\ UNCHANGED <<input, retries, weak, succeeded, wave, envVars, run, escs, laps,
                   repairVars, final>>

-----------------------------------------------------------------------------
(* Escalation of failed chunks: _esc_one *)

Escalate ==
    /\ phase = "judge" /\ escs < MaxEsc /\ failed # {} /\ ~late
    /\ \E b \in SUBSET failed :
          /\ Cardinality(b) <= EscBatch
          /\ b = failed \/ Cardinality(b) = EscBatch
          /\ batch' = b /\ wave' = b
    /\ UNCHANGED tries
    /\ escs' = escs + 1
    /\ phase' = "escalate"
    /\ UNCHANGED <<nodeVars, envVars, run, failed, laps, repairVars, final>>

StartEsc(c, s) ==
    /\ phase = "escalate" /\ Pulls(c, s)
    /\ \/ late /\ Marks(c, "completed") /\ Skips(c, TRUE)
       \/ ~late /\ Marks(c, "retrying") /\ Works(c, s, "escalate", {}) /\ Started
    /\ UNCHANGED <<out, input, retries, weak, succeeded>>

\* A better summary, or the one it had; a rate limit leaves the node pending.
EndEsc(c, s) ==
    /\ run[c][s].pc = "escalate"
    /\ \/ Marks(c, "completed") /\ Writes(c, ChunkText(c)) /\ Reports(c, s, TRUE)
       \/ Marks(c, "pending") /\ Reports(c, s, FALSE) /\ TextKept
    /\ UNCHANGED <<input, retries, weak>>

\* Only the escalated chunks are validated again.
Judge ==
    /\ phase = "escalate" /\ Returns
    /\ failed' \in SUBSET wave
    /\ phase' = "judge"
    /\ UNCHANGED <<nodeVars, wave, envVars, run, escs, laps, repairVars, final>>

\* plan_compile_hierarchy; no time or no need for another escalation.
Plan ==
    /\ phase = "judge"
    /\ input' = [n \in Compiles |-> IF n \in Blank THEN {}
                                    ELSE UNION {out[c].from : c \in Below(n)}]
    /\ phase' = "waves"
    /\ failed' = {} /\ escs' = 0
    /\ UNCHANGED <<status, out, retries, weak, succeeded, poolVars, envVars, run, laps,
                   repairVars, final>>

-----------------------------------------------------------------------------
(* Compile: _run_payload *)

\* A node is not started when it is cancelled, nor past the ceiling unless it
\* owns the reserve; a variant that clamps the executive too.
Refused(n) == n \in cancelled \/ (late /\ n \notin Finals)

StartCompile(n, s) ==
    /\ phase = "wave" /\ Pulls(n, s) /\ n \in Compiles
    /\ \/ /\ Refused(n)
          /\ Marks(n, "failed") /\ Skips(n, FALSE) /\ UNCHANGED input
       \/ /\ ~Refused(n)
          /\ Marks(n, "running")
          /\ input' = [input EXCEPT ![n] = Refreshed(n)]
          /\ Works(n, s, "compile", Refreshed(n))
          /\ Started
    /\ UNCHANGED <<out, retries, weak, succeeded>>

\* _apply_result; a weak node is queued for repair.
EndCompile(n, s) ==
    /\ run[n][s].pc = "compile"
    /\ \E t \in Compiled(n, run[n][s].read) :
          /\ Writes(n, t)
          /\ weak' = IF t.q = "good" \/ (Durable(t) /\ n \in Finals) THEN weak
                     ELSE Append(weak, n)
    /\ Marks(n, "completed")
    /\ Reports(n, s, TRUE)
    /\ UNCHANGED <<input, retries>>

\* An error or the wall: keep what is durable, else one try with heavy models.
FailCompile(n, s) ==
    /\ run[n][s].pc = "compile"
    /\ \/ /\ Durable(out[n])
          /\ Marks(n, "completed") /\ Reports(n, s, TRUE) /\ UNCHANGED retries
       \/ /\ ~Durable(out[n])
          /\ retries' = [retries EXCEPT ![n] = @ + 1]
          /\ \/ /\ retries[n] + 1 < 2
                /\ Marks(n, "retrying")
                /\ run' = [run EXCEPT ![n][s].pc = "heavy", ![n][s].read = input[n]]
                /\ Started
             \/ Marks(n, "failed") /\ Reports(n, s, FALSE)
    /\ UNCHANGED <<out, input, weak, succeeded>>

\* The second try is adopted only if durable.
EndHeavy(n, s) ==
    /\ run[n][s].pc = "heavy"
    /\ \/ /\ \E t \in {u \in Compiled(n, run[n][s].read) : Durable(u)} : Writes(n, t)
          /\ Marks(n, "completed") /\ Reports(n, s, TRUE)
       \/ Marks(n, "failed") /\ Reports(n, s, FALSE) /\ TextKept
    /\ UNCHANGED <<input, retries, weak>>

-----------------------------------------------------------------------------
(* The waves of run_dag_compile *)

Ready(n) ==
    /\ status[n] \in {"pending", "retrying"}
    /\ \A d \in Deps[n] : status[d] = "completed"
ReadyNow == {n \in Compiles : Depth[n] = depth /\ Ready(n)}

OpenWave ==
    /\ phase = "waves" /\ ReadyNow # {}
    /\ wave' = ReadyNow /\ batch' = ReadyNow
    /\ UNCHANGED tries
    /\ ran' = TRUE
    /\ phase' = "wave"
    /\ UNCHANGED <<nodeVars, envVars, run, escVars, depth, pass, repairVars, final>>

\* The stitch of a node that may not be left without text; a variant that
\* does not look at the text it has.
SettledAnyway(n) == Stitch(n, input[n])
Settled(n) == IF Durable(out[n]) THEN out[n] ELSE Stitch(n, input[n])
Empty(n) == out[n] = NoText

\* Nodes that failed get a stitch, so that their parents can proceed.
CloseWave ==
    /\ phase = "wave" /\ Returns
    /\ LET left == {n \in wave : status[n] # "pending"}
           lost == {n \in left : status[n] # "completed" \/ Empty(n)}
       IN  /\ out' = [n \in Nodes |-> IF n \in lost THEN Settled(n) ELSE out[n]]
           /\ status' = [n \in Nodes |-> IF n \in left THEN "completed" ELSE status[n]]
    /\ phase' = "waves"
    /\ depth' = depth + 1
    /\ UNCHANGED <<input, retries, weak, succeeded, wave, envVars, run, escVars, pass, ran,
                   repairVars, final>>

NextDepth ==
    /\ phase = "waves" /\ ReadyNow = {} /\ depth <= MaxDepth
    /\ depth' = depth + 1
    /\ UNCHANGED <<nodeVars, poolVars, envVars, run, phase, escVars, pass, ran, repairVars,
                   final>>

\* Another pass over the depths while nodes still become ready.
NextPass ==
    /\ phase = "waves" /\ depth > MaxDepth
    /\ IF ran /\ pass < MaxPasses
         THEN pass' = pass + 1 /\ depth' = 1 /\ ran' = FALSE /\ UNCHANGED phase
         ELSE phase' = "sweep" /\ UNCHANGED <<pass, depth, ran>>
    /\ UNCHANGED <<nodeVars, poolVars, envVars, run, escVars, repairVars, final>>

\* The repair tasks: the first entries of weak_nodes, each node once, in order.
Firsts == {weak[i] : i \in 1..IF Len(weak) < MaxRepairs THEN Len(weak) ELSE MaxRepairs}
Place(n) == CHOOSE i \in DOMAIN weak : weak[i] = n /\ \A j \in 1..i - 1 : weak[j] # n
RepairTasks(q) ==
    /\ \A n \in Firsts : \E i \in DOMAIN q : q[i] = n
    /\ \A i, j \in DOMAIN q : i < j => Place(q[i]) < Place(q[j])

\* What no wave reached is stitched; then the weak nodes become repair tasks.
Sweep ==
    /\ phase = "sweep"
    /\ LET lost == {n \in Compiles : ~Durable(out[n]) /\ status[n] # "completed" /\ Empty(n)}
       IN  /\ out' = [n \in Nodes |-> IF n \in lost THEN Stitch(n, input[n]) ELSE out[n]]
           /\ status' = [n \in Nodes |->
                 IF n \in lost \/ (n \in Compiles /\ Durable(out[n])) THEN "completed"
                 ELSE status[n]]
    /\ todo' \in {q \in [1..Cardinality(Firsts) -> Firsts] : RepairTasks(q)}
    /\ phase' = "repair"
    /\ weak' = <<>>
    /\ UNCHANGED <<input, retries, succeeded, poolVars, envVars, run, escVars, laps, path,
                   mending, final>>

-----------------------------------------------------------------------------
(* Repair: recompute_branch, by the calling thread *)

\* The node and everything above it is cleared.
ClearBranch ==
    /\ phase = "repair" /\ path = {} /\ todo # <<>>
    /\ path' = Branch(Head(todo))
    /\ status' = [n \in Nodes |-> IF n \in path' THEN "pending" ELSE status[n]]
    /\ out' = [n \in Nodes |-> IF n \in path' THEN NoText ELSE out[n]]
    /\ retries' = [n \in Compiles |-> IF n \in path' THEN 0 ELSE retries[n]]
    /\ todo' = Tail(todo)
    /\ UNCHANGED <<input, weak, succeeded, poolVars, envVars, run, phase, escVars, laps,
                   mending, final>>

\* output_summary or input_text of each dependency; a variant: the old input.
SourcesBefore(n) == input[n]
Sources(n) == UNION {IF d \in Compiles /\ Empty(d) THEN input[d] ELSE out[d].from : d \in Deps[n]}

\* The branch is recomputed from its bottom up.
StartRepair ==
    /\ phase = "repair"
    /\ \E n \in path :
          /\ Deps[n] \cap path = {}
          /\ input' = [input EXCEPT ![n] = Sources(n)]
          /\ Marks(n, "running")
          /\ mending' = {n}
    /\ phase' = "recompute"
    /\ UNCHANGED <<out, retries, weak, succeeded, poolVars, envVars, run, escVars, laps, todo,
                   path, final>>

\* The result is applied whatever it is; an error keeps what is durable.
EndRepair ==
    /\ phase = "recompute"
    /\ \E n \in mending :
          /\ \/ \E t \in Compiled(n, input[n]) : Writes(n, t)
             \/ Writes(n, Settled(n))
          /\ Marks(n, "completed")
    /\ path' = path \ mending /\ mending' = {}
    /\ phase' = "repair"
    /\ UNCHANGED <<input, retries, weak, poolVars, envVars, run, escVars, laps, todo, final>>

-----------------------------------------------------------------------------
(* The summary of the document *)

Completed(set) == {n \in set : status[n] = "completed"}
FinalNodes ==
    IF Completed(Finals) # {} THEN Completed(Finals)
    ELSE Completed({n \in Compiles : Depth[n] = MaxDepth})
FromAll(set) == UNION {out[n].from : n \in set}

\* One durable node, or one node, is the summary; several durable ones are
\* merged or one of them is taken; several others are stitched; with none the
\* chunk summaries are compiled directly.
Summary ==
    LET finals == FinalNodes
        durable == {n \in finals : Durable(out[n])}
        all == UNION {out[c].from : c \in Chunks}
    IN  IF Cardinality(durable) = 1 THEN {out[n] : n \in durable}
        ELSE IF Cardinality(finals) = 1 THEN {out[n] : n \in finals}
        ELSE IF durable # {}
          THEN {out[n] : n \in durable} \cup {[q |-> "good", from |-> FromAll(durable)]}
        ELSE IF finals # {} THEN {[q |-> "stitch", from |-> FromAll(finals)]}
        ELSE {[q |-> q, from |-> all] : q \in {"stitch", "good"}}

Deliver ==
    /\ phase = "repair" /\ path = {} /\ todo = <<>>
    /\ final' \in Summary
    /\ phase' = "done"
    /\ UNCHANGED <<nodeVars, poolVars, envVars, run, escVars, laps, repairVars>>

-----------------------------------------------------------------------------
(* Time and the API *)

CeilingNears ==
    /\ ~late /\ late' = TRUE
    /\ UNCHANGED <<nodeVars, poolVars, loopVars, run, cancelled, abandoned>>

CancelNode(n) ==
    /\ n \notin cancelled /\ Troubles < Faults
    /\ cancelled' = cancelled \cup {n}
    /\ UNCHANGED <<nodeVars, poolVars, loopVars, run, late, abandoned>>

Init ==
    /\ phase = "map"
    /\ status = [n \in Nodes |-> "pending"]
    /\ out = [n \in Nodes |-> NoText]
    /\ input = [n \in Compiles |-> {}]
    /\ run = [n \in Nodes |-> [s \in Slots |-> Idle]]
    /\ batch = Chunks /\ wave = Chunks
    /\ tries = [n \in Nodes |-> 0]
    /\ retries = [n \in Compiles |-> 0]
    /\ failed = {} /\ escs = 0
    /\ depth = 1 /\ pass = 1 /\ ran = FALSE
    /\ weak = <<>> /\ todo = <<>> /\ path = {} /\ mending = {}
    /\ final = NoText
    /\ late \in BOOLEAN /\ cancelled = {} /\ abandoned = 0 /\ succeeded = {}

Scheduler ==
    \/ Heal \/ Escalate \/ Judge \/ Plan
    \/ OpenWave \/ CloseWave \/ NextDepth \/ NextPass \/ Sweep
    \/ ClearBranch \/ StartRepair \/ EndRepair \/ Deliver

Begins(n, s) ==
    \/ n \in Chunks /\ (StartMap(n, s) \/ StartEsc(n, s))
    \/ StartCompile(n, s)

Finishes(n, s) ==
    \/ n \in Chunks /\ (EndMap(n, s) \/ EndEsc(n, s))
    \/ n \in Compiles /\ (EndCompile(n, s) \/ FailCompile(n, s) \/ EndHeavy(n, s))

Stopped == phase = "done" /\ (\A n \in Nodes, s \in Slots : Free(n, s)) /\ UNCHANGED vars

Next ==
    \/ Scheduler
    \/ \E n \in Nodes, s \in Slots : Begins(n, s) \/ Finishes(n, s) \/ Abandon(n, s)
    \/ CeilingNears
    \/ \E n \in Nodes : CancelNode(n)
    \/ Stopped

Spec == Init /\ [][Next]_vars

\* The calling thread runs, the pool's threads pull, and every invocation ends
\* at the wall of its isolation if not before.
FairSpec ==
    /\ Spec
    /\ WF_vars(Scheduler)
    /\ \A n \in Nodes, s \in Slots : WF_vars(Begins(n, s)) /\ WF_vars(Finishes(n, s))

-----------------------------------------------------------------------------
(* Properties *)

\* A text is made of texts of the node and of what it depends on.
Written == Qualities \ {"none"}
Parts == SUBSET (Nodes \X Written)

NodesOK ==
    /\ status \in [Nodes -> {"pending", "running", "completed", "failed", "retrying"}]
    /\ out \in [Nodes -> [q : Qualities, from : Parts]]
    /\ \A n \in Nodes : out[n].from \subseteq Reach[n] \X Written
    /\ input \in [Compiles -> Parts]
    /\ \A n \in Compiles : input[n] \subseteq Reach[n] \X Written
    /\ retries \in [Compiles -> Nat]
    /\ weak \in Seq(Compiles) /\ succeeded \subseteq Finals

RunsOK ==
    /\ run \in [Nodes -> [Slots -> [pc : {"idle", "map", "escalate", "compile", "heavy"},
                                    live : BOOLEAN, read : Parts]]]
    /\ \A n \in Nodes, s \in Slots :
          /\ run[n][s].read \subseteq Reach[n] \X Written
          /\ run[n][s].live => n \in batch
          /\ \A r \in Slots : run[n][s].live /\ run[n][r].live => r = s

PoolOK ==
    /\ batch \subseteq wave /\ wave \subseteq Nodes
    /\ tries \in [Nodes -> Nat]
    /\ \A n \in batch : tries[n] < MaxTries(n)
    /\ phase \in {"map", "escalate"} => wave \subseteq Chunks
    /\ phase = "wave" => wave \subseteq Compiles
    /\ phase \notin {"map", "escalate", "wave"} => batch = {} /\ tries = [n \in Nodes |-> 0]

LoopOK ==
    /\ phase \in {"map", "judge", "escalate", "waves", "wave", "sweep", "repair", "recompute",
                  "done"}
    /\ failed \subseteq Chunks /\ escs \in 0..MaxEsc
    /\ depth \in 1..MaxDepth + 1 /\ pass \in 1..MaxPasses /\ ran \in BOOLEAN
    /\ phase = "wave" => depth <= MaxDepth
    /\ todo \in Seq(Compiles) /\ path \subseteq Compiles
    /\ path # {} => phase \in {"repair", "recompute"}
    /\ IF phase = "recompute" THEN \E n \in path : mending = {n} ELSE mending = {}
    /\ final \in [q : Qualities, from : Parts]

\* The variables have their types, a text is made of texts of the node and of what it
\* depends on, no node is tried more often than it may be, and an invocation the pool
\* waits for belongs to a node it has not settled.
DagTypeOK ==
    /\ NodesOK /\ RunsOK /\ PoolOK /\ LoopOK
    /\ late \in BOOLEAN /\ cancelled \subseteq Nodes /\ abandoned \in 0..Faults

\* The chunks whose content is in a text, and whether it holds the notice.
Content(t) == {c \in Chunks : \E q \in Qualities : <<c, q>> \in t.from}
HasNotice(t) == \E n \in Nodes : <<n, "notice">> \in t.from

\* The graph has one executive node, above all others and deeper than they are.  A large
\* document has more, as every node from the third layer up is of kind executive, and
\* an overflow layer may bring another node to the depth of the executive.
OneTop ==
    \E e \in Compiles :
       /\ Finals = {e} /\ Below(e) = Chunks
       /\ \A n \in Compiles : Depth[n] = MaxDepth => n = e

\* Whatever fails, is cancelled or runs out of time, the summary is made of
\* every chunk, or it says that content is missing (of a graph that is OneTop).
NothingDropped == phase = "done" => HasNotice(final) \/ Content(final) = Chunks

\* No summary is stale: unless an abandoned invocation came back, each text in
\* a node's summary, and in that of the document, is the text its node has.
\* A repair must recompute all the branch above the repaired node, in order.
Fresh ==
    phase = "done" /\ abandoned = 0 =>
       \A t \in {final} \cup {out[n] : n \in Compiles} :
          \A p \in t.from : out[p[1]].q = p[2]

\* What a model has written for a node is not lost to a fallback before the
\* repairs, unless an abandoned invocation of the same node writes over it.
ModelTextKept ==
    [][\A n \in Compiles :
          Durable(out[n]) /\ ~Durable(out'[n]) =>
             \/ phase \in {"repair", "recompute"}
             \/ abandoned > 0 /\ \E s \in Slots : run[n][s].pc # "idle" /\ run'[n][s].pc = "idle"
      ]_vars

\* Every document gets a summary.
DocumentReturns == <>(phase = "done" /\ final.q # "none")

=============================================================================

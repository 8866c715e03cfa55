---------------------------- MODULE StagedGraph ----------------------------
(***************************************************************************)
(* The graph of one document (core/orchestrator.py) on its staged branch,     *)
(* taken when the unified executor is off: cut the file into chunks, extract  *)
(* features, plan and route, summarise the chunks, validate, escalate while the validation fails *)
(* and rounds are left, compile, deliver.  The other branch is DocumentDag;   *)
(* here it ends with the plan DocumentDag executes.  (The job's row and what  *)
(* follows the delivery are JobQueue and ResultStore.)                        *)
(*                                                                           *)
(* A model call is one step with every outcome it may have.  Of the time and  *)
(* the carbon left to a compile only counts whether one more call may start.  *)
(***************************************************************************)
EXTENDS CompilePlan, Chunking

-----------------------------------------------------------------------------
(* The validation of chunk summaries (agents/quality_validation.py and validate_map of    *)
(* core/orchestrator.py).  A verdict on all summaries keeps the verdict on each, so that  *)
(* after an escalation only the summaries that were made again are checked again.         *)

\* none: no text; error: the text a failed model call returns; poor: a summary the
\* validation refuses; fine: one it accepts.
Texts == {"none", "error", "poor", "fine"}

\* validate_pair compares a summary with its source only: the same text is always
\* judged the same.  The confidence is a share of 10.
Judged(text) ==
    CASE text = "fine" -> [passed |-> TRUE, confidence |-> 8]
      [] text = "poor" -> [passed |-> FALSE, confidence |-> 4]
      [] OTHER -> [passed |-> FALSE, confidence |-> 1]

NoVerdict == [passed |-> FALSE, failed |-> {}, of |-> <<>>]

\* _aggregate_verdicts: a quarter of the summaries may fail.
Aggregate(verdicts) ==
    LET n == Cardinality(DOMAIN verdicts)
        failed == {i \in DOMAIN verdicts : ~verdicts[i].passed}
        total == FoldLeft(LAMBDA sum, v : sum + v.confidence, 0, verdicts)
    IN  [passed |-> 4 * Cardinality(failed) <= n /\ total >= 6 * n,
         failed |-> failed, of |-> verdicts]

\* Variant: reuses the verdict of a summary that was made again.
ValidateStale(summaries, only, prior) ==
    Aggregate([i \in DOMAIN summaries |->
                  IF prior = <<>> THEN Judged(summaries[i]) ELSE prior[i]])

\* validate_chunks: the summaries in only, and those without an earlier verdict.
ValidateChunks(summaries, only, prior) ==
    Aggregate([i \in DOMAIN summaries |->
                  IF i \in only \/ prior = <<>> THEN Judged(summaries[i]) ELSE prior[i]])

EmptyOnes(summaries) == {i \in DOMAIN summaries : summaries[i] = "none"}

\* A second look is given only where there are verdicts to keep.
Incremental(summaries, again, prior) == again # {} /\ Len(prior) = Len(summaries)

\* validate_chunks of nothing: a thread pool of no workers cannot be made.
NothingToCheck(summaries, again, prior, cfg) ==
    /\ Incremental(summaries, again, prior)
    /\ again \subseteq EmptyOnes(summaries) /\ cfg.validators > 1

\* Mutant of ValidateMap: empty summaries count like any other failure.
ValidateMapShare(summaries, again, prior) ==
    CASE Incremental(summaries, again, prior) -> ValidateChunks(summaries, again, prior)
      [] OTHER -> ValidateChunks(summaries, DOMAIN summaries, <<>>)

\* validate_map: an empty summary fails whatever the share of failures is.
ValidateMap(summaries, again, prior) ==
    LET empty == EmptyOnes(summaries)
        checked ==
            IF Incremental(summaries, again, prior)
            THEN ValidateChunks(summaries, again \ empty, prior)
            ELSE IF empty = DOMAIN summaries THEN NoVerdict
            ELSE ValidateChunks(summaries, DOMAIN summaries \ empty, <<>>)
    IN  [checked EXCEPT !.passed = @ /\ empty = {}, !.failed = @ \cup empty]

\* The chunks to summarise again, the least sure first, as many as a batch holds.
EscalationBatch(verdict, n, size) ==
    LET failed == IF verdict.failed = {} THEN 1..n ELSE verdict.failed
        Sure(i) == IF verdict.of = <<>> THEN 0 ELSE verdict.of[i].confidence
        Before(j, i) == Sure(j) < Sure(i) \/ (Sure(j) = Sure(i) /\ j < i)
    IN  {i \in failed : Cardinality({j \in failed : Before(j, i)}) < size}
-----------------------------------------------------------------------------

CONSTANTS
    Cases   \* the documents, each with its file and the configuration it is processed under

VARIABLES
    node,     \* the node of the graph, or the stage of reduce_compile, to run next
    doc,      \* the document and its features
    cfg,      \* the settings
    lead,     \* routing_decision: tiers of the document and of its compile
    routes,   \* tier of chunk_routing, by chunk
    summaries,
    verdict,  \* validation_verdict of the chunks
    escs,     \* escalation_count
    again,    \* last_escalated_indices
    told,     \* agent_telemetry, by chunk
    redone,   \* chunks_escalated
    warn,     \* accept_with_warning
    levels,   \* the levels of the hierarchy
    plan,     \* the graph of compile nodes
    final,    \* final_summary: its kind and the chunks whose summaries went into it
    check,    \* final_verdict: passed, and confident enough for the compile
    engine,   \* compile_meta["engine"]
    skipped,  \* compile_meta["skipped_steps"] is not empty
    stitched, \* compile_meta["used_stitched_fallback"]
    branch,   \* branches tried, and whether one was repaired
    used,     \* compile_meta: calls made, and whether a heavy one
    account,  \* the carbon report
    spent     \* a compile step was refused for lack of time or carbon

mapVars == <<lead, routes, summaries, verdict, escs, again, told, redone>>
compileVars == <<levels, plan, final, check, engine, skipped, stitched, branch, spent, used, account>>
setup == <<cfg, chunkVars>>
stagedVars == <<node, doc, cfg, mapVars, warn, compileVars>>
vars == <<stagedVars, chunkVars>>

Strat == Strategy(doc, cfg)
Chunks == DOMAIN doc.chunks

\* The tokens of the text of a chunk.
Weight(i) == MaxOf(1, SizeOf(blocks, written.chunks[i].text))

Failed == [passed |-> FALSE, sure |-> FALSE]

Init ==
    /\ \E case \in Cases : doc = case.doc /\ cfg = case.cfg /\ ChunkInit(case.file)
    /\ node = "triage" /\ warn = FALSE
    /\ routes = <<>> /\ summaries = <<>> /\ verdict = NoVerdict /\ escs = 0 /\ again = {}
    /\ told = <<>> /\ redone = 0 /\ account = [saved |-> 0]
    /\ lead = [tier |-> Light, compile |-> Light] /\ used = [calls |-> 0, heavy |-> FALSE]
    /\ levels = <<>> /\ plan = <<>> /\ final = [kind |-> "none", of |-> {}] /\ check = Failed
    /\ engine = "none" /\ skipped = FALSE /\ stitched = FALSE
    /\ branch = [tried |-> 0, repaired |-> FALSE]
    /\ spent = FALSE

-----------------------------------------------------------------------------
(* Up to the routing *)

\* The chunks take the features of the document's in turn.
Spread(chunks, n) == [i \in 1..n |-> chunks[((i - 1) % Len(chunks)) + 1]]

\* triage_document raises when the file has no chunks.
Triage ==
    /\ node = "triage" /\ stage = "chunked"
    /\ IF written.chunks = <<>> THEN node' = "failed" /\ UNCHANGED doc
       ELSE /\ node' = "features"
            /\ doc' = [doc EXCEPT !.chunks = Spread(@, Len(written.chunks))]
    /\ UNCHANGED <<setup, mapVars, warn, compileVars>>

\* default_features keeps what the text itself shows and loses the domain when
\* classifying it by its words fails as well.
Unclassified == [doc EXCEPT !.domain = "general", !.risk = "low"]

\* extract_features_node never fails.
ExtractFeatures ==
    /\ node = "features"
    /\ doc' \in {doc, Unclassified}
    /\ node' = "route"
    /\ UNCHANGED <<setup, mapVars, warn, compileVars>>

\* plan_pipeline and cre_and_route.  Without adaptive routing every chunk gets the
\* tier of the document.
Route ==
    /\ node = "route"
    /\ \E tier \in Eligible(doc) :
           /\ lead' = [tier |-> tier, compile |-> CompileTier(doc, cfg)]
           /\ routes' = IF cfg.adaptive THEN RouteChunks(doc, Strat) ELSE [i \in Chunks |-> tier]
    /\ node' = IF cfg.unified THEN "unified" ELSE "map"
    /\ UNCHANGED <<doc, setup, summaries, verdict, escs, again, told, redone, warn, compileVars>>

-----------------------------------------------------------------------------
(* The chunk summaries *)

\* What a chunk may be left with.  The pool takes no failed call; without the pool
\* the text of a failed call is a summary like any other.
MapTexts == IF cfg.pool THEN Texts \ {"error"} ELSE Texts

Row(phase, tier) == [phase |-> phase, tier |-> tier]

MapSummarize ==
    /\ node = "map"
    /\ summaries' \in [Chunks -> MapTexts]
    /\ told' = [i \in Chunks |->
                   <<Row("map", IF summaries'[i] = "none" THEN NoTier ELSE routes[i])>>]
    /\ node' = "validate"
    /\ UNCHANGED <<doc, setup, lead, routes, verdict, escs, again, redone, warn, compileVars>>

\* should_escalate
Decided(v) ==
    CASE v.passed -> "compile"
      [] escs >= Strat.escs -> "warn"
      [] OTHER -> "escalate"

Validate ==
    /\ node = "validate"
    /\ IF NothingToCheck(summaries, again, verdict.of, cfg)
       THEN node' = "failed" /\ UNCHANGED <<verdict, again>>
       ELSE /\ verdict' = ValidateMap(summaries, again, verdict.of)
            /\ again' = {}
            /\ node' = Decided(verdict')
    /\ UNCHANGED <<doc, setup, lead, routes, summaries, escs, told, redone, warn, compileVars>>

\* escalate_once: the worst chunks one tier up.  A chunk no call has a result for
\* keeps its text; any text of a call replaces it, that of a failed call included.
\* Without the pool a call that raises fails the job.
Escalate ==
    /\ node = "escalate"
    /\ again' = EscalationBatch(verdict, Len(summaries), Strat.batch)
    /\ \E answered \in SUBSET again' : \E text \in [answered -> Texts \ {"none"}] :
           /\ summaries' = [i \in Chunks |-> IF i \in answered THEN text[i] ELSE summaries[i]]
           /\ routes' = [i \in Chunks |->
                            IF i \in answered THEN NextTier(routes[i]) ELSE routes[i]]
           /\ told' = [i \in Chunks |-> IF i \in answered
                          THEN Append(told[i], Row("escalate", routes'[i])) ELSE told[i]]
    /\ redone' = redone + Cardinality(again')
    /\ lead' = Escalated(lead)
    /\ escs' = escs + 1
    /\ node' \in {"validate"} \cup (IF cfg.pool THEN {} ELSE {"failed"})
    /\ UNCHANGED <<doc, setup, verdict, warn, compileVars>>

MarkWarning ==
    /\ node = "warn"
    /\ warn' = TRUE /\ node' = "compile"
    /\ UNCHANGED <<doc, setup, mapVars, compileVars>>

-----------------------------------------------------------------------------
(* The compile *)

Written == {i \in Chunks : summaries[i] # "none"}

\* compile_inputs: the texts of the top level.
inputs == Last(levels)

\* _normalize_compile_summaries drops a text in which the text of a failed call
\* occurs anywhere, with all the summaries it was joined with.
Usable(text) == \A i \in ToSet(text) : summaries[i] # "error"
UsableChunks == UNION {ToSet(text) : text \in {t \in ToSet(inputs) : Usable(t)}}

\* What a call of the compile models, or a stitch without them, returns.
Compiled(kind) ==
    IF UsableChunks = {} THEN [kind |-> "notice", of |-> {}]
    ELSE [kind |-> kind, of |-> UsableChunks]

\* validate_final of a text with content.
Verdicts == {Failed, [passed |-> TRUE, sure |-> FALSE], [passed |-> TRUE, sure |-> TRUE]}
Doubtful == ~check.passed \/ ~check.sure

\* _can_start_expensive_repair: the seconds the steps ask for, 20, 25, 15, 15 and 20,
\* are such that after one refusal every later step is refused too.
Refused == skipped' = TRUE /\ spent' = TRUE
Granted == ~spent /\ UNCHANGED spent

NoCall == UNCHANGED <<final, check, used>>

\* A call that returns counts, whatever it returns.
Called == used' = [used EXCEPT !.calls = @ + 1]
CalledHeavy == used' = [calls |-> used.calls + 1, heavy |-> TRUE]

\* build_hierarchy_levels, over the bare summaries when they are all empty.
BuildHierarchy ==
    /\ node = "compile"
    /\ levels' = IF Written = {} THEN <<[i \in Chunks |-> <<i>>]>>
                 ELSE Levels(doc.chunks, SetToSortSeq(Written, <), Strat, cfg.context)
    /\ node' = CASE ~cfg.dag \/ Len(summaries) < 2 -> "primary"
                 [] Written = {} -> "run"
                 [] OTHER -> "plan"
    /\ UNCHANGED <<doc, setup, mapVars, warn, plan, final, check, engine, skipped, stitched, branch, spent, used, account>>

\* The unified branch has a text for every chunk when it plans.
BuildUnified ==
    /\ node = "unified"
    /\ levels' = Levels(doc.chunks, [i \in Chunks |-> i], Strat, cfg.context)
    /\ node' = "plan"
    /\ UNCHANGED <<doc, setup, mapVars, warn, plan, final, check, engine, skipped, stitched, branch, spent, used, account>>

\* The ids of the regions on the chunks that have a text.
RegionIds ==
    LET leaves == [l \in DOMAIN levels[1] |-> levels[1][l][1]]
    IN  IF Len(leaves) < Strat.skip THEN <<>> ELSE Ids(Regions(doc.chunks, leaves, SoftCap(cfg.context)))

\* run_dag_compile and plan_compile_hierarchy put the compile nodes on the chunks ...
PlanNodes ==
    /\ node = "plan" /\ node' = "fit"
    /\ plan' = Onto(levels, RegionIds, doc.chunks, Strat.fan)
    /\ UNCHANGED <<doc, setup, mapVars, warn, levels, final, check, engine, skipped, stitched, branch, spent, used, account>>

\* ... and then the layers the budget asks for.
FitNodes ==
    /\ node = "fit" /\ node' = IF cfg.unified THEN "planned" ELSE "run"
    /\ plan' = Stable(plan, cfg.context, IF cfg.unified THEN 8 ELSE 1)
    /\ UNCHANGED <<doc, setup, mapVars, warn, levels, final, check, engine, skipped, stitched, branch, spent, used, account>>

\* run_dag_compile returns a text of the executive, or an empty one.
DagCompile ==
    /\ node = "run"
    /\ engine' = "dag" /\ used' \in [calls : cfg.dagCalls, heavy : BOOLEAN]
    /\ \/ /\ plan # <<>>
          /\ LET leaves == Under(plan, Root(plan))
             IN  \E kind \in {"model", "stitch"} :
                     final' = [kind |-> kind, of |-> {levels[1][l][1] : l \in leaves}]
          /\ check' \in Verdicts /\ node' = "finish"
       \/ UNCHANGED <<final, check>> /\ node' = "primary"
    /\ UNCHANGED <<doc, setup, mapVars, warn, levels, plan, skipped, stitched, branch, spent, account>>

DagRaises ==
    /\ node = "run"
    /\ skipped' = TRUE /\ node' = "primary"
    /\ UNCHANGED <<doc, setup, mapVars, warn, levels, plan, final, check, engine, stitched, branch, spent, used, account>>

\* The first call.  Its text is validated and improved only when the graph of compile
\* nodes has not run.
PrimaryCompile ==
    /\ node = "primary"
    /\ \/ final' \in {Compiled("model"), Compiled("stitch")} /\ Called /\ UNCHANGED <<skipped, stitched>>
       \/ final' = Compiled("stitch") /\ skipped' = TRUE /\ stitched' = TRUE /\ UNCHANGED used
    /\ IF engine = "dag" THEN UNCHANGED <<check, engine>> /\ node' = "finish"
       ELSE engine' = "legacy" /\ check' \in Verdicts /\ node' = "heavy"
    /\ UNCHANGED <<doc, setup, mapVars, warn, levels, plan, branch, spent, account>>

\* One more call on all inputs: its text replaces the summary whatever it is worth.
Recompiles ==
    \/ /\ final' \in {Compiled("model"), Compiled("stitch")} /\ check' \in Verdicts
       /\ CalledHeavy /\ UNCHANGED skipped
    \/ skipped' = TRUE /\ UNCHANGED <<final, check, used>>

HeavyCompile ==
    /\ node = "heavy" /\ node' = "repair"
    /\ IF Doubtful /\ ~stitched
       THEN \/ Granted /\ Recompiles
            \/ Refused /\ NoCall
       ELSE NoCall /\ UNCHANGED <<skipped, spent>>
    /\ UNCHANGED <<doc, setup, mapVars, warn, levels, plan, engine, stitched, branch, account>>

\* The repair of the two weakest branches is entered.
BranchRepair ==
    /\ node = "repair"
    /\ IF Doubtful /\ Len(inputs) > 1 /\ ~stitched
       THEN \/ Granted /\ node' = "branch" /\ UNCHANGED skipped
            \/ Refused /\ node' = "finish"
       ELSE node' = "finish" /\ UNCHANGED <<skipped, spent>>
    /\ NoCall
    /\ UNCHANGED <<doc, setup, mapVars, warn, levels, plan, engine, stitched, branch, account>>

\* One branch is compiled alone; a failure leaves it as it was.
RepairBranch ==
    /\ node = "branch" /\ branch.tried < 2
    /\ \/ /\ Granted /\ UNCHANGED skipped
          /\ \/ Called /\ \E works \in BOOLEAN :
                    branch' = [tried |-> branch.tried + 1, repaired |-> branch.repaired \/ works]
             \/ branch' = [branch EXCEPT !.tried = @ + 1] /\ UNCHANGED used
       \/ Refused /\ branch' = [branch EXCEPT !.tried = 2] /\ UNCHANGED used
    /\ UNCHANGED <<node, doc, setup, mapVars, warn, levels, plan, final, check, engine, stitched, account>>

GlobalRecompile ==
    /\ node = "branch" /\ branch.tried = 2 /\ node' = "finish"
    /\ IF branch.repaired
       THEN \/ Granted /\ Recompiles
            \/ Refused /\ NoCall
       ELSE NoCall /\ UNCHANGED <<skipped, spent>>
    /\ UNCHANGED <<doc, setup, mapVars, warn, levels, plan, engine, stitched, branch, account>>

\* The end of reduce_compile: a stitch when there is still no text, and the warning.
Finish ==
    /\ node = "finish"
    /\ IF final.kind = "none" THEN final' = Compiled("stitch") /\ stitched' = TRUE
       ELSE UNCHANGED <<final, stitched>>
    /\ warn' = (warn \/ ~check.passed \/ stitched' \/ skipped)
    /\ node' = "deliver"
    /\ UNCHANGED <<doc, setup, mapVars, levels, plan, check, engine, skipped, branch, spent, used, account>>

DeliverSummary ==
    /\ node = "deliver"
    /\ node' = "delivered"
    /\ UNCHANGED <<doc, setup, mapVars, warn, compileVars>>

\* calculate_carbon_savings on what the job has left: the texts of the chunks, what the
\* models were given, the length of the summary, and what the compile nodes measured.
AccountCarbon ==
    /\ node = "delivered" /\ node' = "accounted"
    /\ \E regained \in cfg.regained, summary \in cfg.summary, read \in cfg.read,
          measured \in IF engine = "dag" THEN cfg.measured ELSE {0} :
           account' = Account([weights |-> [i \in Chunks |-> Weight(i)], regained |-> regained,
                               routed |-> routes, told |-> told, escalated |-> redone,
                               summary |-> summary, read |-> read],
                              [measured |-> measured, calls |-> used.calls, heavy |-> used.heavy,
                               stitched |-> stitched, tier |-> lead.compile],
                              cfg.reference)
    /\ UNCHANGED <<doc, setup, mapVars, warn, levels, plan, final, check, engine, skipped, stitched,
                   branch, spent, used>>

Done == node \in {"accounted", "planned", "failed"} /\ UNCHANGED vars

Next ==
    \/ Read /\ UNCHANGED stagedVars
    \/ Align /\ UNCHANGED stagedVars
    \/ ValidateHeadings /\ UNCHANGED stagedVars
    \/ MergePass /\ UNCHANGED stagedVars
    \/ PackChunks /\ UNCHANGED stagedVars
    \/ FillBlock /\ UNCHANGED stagedVars
    \/ FinishFilling /\ UNCHANGED stagedVars
    \/ Triage \/ ExtractFeatures \/ Route
    \/ MapSummarize \/ Validate \/ Escalate \/ MarkWarning
    \/ BuildHierarchy \/ BuildUnified \/ PlanNodes \/ FitNodes \/ DagCompile \/ DagRaises \/ PrimaryCompile \/ HeavyCompile
    \/ BranchRepair \/ RepairBranch \/ GlobalRecompile \/ Finish \/ DeliverSummary \/ AccountCarbon
    \/ Done

Spec == Init /\ [][Next]_vars

-----------------------------------------------------------------------------
(* Properties *)

\* Every value has its type.
StagedTypeOK ==
    /\ node \in {"triage", "features", "route", "map", "validate", "escalate", "warn", "compile",
                 "plan", "fit", "run", "primary", "heavy", "repair", "branch", "finish", "deliver",
                 "delivered", "accounted", "unified", "planned", "failed"}
    /\ lead.tier \in Tiers /\ lead.compile \in Tiers /\ routes \in Seq(Tiers) /\ summaries \in Seq(Texts)
    /\ escs \in 0..Strat.escs /\ again \subseteq Chunks
    /\ final.kind \in {"none", "model", "stitch", "notice"} /\ final.of \subseteq Chunks
    /\ check \in Verdicts /\ engine \in {"none", "dag", "legacy"}
    /\ {warn, skipped, stitched, branch.repaired, spent} \subseteq BOOLEAN
    /\ branch.tried \in 0..2

\* Whenever the verdicts decide what happens next, each of them is the one the
\* validation gives of the summary the chunk has now: checking only the summaries that
\* were made again is the same as checking all (quality_validation.py:313-318).
VerdictsCurrent ==
    node \notin {"map", "validate", "failed"} /\ verdict.of # <<>> =>
        \A i \in Chunks : verdict.of[i] = Judged(summaries[i])

\* A summary delivered without a warning was made of a summary of every chunk, of
\* which three quarters at least pass the validation now, it passes its own, and it
\* is no stitch that took the place of a failed compile.
UnflaggedIsComplete ==
    node = "delivered" /\ ~warn =>
        /\ EmptyOnes(summaries) = {} /\ check.passed /\ ~stitched
        /\ 4 * Cardinality({i \in Chunks : ~Judged(summaries[i]).passed}) <= Cardinality(Chunks)

\* Packing, cutting and batching lose no chunk: a summary that is not in the text of
\* the compile was joined with the text of a failed call, which is dropped with all it
\* was joined with; or it was in a region whose node another region took over (PlanIsTree).
LeftOutOnlyWithErrors ==
    final.kind # "none" =>
        \A i \in Written \ final.of :
            \/ \E text \in ToSet(inputs) : i \in ToSet(text) /\ ~Usable(text)
            \/ engine = "dag" /\ ~IsInjective(RegionIds)

\* The graph of compile nodes is what its execution relies on: a tree over all chunks that
\* have a text, with one executive on top, and no node deeper than what depends on it;
\* unless two regions have one id, which the guard against collisions (hierarchy.py:378)
\* lets happen: then they share a node, and the chunks of the first are in none.
PlanIsTree ==
    node \in {"run", "planned"} /\ plan # <<>> => IsTree(plan) \/ ~IsInjective(RegionIds)

\* The carbon report charges every chunk once, at the tier that made its summary, for the
\* token mass the baseline is charged for but for the rounding of the shares; and the
\* saving it states is the sum of the savings it explains it with.
ChargedAsRun ==
    node = "accounted" =>
        LET mass == SumOf(account.byTier, Tiers)
            off == account.mapTokens - mass
        IN  /\ account.tiers = routes
            /\ 2 * off \in -Len(routes)..Len(routes)
            /\ cfg.reference = JPerToken[Heavy] =>
                   account.saved = account.mapSaved + off * JPerToken[Heavy]
                       + account.compiled * (JPerToken[Heavy] - JPerToken[account.compileTier])
                       - RoutingJ - account.escalated * RequeueJ
=============================================================================

-------------------------- MODULE StagedGraphProofs --------------------------
(***************************************************************************)
(* Proofs about one document: whatever fails on its way, the verdicts that    *)
(* steer it are those of the summaries it has, and a summary is delivered     *)
(* without a warning only when it is complete.                               *)
(***************************************************************************)
EXTENDS StagedGraph, TLAPS

Mapping == {"triage", "features", "route", "map"}

\* There are summaries to speak of.
Summarised == ~cfg.unified /\ node \notin Mapping \cup {"failed"}

\* The verdicts decide nothing any more.
Settled == Summarised /\ node \notin {"validate", "escalate", "warn"}

Agrees(i) == verdict.of[i] = Judged(summaries[i])
Refuted == {i \in Chunks : ~Judged(summaries[i]).passed}
Complete == EmptyOnes(summaries) = {} /\ 4 * Cardinality(Refuted) <= Cardinality(Chunks)

\* Each node belongs to one branch, but for the two that plan.
BranchKept ==
    /\ node \in {"unified", "planned"} => cfg.unified
    /\ node \notin {"triage", "features", "route", "unified", "plan", "fit", "planned", "failed"} =>
           ~cfg.unified

NothingJudged == node \in Mapping \/ cfg.unified => verdict = NoVerdict /\ again = {}
TextsKnown == Summarised => summaries \in [Chunks -> Texts]

\* Until they are validated, the summaries made again are ahead of their verdicts; a chunk
\* that got none was not made again.
VerdictsKnown ==
    Summarised /\ verdict.of # <<>> =>
        \A i \in Chunks : node # "validate" \/ i \notin again \/ summaries[i] = "none" => Agrees(i)

\* Only the warning lets a document pass that is not complete.
WarnedOrComplete == Settled => warn \/ Complete
EndsChecked == node \in {"deliver", "delivered"} => warn \/ (check.passed /\ ~stitched)

StagedInv ==
    BranchKept /\ NothingJudged /\ TextsKnown /\ VerdictsKnown /\ WarnedOrComplete /\ EndsChecked

-----------------------------------------------------------------------------
(* The validation *)

LEMMA TextsJudged == "none" \in Texts /\ ~Judged("none").passed
BY DEF Texts, Judged

\* A verdict on all is a record.
IsVerdict(c) == c = [passed |-> c.passed, failed |-> c.failed, of |-> c.of]

\* The verdict on all keeps the verdict on each, and passes a quarter of failures at most.
LEMMA Aggregated ==
    ASSUME NEW verdicts
    PROVE  /\ IsVerdict(Aggregate(verdicts)) /\ Aggregate(verdicts).of = verdicts
           /\ Aggregate(verdicts).passed =>
                4 * Cardinality({i \in DOMAIN verdicts : ~verdicts[i].passed})
                    <= Cardinality(DOMAIN verdicts)
BY DEF Aggregate, IsVerdict

\* Of a verdict: each summary has its own, and when they pass not too many failed.
Sound(c, texts) ==
    /\ c.of # <<>> => \A i \in DOMAIN texts : c.of[i] = Judged(texts[i])
    /\ c.passed => 4 * Cardinality({i \in DOMAIN texts : ~Judged(texts[i]).passed})
                       <= Cardinality(DOMAIN texts)

\* Every summary that is checked, or was not checked before, has its own verdict.
LEMMA ChunksValidated ==
    ASSUME NEW texts, NEW only, NEW prior,
           \A i \in DOMAIN texts : i \in only \/ prior = <<>> \/ prior[i] = Judged(texts[i])
    PROVE  /\ IsVerdict(ValidateChunks(texts, only, prior))
           /\ Sound(ValidateChunks(texts, only, prior), texts)
<1> DEFINE c == ValidateChunks(texts, only, prior)
           vs == [i \in DOMAIN texts |->
                     IF i \in only \/ prior = <<>> THEN Judged(texts[i]) ELSE prior[i]]
<1>1. c = Aggregate(vs)
      BY DEF ValidateChunks
<1>2. DOMAIN vs = DOMAIN texts /\ \A i \in DOMAIN texts : vs[i] = Judged(texts[i])
      OBVIOUS
<1> HIDE DEF vs, c
<1>3. {i \in DOMAIN vs : ~vs[i].passed} = {i \in DOMAIN texts : ~Judged(texts[i]).passed}
      BY <1>2
<1>4. /\ IsVerdict(c) /\ c.of = vs
      /\ c.passed => 4 * Cardinality({i \in DOMAIN texts : ~Judged(texts[i]).passed})
                         <= Cardinality(DOMAIN texts)
      BY <1>1, <1>2, <1>3, Aggregated
<1>5. IsVerdict(c) /\ Sound(c, texts)
      BY <1>2, <1>4 DEF Sound
<1> QED BY <1>5 DEF c

\* After the validation the verdict of every summary is its own, and when they pass there
\* are enough of them and none is missing.
LEMMA MapValidated ==
    ASSUME NEW texts, NEW redo, NEW prior,
           prior # <<>> => \A i \in DOMAIN texts :
                              i \notin redo \/ texts[i] = "none" => prior[i] = Judged(texts[i])
    PROVE  /\ Sound(ValidateMap(texts, redo, prior), texts)
           /\ ValidateMap(texts, redo, prior).passed => EmptyOnes(texts) = {}
<1> DEFINE empty == EmptyOnes(texts)
           v == ValidateMap(texts, redo, prior)
           Marked(c) == [c EXCEPT !.passed = @ /\ empty = {}, !.failed = @ \cup empty]
<1>1. PICK c : v = Marked(c) /\ IsVerdict(c) /\ Sound(c, texts)
  <2>1. CASE Incremental(texts, redo, prior)
    <3>1. v = Marked(ValidateChunks(texts, redo \ empty, prior))
          BY <2>1 DEF ValidateMap
    <3>2. \A i \in DOMAIN texts :
             i \in redo \ empty \/ prior = <<>> \/ prior[i] = Judged(texts[i])
          BY DEF EmptyOnes
    <3> QED BY <3>1, <3>2, ChunksValidated
  <2>2. CASE ~Incremental(texts, redo, prior) /\ empty = DOMAIN texts
    <3>1. v = Marked(NoVerdict)
          BY <2>2 DEF ValidateMap
    <3>2. IsVerdict(NoVerdict) /\ Sound(NoVerdict, texts)
          BY DEF NoVerdict, IsVerdict, Sound
    <3> QED BY <3>1, <3>2
  <2>3. CASE ~Incremental(texts, redo, prior) /\ empty # DOMAIN texts
    <3>1. v = Marked(ValidateChunks(texts, DOMAIN texts \ empty, <<>>))
          BY <2>3 DEF ValidateMap
    <3> QED BY <3>1, ChunksValidated
  <2> QED BY <2>1, <2>2, <2>3
<1> HIDE DEF v, empty
<1>2. v.of = c.of /\ v.passed = (c.passed /\ empty = {})
      BY <1>1 DEF IsVerdict
<1>3. Sound(v, texts) /\ (v.passed => empty = {})
      BY <1>1, <1>2 DEF Sound
<1> QED BY <1>3 DEF v, empty

-----------------------------------------------------------------------------
(* The steps *)

judged == <<doc, cfg, summaries, verdict, again>>

\* A step on the way to the summaries, and of the branch that plans, has no verdict yet.
LEMMA EarlyStep ==
    ASSUME StagedInv, UNCHANGED <<cfg, verdict, again>>, node' \in Mapping \/ cfg.unified,
           node \in Mapping \/ cfg.unified, BranchKept',
           node' \notin {"deliver", "delivered"}
    PROVE  StagedInv'
BY DEF StagedInv, NothingJudged, Summarised, Settled, TextsKnown, VerdictsKnown, WarnedOrComplete,
       EndsChecked

\* A step after the last verdict keeps what was known then.
LEMMA LateStep ==
    ASSUME StagedInv, UNCHANGED judged, node' \notin Mapping,
           Summarised' => Settled, Settled /\ warn => warn', BranchKept', EndsChecked'
    PROVE  StagedInv'
<1>1. NothingJudged'
      BY DEF StagedInv, NothingJudged, judged
<1>2. TextsKnown'
      BY DEF StagedInv, TextsKnown, judged, Chunks, Settled
<1>3. VerdictsKnown'
  <2>1. Settled /\ verdict.of # <<>> => \A i \in Chunks : Agrees(i)
        BY DEF StagedInv, VerdictsKnown, Settled
  <2> QED BY <2>1 DEF VerdictsKnown, judged, Chunks, Agrees
<1>4. WarnedOrComplete'
  <2>1. Settled => warn \/ Complete
        BY DEF StagedInv, WarnedOrComplete
  <2>2. Complete <=> Complete'
        BY DEF judged, Complete, EmptyOnes, Refuted, Chunks
  <2> QED BY <2>1, <2>2 DEF WarnedOrComplete, Settled
<1> QED BY <1>1, <1>2, <1>3, <1>4 DEF StagedInv

LEMMA MapStep ==
    ASSUME StagedInv, MapSummarize
    PROVE  StagedInv'
<1>1. /\ node = "map" /\ node' = "validate" /\ summaries' \in [Chunks -> Texts]
      /\ UNCHANGED <<doc, cfg, verdict, again>>
      BY DEF MapSummarize, MapTexts, setup
<1>2. verdict.of = <<>> /\ verdict = NoVerdict /\ again = {}
      BY <1>1 DEF StagedInv, NothingJudged, Mapping, NoVerdict
<1> QED BY <1>1, <1>2 DEF StagedInv, BranchKept, NothingJudged, Summarised, Settled, TextsKnown,
                          VerdictsKnown, WarnedOrComplete, EndsChecked, Chunks, Mapping

\* The verdicts are brought up to date, and decide.
LEMMA ValidateStep ==
    ASSUME StagedInv, Validate
    PROVE  StagedInv'
<1>1. /\ node = "validate" /\ UNCHANGED <<doc, cfg, summaries, warn>>
      /\ ~cfg.unified /\ summaries \in [Chunks -> Texts]
      BY DEF Validate, setup, StagedInv, BranchKept, TextsKnown, Summarised, Mapping
<1>2. CASE node' = "failed"
      BY <1>1, <1>2 DEF StagedInv, BranchKept, NothingJudged, Summarised, Settled, TextsKnown,
                        VerdictsKnown, WarnedOrComplete, EndsChecked, Mapping
<1>3. CASE /\ verdict' = ValidateMap(summaries, again, verdict.of) /\ again' = {}
           /\ node' = Decided(verdict')
  <2>1. DOMAIN summaries = Chunks
        BY <1>1
  <2>2. verdict.of # <<>> => \A i \in DOMAIN summaries :
            i \notin again \/ summaries[i] = "none" => verdict.of[i] = Judged(summaries[i])
        BY <1>1, <2>1 DEF StagedInv, VerdictsKnown, Summarised, Agrees, Mapping
  <2>3. Sound(verdict', summaries) /\ (verdict'.passed => EmptyOnes(summaries) = {})
        BY <1>3, <2>2, MapValidated
  <2>4. node' \in {"compile", "warn", "escalate"} /\ (node' = "compile" => verdict'.passed)
    <3>1. CASE verdict'.passed
          BY <1>3, <3>1 DEF Decided
    <3>2. CASE ~verdict'.passed /\ escs >= Strat.escs
          BY <1>3, <3>2 DEF Decided
    <3>3. CASE ~verdict'.passed /\ ~(escs >= Strat.escs)
          BY <1>3, <3>3 DEF Decided
    <3> QED BY <3>1, <3>2, <3>3
  <2>5. BranchKept' /\ NothingJudged' /\ TextsKnown' /\ EndsChecked'
        BY <1>1, <2>4 DEF BranchKept, NothingJudged, TextsKnown, EndsChecked, Mapping, Chunks
  <2>6. VerdictsKnown'
        BY <1>1, <2>1, <2>3 DEF VerdictsKnown, Sound, Agrees, Chunks
  <2>7. WarnedOrComplete'
    <3>1. verdict'.passed => Complete'
          BY <1>1, <2>1, <2>3 DEF Sound, Complete, Refuted, Chunks, EmptyOnes
    <3> QED BY <2>4, <3>1 DEF WarnedOrComplete, Settled
  <2> QED BY <2>5, <2>6, <2>7 DEF StagedInv
<1> QED BY <1>2, <1>3 DEF Validate

\* The chunks that got a new text wait for a new verdict.
LEMMA EscalateStep ==
    ASSUME StagedInv, Escalate
    PROVE  StagedInv'
<1>1. /\ node = "escalate" /\ node' \in {"validate", "failed"}
      /\ UNCHANGED <<doc, cfg, verdict, warn>>
      /\ ~cfg.unified /\ summaries \in [Chunks -> Texts]
      BY DEF Escalate, setup, StagedInv, BranchKept, TextsKnown, Summarised, Mapping
<1>2. PICK answered \in SUBSET again' : \E text \in [answered -> Texts \ {"none"}] :
        summaries' = [i \in Chunks |-> IF i \in answered THEN text[i] ELSE summaries[i]]
      BY DEF Escalate
<1>3. PICK text \in [answered -> Texts \ {"none"}] :
        summaries' = [i \in Chunks |-> IF i \in answered THEN text[i] ELSE summaries[i]]
      BY <1>2
<1>4. summaries' \in [Chunks -> Texts]
      BY <1>1, <1>3
<1>5. ASSUME NEW i \in Chunks, i \notin again' \/ summaries'[i] = "none"
      PROVE  summaries'[i] = summaries[i]
      BY <1>3, <1>5
<1>6. verdict.of # <<>> => \A i \in Chunks : Agrees(i)
      BY <1>1 DEF StagedInv, VerdictsKnown, Summarised, Mapping
<1>7. VerdictsKnown'
  <2>1. CASE node' = "failed"
        BY <2>1 DEF VerdictsKnown, Summarised
  <2>2. CASE node' = "validate"
        BY <1>1, <1>5, <1>6, <2>2 DEF VerdictsKnown, Agrees, Chunks
  <2> QED BY <1>1, <2>1, <2>2
<1>8. BranchKept' /\ NothingJudged' /\ TextsKnown' /\ EndsChecked'
      BY <1>1, <1>4 DEF BranchKept, NothingJudged, TextsKnown, EndsChecked, Mapping, Chunks
<1>9. WarnedOrComplete'
      BY <1>1 DEF WarnedOrComplete, Settled, Summarised
<1> QED BY <1>7, <1>8, <1>9 DEF StagedInv

LEMMA WarningStep ==
    ASSUME StagedInv, MarkWarning
    PROVE  StagedInv'
<1>1. node = "warn" /\ node' = "compile" /\ warn' = TRUE /\ UNCHANGED judged
      BY DEF MarkWarning, judged, setup, mapVars
<1> QED BY <1>1 DEF StagedInv, BranchKept, NothingJudged, TextsKnown, VerdictsKnown,
                    WarnedOrComplete, EndsChecked, Summarised, Settled, judged, Mapping, Chunks,
                    Agrees

LEMMA UpToRouting ==
    ASSUME StagedInv, Triage \/ ExtractFeatures \/ Route
    PROVE  StagedInv'
<1>1. UNCHANGED <<cfg, verdict, again>> /\ node \in Mapping
      BY DEF Triage, ExtractFeatures, Route, setup, mapVars, Mapping
<1>2. CASE node' = "failed"
      BY <1>1, <1>2 DEF StagedInv, BranchKept, NothingJudged, Summarised, Settled, TextsKnown,
                        VerdictsKnown, WarnedOrComplete, EndsChecked, Mapping
<1>3. CASE node' # "failed"
  <2>1. node' \in {"features", "route"} \/ node' = (IF cfg.unified THEN "unified" ELSE "map")
        BY <1>3 DEF Triage, ExtractFeatures, Route
  <2>2. (node' \in Mapping \/ cfg.unified) /\ node' \notin {"deliver", "delivered"}
        BY <2>1 DEF Mapping
  <2>3. BranchKept'
        BY <1>1, <2>1 DEF BranchKept
  <2> QED BY <1>1, <2>2, <2>3, EarlyStep
<1> QED BY <1>2, <1>3

\* The compile, the delivery and the report judge no summary.
LEMMA CompileStep ==
    ASSUME StagedInv,
           \/ BuildHierarchy \/ BuildUnified \/ PlanNodes \/ FitNodes \/ DagCompile \/ DagRaises
           \/ PrimaryCompile \/ HeavyCompile \/ BranchRepair \/ RepairBranch \/ GlobalRecompile
    PROVE  StagedInv'
<1>1. UNCHANGED judged /\ UNCHANGED warn
      BY DEF BuildHierarchy, BuildUnified, PlanNodes, FitNodes, DagCompile, DagRaises,
             PrimaryCompile, HeavyCompile, BranchRepair, RepairBranch, GlobalRecompile, judged,
             setup, mapVars
<1>2. /\ node \in {"compile", "unified", "plan", "fit", "run", "primary", "heavy", "repair", "branch"}
      /\ node' \in {"plan", "fit", "run", "planned", "primary", "heavy", "repair", "branch", "finish"}
      /\ node \in {"plan", "fit", "unified"} \/ node' \notin {"fit", "planned"}
      /\ node' = "planned" => cfg.unified
      /\ node \in {"unified", "plan"} => node' \in {"plan", "fit"}
      /\ node = "fit" => node' = (IF cfg.unified THEN "planned" ELSE "run")
  <2>1. CASE BuildHierarchy
        BY <2>1 DEF BuildHierarchy
  <2>2. CASE BuildUnified \/ PlanNodes
        BY <2>2 DEF BuildUnified, PlanNodes
  <2>3. CASE FitNodes
        BY <2>3 DEF FitNodes
  <2>4. CASE DagCompile \/ DagRaises
        BY <2>4 DEF DagCompile, DagRaises
  <2>5. CASE PrimaryCompile
        BY <2>5 DEF PrimaryCompile
  <2>6. CASE HeavyCompile \/ BranchRepair
        BY <2>6 DEF HeavyCompile, BranchRepair
  <2>7. CASE RepairBranch \/ GlobalRecompile
        BY <2>7 DEF RepairBranch, GlobalRecompile
  <2> QED BY <2>1, <2>2, <2>3, <2>4, <2>5, <2>6, <2>7
<1>3. cfg' = cfg
      BY <1>1 DEF judged
<1>4. BranchKept' /\ EndsChecked'
      BY <1>2, <1>3 DEF StagedInv, BranchKept, EndsChecked
<1>5. node' \notin Mapping /\ (Summarised' => Settled)
      BY <1>2, <1>3 DEF Mapping, Summarised, Settled
<1> QED BY <1>1, <1>4, <1>5, LateStep

LEMMA EndStep ==
    ASSUME StagedInv, Finish \/ DeliverSummary \/ AccountCarbon
    PROVE  StagedInv'
<1>1. UNCHANGED judged
      BY DEF Finish, DeliverSummary, AccountCarbon, judged, setup, mapVars
<1>2. /\ node \in {"finish", "deliver", "delivered"}
      /\ node' \in {"deliver", "delivered", "accounted"}
      BY DEF Finish, DeliverSummary, AccountCarbon
<1>3. warn => warn'
      BY DEF Finish, DeliverSummary, AccountCarbon
<1>4. EndsChecked'
  <2>1. CASE Finish
        BY <2>1 DEF Finish, EndsChecked
  <2>2. CASE DeliverSummary
        BY <2>2 DEF DeliverSummary, compileVars, StagedInv, EndsChecked
  <2>3. CASE AccountCarbon
        BY <2>3 DEF AccountCarbon, EndsChecked
  <2> QED BY <2>1, <2>2, <2>3
<1>5. BranchKept' /\ node' \notin Mapping /\ (Summarised' => Settled)
      BY <1>1, <1>2 DEF StagedInv, BranchKept, judged, Mapping, Summarised, Settled
<1> QED BY <1>1, <1>3, <1>4, <1>5, LateStep

LEMMA StagedStarts == Init => StagedInv
BY DEF Init, StagedInv, BranchKept, NothingJudged, TextsKnown, VerdictsKnown, WarnedOrComplete,
       EndsChecked, Summarised, Settled, Mapping

LEMMA StagedKeeps == StagedInv /\ [Next]_vars => StagedInv'
<1> SUFFICES ASSUME StagedInv, [Next]_vars PROVE StagedInv'
    OBVIOUS
<1>1. CASE UNCHANGED stagedVars
  <2>1. UNCHANGED <<judged, node, warn, check, stitched>>
        BY <1>1 DEF stagedVars, judged, mapVars, compileVars
  <2> QED BY <2>1 DEF StagedInv, BranchKept, NothingJudged, TextsKnown, VerdictsKnown,
                      WarnedOrComplete, EndsChecked, Summarised, Settled, judged, Chunks, Agrees,
                      Complete, Refuted, EmptyOnes
<1>2. CASE UNCHANGED vars
      BY <1>1, <1>2 DEF vars
<1> QED BY <1>1, <1>2, UpToRouting, MapStep, ValidateStep, EscalateStep, WarningStep, CompileStep,
           EndStep DEF Next, Done

LEMMA StagedHolds == Spec => []StagedInv
BY StagedStarts, StagedKeeps, PTL DEF Spec

\* Checking again only what was made again is the same as checking all: whenever verdicts
\* decide, each is the one of the summary its chunk has now (quality_validation.py:313-318).
THEOREM VerdictsAreCurrent == Spec => []VerdictsCurrent
<1>1. StagedInv => VerdictsCurrent
      BY DEF StagedInv, VerdictsKnown, NothingJudged, NoVerdict, Summarised, Mapping,
             VerdictsCurrent, Agrees
<1> QED BY <1>1, StagedHolds, PTL

\* A summary is delivered without a warning only when every chunk has a summary, three
\* quarters of them pass, the summary passes its own validation and it is no stitch in
\* the place of a failed compile, whatever was escalated, refused or repaired on the way.
THEOREM UnflaggedComplete == Spec => []UnflaggedIsComplete
<1>1. StagedInv => UnflaggedIsComplete
      BY DEF StagedInv, BranchKept, WarnedOrComplete, EndsChecked, Settled, Summarised, Mapping,
             Complete, Refuted, UnflaggedIsComplete
<1> QED BY <1>1, StagedHolds, PTL
=============================================================================

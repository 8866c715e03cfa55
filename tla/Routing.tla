------------------------------ MODULE Routing ------------------------------
(***************************************************************************)
(* How a document is routed before any model is called: the strategy of its *)
(* scale and mode (core/strategy_selector.py), the capability requirement   *)
(* and its domain floor (core/cre.py), the tier of the document             *)
(* (core/intelligent_router.py) and of each of its chunks                   *)
(* (core/chunk_router.py).  Scores are percentages, carbon is centigrams,   *)
(* and the model a tier stands for is left out.  Then what the routing is   *)
(* estimated to have used and saved.                                        *)
(***************************************************************************)
EXTENDS Integers, Sequences, SequencesExt

Light == 0
Medium == 1
Heavy == 2
Tiers == {Light, Medium, Heavy}

MaxOf(a, b) == IF a >= b THEN a ELSE b
MinOf(a, b) == IF a <= b THEN a ELSE b

-----------------------------------------------------------------------------
(* The strategy *)

\* _scale_from_tokens
Scale(doc) ==
    LET Under(tokens, pages, chunks) ==
            doc.tokens < tokens /\ doc.pages <= pages /\ Len(doc.chunks) <= chunks
    IN  CASE Under(2500, 15, 8) -> "tiny"
          [] ~Under(2500, 15, 8) /\ Under(12000, 50, 25) -> "small"
          [] ~Under(12000, 50, 25) /\ Under(60000, 200, 80) -> "medium"
          [] ~Under(60000, 200, 80) /\ Under(200000, 500, 200) -> "large"
          [] OTHER -> "xlarge"

\* analyze_document_capability: a complex document.  (It calls the medical ones critical,
\* but asks the level of risk, which never is "medical", before the domain.)
Complex(doc) == doc.reasoning >= 75 \/ doc.technical >= 75

\* What a scale gives before the adjustments: the budget is a percentage of the
\* configured one, the gain a heavy model must bring is per mille.
Base == [
    tiny   |-> [skip |-> 99, escs |-> 1, batch |-> 4,  budget |-> 100, gain |-> 30],
    small  |-> [skip |-> 12, escs |-> 2, batch |-> 6,  budget |-> 100, gain |-> 20],
    medium |-> [skip |-> 8,  escs |-> 2, batch |-> 8,  budget |-> 100, gain |-> 20],
    large  |-> [skip |-> 4,  escs |-> 2, batch |-> 10, budget |-> 125, gain |-> 15],
    xlarge |-> [skip |-> 2,  escs |-> 3, batch |-> 12, budget |-> 150, gain |-> 10]]

Escalations(mode, escs) ==
    CASE mode = "fastest" -> MaxOf(1, escs - 1)
      [] mode = "quality" -> MinOf(3, escs + 1)
      [] OTHER -> escs

\* The levels a tree of fan-in fan needs above n leaves.
LogCeil(n, fan) == CHOOSE k \in 0..n : fan^k >= n /\ \A j \in 0..k - 1 : fan^j < n

FanIn(tokens, n, context) ==
    LET average == MaxOf(50, MaxOf(1, tokens) \div n)
        usable == MaxOf(400, (context * 85) \div 100)
    IN  MaxOf(2, MinOf(24, usable \div MaxOf(80, average \div 4)))

TreeDepth(n, fan) ==
    IF n <= 8 THEN 2 ELSE MaxOf(3, MinOf(16, LogCeil(MaxOf(2, n), fan) + 2))

\* select_processing_strategy.  Every strategy compiles medium first, so its
\* compile_tier_hint selects nothing and is left out.
Selected(doc, cfg) ==
    LET base == Base[Scale(doc)]
        n == Len(doc.chunks)
        fan == FanIn(doc.tokens, n, cfg.context)
    IN  [skip   |-> base.skip,
         escs   |-> Escalations(doc.mode, base.escs),
         batch  |-> IF Complex(doc) THEN MinOf(16, base.batch + 2) ELSE base.batch,
         budget |-> (cfg.budget * base.budget * (IF doc.mode = "eco" THEN 75 ELSE 100)) \div 10000,
         gain   |-> IF doc.mode = "eco" THEN MaxOf(base.gain, 40) ELSE base.gain,
         light  |-> doc.mode # "quality" \/ doc.grid >= 550,
         fan    |-> fan,
         depth  |-> TreeDepth(n, fan)]

\* What the nodes use when the pipeline intelligence is off.
Configured(cfg) ==
    [skip |-> 0, escs |-> cfg.escs, batch |-> cfg.batch, budget |-> cfg.budget,
     gain |-> 20, light |-> FALSE, fan |-> MaxOf(2, cfg.fan), depth |-> 12]

Strategy(doc, cfg) == IF cfg.intelligence THEN Selected(doc, cfg) ELSE Configured(cfg)

-----------------------------------------------------------------------------
(* The capability requirement *)

\* compute_crs: reasoning, structure, coherence and how hard retrieval is.
Crs(doc) ==
    (35 * doc.reasoning + 20 * doc.structural + 20 * doc.coherence + 25 * (100 - doc.retrieval)) \div 100

\* domain_floor: the score and the tier a domain asks for whatever the text is.
DomainFloor(doc) ==
    CASE doc.domain = "medical" -> [crs |-> 70, tier |-> Heavy]
      [] doc.domain = "legal" -> [crs |-> 55, tier |-> Medium]
      [] doc.domain \in {"financial", "regulatory"} -> [crs |-> 45, tier |-> Medium]
      [] doc.risk = "high" -> [crs |-> 45, tier |-> Medium]
      [] doc.risk = "medium" -> [crs |-> 35, tier |-> Medium]
      [] OTHER -> [crs |-> 0, tier |-> Light]

TierOf(crs) == IF crs < 35 THEN Light ELSE IF crs < 65 THEN Medium ELSE Heavy

MinTier(doc) ==
    LET floor == DomainFloor(doc)
    IN  MaxOf(TierOf(MaxOf(Crs(doc), floor.crs)), floor.tier)

\* The tier of the compile: what the chunks need, and more for coherence or many of them.
CompileTier(doc, cfg) ==
    LET n == Len(doc.chunks) IN
    MaxOf(MinTier(doc), CASE doc.coherence >= 55 \/ n >= cfg.heavyFrom -> Heavy
                          [] doc.coherence < 40 /\ n < MinOf(12, cfg.heavyFrom) -> Light
                          [] OTHER -> Medium)

\* route picks the model of greatest utility among those of min_tier and above.
Eligible(doc) == {t \in Tiers : t >= MinTier(doc)}

-----------------------------------------------------------------------------
(* The chunks *)

\* _TIER_EXPECT
Carbon == [t \in Tiers |-> CASE t = Light -> 8 [] t = Medium -> 18 [] t = Heavy -> 41]
HeavyGain == 20

\* _min_tier_floor: the label of the domain raises the floor a second time.
ChunkFloor(doc) ==
    CASE doc.domain \in {"medical", "clinical"} -> Heavy
      [] doc.domain \in {"legal", "financial"} -> MaxOf(MinTier(doc), Medium)
      [] OTHER -> MinTier(doc)

\* A heavy model that brings too little, or on a grid that is too dirty.
Moderated(tier, doc, strat) ==
    IF tier = Heavy /\ ChunkFloor(doc) # Heavy
       /\ (HeavyGain < strat.gain \/ (strat.light /\ doc.grid >= 500))
    THEN Medium ELSE tier

\* A simple chunk on a dirty grid.
Lightened(tier, chunk, doc, strat) ==
    IF strat.light /\ doc.grid >= 650 /\ ChunkFloor(doc) = Light
       /\ tier = Medium /\ chunk.complexity < 55
    THEN Light ELSE tier

\* One tier down when the budget would not last; a variant that forgets the floor.
Demoted(tier, spent, doc, strat) ==
    IF spent + Carbon[tier] > strat.budget /\ tier # Light /\ tier - 1 >= ChunkFloor(doc)
    THEN tier - 1 ELSE tier

ChunkTier(chunk, spent, doc, strat) ==
    LET wanted == MaxOf(chunk.suggested, ChunkFloor(doc))
    IN  Demoted(Lightened(Moderated(wanted, doc, strat), chunk, doc, strat), spent, doc, strat)

\* route_chunks: the chunks in order, each with what is predicted to be spent.
RouteChunks(doc, strat) ==
    FoldLeft(LAMBDA acc, chunk :
                 LET t == ChunkTier(chunk, acc.spent, doc, strat)
                 IN  [tiers |-> Append(acc.tiers, t), spent |-> acc.spent + Carbon[t]],
             [tiers |-> <<>>, spent |-> 0], doc.chunks).tiers

\* _next_tier; a variant that knows no last tier.
NextTier(t) == MinOf(t + 1, Heavy)

\* escalate_decision: the tier of the document, and with it that of the compile.
Escalated(lead) ==
    IF lead.tier = Heavy THEN lead
    ELSE [tier |-> NextTier(lead.tier), compile |-> MaxOf(lead.compile, NextTier(lead.tier))]

-----------------------------------------------------------------------------
(* The estimate of the energy of a job and of what its routing has saved                  *)
(* (carbon/accounting.py, carbon/energy_model.py).  The unit is a seventy-thousandth of a *)
(* Joule, of which every rate of the code is a whole number.  What turns Joules into      *)
(* grams, the overhead of the facility and the intensity of the grid, is a factor of      *)
(* every term and left out.  A row of the telemetry of a chunk has the phase of the call  *)
(* and the tier that answered, NoTier when none did.                                      *)

\* 0.85, 2.5524 and 6.5 J.
JPerToken == [t \in Tiers |-> CASE t = Light -> 59500 [] t = Medium -> 178668 [] t = Heavy -> 455000]
NoTier == -1
RoutingJ == 3780000
RequeueJ == 140000

\* Python's round of n / d: a half goes to the even neighbour.
Rounded(n, d) ==
    LET q == n \div d
        r == 2 * (n % d)
    IN  IF r > d \/ (r = d /\ q % 2 = 1) THEN q + 1 ELSE q

SumOf(f, s) == MapThenSumSet(LAMBDA i : f[i], s)

-----------------------------------------------------------------------------
(* The tokens *)

\* map_tokens_total
MapTokens(input) == (input * 5) \div 4

\* What was written: the summary, or more when the models of the chunks read much.
Generated(input, summary, read) == MaxOf(summary, MinOf(input \div 3, read \div 2))

\* The rounds of eight a compile takes.
Rounds8(n) == MaxOf(1, LogCeil(MaxOf(n, 2), 8))

\* A compile that counted no call made one, but for a stitch.
CompileCalls(compile) ==
    IF compile.calls = 0 /\ ~compile.stitched THEN 1 ELSE compile.calls

\* The tokens the compile nodes measured, or the length of a summary for every call.
CompileTokens(input, n, written, compile) ==
    IF compile.measured > 0 THEN compile.measured
    ELSE MaxOf(written, MinOf(input \div 3, 6000)) * MaxOf(Rounds8(n), CompileCalls(compile))

\* At most eight chunks are retrieved, of the average size.
Retrieved(input, n) == MinOf(n, 8) * LET avg == input \div n IN IF avg > 0 THEN avg ELSE 350

-----------------------------------------------------------------------------
(* The chunks *)

\* Mutant: the call that was made again is not in the account.
FinalTierOfMap(routed, rows) ==
    LET of == SelectSeq(rows, LAMBDA row : row.phase = "map" /\ row.tier \in Tiers)
    IN  IF of = <<>> THEN routed ELSE Last(of).tier

\* _final_tier_by_chunk: the last call that answered, else the routing.
FinalTier(routed, rows) ==
    LET of == SelectSeq(rows, LAMBDA row : row.phase \in {"map", "escalate"} /\ row.tier \in Tiers)
    IN  IF of = <<>> THEN routed ELSE Last(of).tier

\* _chunk_map_attribution: the tokens by the weight of the text, the last chunk gets
\* what is left.
Shares(weights, total) ==
    LET n == Len(weights)
        mass == SumOf(weights, 1..n)
        most == [i \in 1..(n - 1) |-> Rounded(total * weights[i], mass)]
    IN  Append(most, MaxOf(0, total - SumOf(most, 1..(n - 1))))

ByTier(tiers, shares) ==
    [t \in Tiers |-> SumOf(shares, {i \in DOMAIN shares : tiers[i] = t})]

-----------------------------------------------------------------------------
(* The energy *)

\* Parsing, chunking, embedding, retrieval and checks: the same for both pipelines.
SharedJ(input, n) == input * 3850 + 5040000 + Retrieved(input, n) * 360 + n * 28000

\* estimate_baseline_energy: everything by the reference model, nothing routed.
BaselineJ(input, n, compiled, jRef) == SharedJ(input, n) + (MapTokens(input) + compiled) * jRef

\* estimate_green_energy: every stage by what ran it.
GreenJ(input, n, byTier, compiled, compileTier, escalated) ==
    SharedJ(input, n) + RoutingJ
    + SumOf([t \in Tiers |-> byTier[t] * JPerToken[t]], Tiers)
    + compiled * JPerToken[compileTier] + escalated * RequeueJ

\* _routing_impact: what the tiers of the chunks save against the heavy one.
MapSavedJ(byTier) ==
    MaxOf(0, SumOf([t \in Tiers |-> byTier[t] * (JPerToken[Heavy] - JPerToken[t])], Tiers))

\* estimate_workflow_carbon.  The text of all chunks has some tokens more than its
\* parts: each of them was rounded down.
Account(job, compile, jRef) ==
    LET n == Len(job.weights)
        input == SumOf(job.weights, 1..n) + job.regained
        tiers == [i \in 1..n |-> FinalTier(job.routed[i], job.told[i])]
        byTier == ByTier(tiers, Shares(job.weights, MapTokens(input)))
        compiled == CompileTokens(input, n, Generated(input, job.summary, job.read), compile)
        compileTier == IF compile.heavy THEN Heavy ELSE compile.tier
        green == GreenJ(input, n, byTier, compiled, compileTier, job.escalated)
    IN  [tiers |-> tiers, byTier |-> byTier, mapTokens |-> MapTokens(input),
         saved |-> BaselineJ(input, n, compiled, jRef) - green, mapSaved |-> MapSavedJ(byTier),
         compiled |-> compiled, compileTier |-> compileTier, escalated |-> job.escalated]
=============================================================================

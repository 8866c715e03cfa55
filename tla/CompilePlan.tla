---------------------------- MODULE CompilePlan ----------------------------
(***************************************************************************)
(* The graph of compile nodes put on the chunks of a document before any of   *)
(* them runs (core/pipeline_dag.py, core/planning.py): the levels of the       *)
(* hierarchy, an executive on top, and layers in between wherever the inputs   *)
(* of a node exceed the token budget of a compile call.                        *)
(*                                                                           *)
(* A graph is a sequence of nodes, the chunks with a summary first.  A node    *)
(* has the tokens of its input text and the estimate of its prompt.            *)
(*                                                                           *)
(* Of a chunk count the chapter and the section of its path, the tokens of    *)
(* its summary and, as percentages, its density and its likeness to the       *)
(* summary before it.  The capability score is its default of one half.       *)
(***************************************************************************)
EXTENDS Routing

-----------------------------------------------------------------------------
(* Which chunk summaries are compiled together (core/hierarchy.py): adjacent summaries are *)
(* packed into regions by section, likeness and size, and levels of at most fan nodes are *)
(* put on top.  A node of a level is the sequence of the chunks it covers.                 *)

CeilDiv(a, b) == (a + b - 1) \div b

\* Tokens a region should have at most, of the context of one compile call.
SoftCap(context) == (MaxOf(400, (context * 28) \div 100) * 975) \div 1000

\* round(sqrt(n) * 1.075): the whole number k with (k - 1/2)^2 <= 1.155625 n < (k + 1/2)^2.
ScaledRoot(n) ==
    CHOOSE k \in 0..2 * n :
        /\ (2 * k - 1) * (2 * k - 1) * 250000 <= 1155625 * n
        /\ 1155625 * n < (2 * k + 1) * (2 * k + 1) * 250000

TargetRegions(n) ==
    CASE n <= 3 -> 1
      [] n > 3 /\ n <= 6 -> 2
      [] OTHER -> MaxOf(2, ScaledRoot(n))

SoftMaxPack(n) == MaxOf(2, CeilDiv(n, TargetRegions(n)))

-----------------------------------------------------------------------------
(* Packing *)

\* 1..n in groups of neighbours, front to back: k goes on with the group that starts at
\* from when Joins(from, k), and starts a group of its own otherwise.
Groups(n, Joins(_, _)) ==
    LET From(starts, k) == CHOOSE s \in starts : s < k /\ \A t \in starts : t < k => t <= s
        starts == CHOOSE S \in SUBSET (1..n) :
                      \A k \in 1..n : k \notin S <=> k > 1 /\ 1 \in S /\ Joins(From(S, k), k)
        nth == SetToSortSeq(starts, <)
        last == [g \in DOMAIN nth |-> IF g = Len(nth) THEN n ELSE nth[g + 1] - 1]
    IN  [g \in DOMAIN nth |-> [l \in 1..last[g] - nth[g] + 1 |-> nth[g] + l - 1]]

TokensOf(cs, from, to) == FoldLeft(LAMBDA sum, c : sum + c.tokens, 0, SubSeq(cs, from, to))

\* The pack of cs[from..to].  Its path is that of its section until it takes in another
\* section; then it reads like the first two sections it was made of.
Pack(cs, from, to) ==
    LET others == {l \in from..to : cs[l].section # cs[from].section}
        second == {l \in others : \A m \in others : l <= m}
    IN  [section |-> cs[from].section, chapter |-> cs[from].chapter,
         paths |-> {cs[l].section : l \in {from} \cup second}, mixed |-> others # {},
         tokens |-> TokensOf(cs, from, to), size |-> to - from + 1,
         density |-> FoldLeft(LAMBDA sum, c : sum + c.density, 0, SubSeq(cs, from, to))]

SameSection(pack, c) == ~pack.mixed /\ c.section = pack.section

PathGoesOn(pack, c) ==
    c.section \in pack.paths \/ (~pack.mixed /\ c.chapter = pack.chapter)

\* Denser packs stop earlier: the cap is (1.10 - 0.30 min(1.2, average density)) of soft.
DensityCap(pack, c, soft) ==
    LET average == MinOf(120, (pack.density + c.density) \div (pack.size + 1))
    IN  (soft * (11000 - 30 * average)) \div 10000

TokensFit(pack, c, soft) ==
    LET combined == pack.tokens + c.tokens
    IN  IF SameSection(pack, c) \/ PathGoesOn(pack, c)
        THEN combined <= DensityCap(pack, c, soft)
        ELSE 1000 * combined <= 525 * soft

LengthFits(pack, c, max) ==
    pack.size + 1 <= (IF SameSection(pack, c) \/ PathGoesOn(pack, c) THEN max + 2 ELSE max)

Coherent(pack, c, max) ==
    \/ SameSection(pack, c) \/ PathGoesOn(pack, c) \/ c.like >= 10
    \/ c.like >= 5 /\ pack.size + 1 <= MaxOf(2, max \div 2)

CanMerge(pack, c, soft, max) ==
    \/ Coherent(pack, c, max) /\ TokensFit(pack, c, soft) /\ LengthFits(pack, c, max)
    \/ SameSection(pack, c) /\ pack.tokens + c.tokens <= soft /\ pack.size + 1 <= max + 3

\* The packs of the chunks with a summary, in order.
Packs(cs, soft) ==
    Groups(Len(cs), LAMBDA from, k :
        CanMerge(Pack(cs, from, k - 1), cs[k], soft, SoftMaxPack(Len(cs))))

\* Mutant of Cut: a pack over the cap is cut off there.
Truncated(pack, cs, soft) ==
    IF TokensOf(cs, pack[1], Last(pack)) <= soft THEN <<pack>> ELSE <<<<pack[1]>>>>

\* A pack over the cap is cut again, in order.
Cut(pack, cs, soft) ==
    IF TokensOf(cs, pack[1], Last(pack)) <= soft THEN <<pack>>
    ELSE LET At(l) == pack[1] + l - 1
             parts == Groups(Len(pack), LAMBDA from, k : TokensOf(cs, At(from), At(k)) <= soft)
         IN  [p \in DOMAIN parts |-> [l \in DOMAIN parts[p] |-> At(parts[p][l])]]

\* group_summaries_adaptive.  A region has the chunks it covers and, as its parent, its
\* section or, once its pack has taken in another section, the first chunk of the pack
\* (chunks are counted from 0 there).
Regions(chunks, leaves, soft) ==
    LET cs == [l \in DOMAIN leaves |-> chunks[leaves[l]]]
        Parent(pack) == IF Pack(cs, pack[1], Last(pack)).mixed THEN <<"adapt", leaves[pack[1]] - 1>>
                        ELSE <<"section", cs[pack[1]].section>>
        Region(part, pack) == [of |-> [l \in DOMAIN part |-> leaves[part[l]]], parent |-> Parent(pack)]
        packs == Packs(cs, soft)
    IN  FlattenSeq([p \in DOMAIN packs |->
            LET cut == Cut(packs[p], cs, soft) IN [c \in DOMAIN cut |-> Region(cut[c], packs[p])]])

\* The ids of the regions: a lone chunk's is that of the parent, the others count; so does
\* one whose id is taken, without a look whether the number is taken too.
Ids(regions) ==
    FoldLeft(LAMBDA ids, region :
                 LET counted == <<"adapt", Len(ids)>>
                     own == IF Len(region.of) = 1 THEN region.parent ELSE counted
                 IN  Append(ids, IF Contains(ids, own) THEN counted ELSE own),
             <<>>, regions)

-----------------------------------------------------------------------------
(* Levels *)

\* One level up: batches of fan nodes.
Batched(nodes, fan) ==
    [b \in 1..CeilDiv(Len(nodes), fan) |->
        FlattenSeq(SubSeq(nodes, (b - 1) * fan + 1, MinOf(b * fan, Len(nodes))))]

\* The levels from the given one up: one is added while there are more than fan nodes
\* and the depth allows it.
LevelsFrom(nodes, level, fan, depth) ==
    LET Up(levels, l) == IF Len(Last(levels)) > MaxOf(1, fan)
                         THEN Append(levels, Batched(Last(levels), fan)) ELSE levels
    IN  FoldLeft(Up, <<nodes>>, [l \in 1..depth - level |-> l])

\* build_hierarchy_levels: the leaves, and above them, unless there are fewer leaves than
\* skip, the regions.
Levels(chunks, leaves, strat, context) ==
    LET single == [l \in DOMAIN leaves |-> <<leaves[l]>>]
        regions == Regions(chunks, leaves, SoftCap(context))
        fan == MaxOf(2, strat.fan)
        depth == MaxOf(2, strat.depth)
    IN  IF Len(leaves) < strat.skip
        THEN LevelsFrom(single, 1, fan, depth)
        ELSE <<single>> \o LevelsFrom([r \in DOMAIN regions |-> regions[r].of], 2, fan, depth)
-----------------------------------------------------------------------------

Total(tokens) == FoldLeft(LAMBDA sum, t : sum + t, 0, tokens)

Node(kind, depth, deps, text) ==
    [kind |-> kind, depth |-> depth, deps |-> deps, text |-> text, est |-> text]

\* How a level is called, and so its nodes: from the third level up they are executives.
KindOf(level, regional) ==
    CASE level = 0 -> "chunk"
      [] level = 1 /\ regional -> "regional"
      [] level >= 3 -> "executive"
      [] OTHER -> "chapter"

\* build_hierarchy_onto_chunks.  The nodes of the level above the leaves depend on the
\* chunks they cover, those of the next levels on a batch of the level below.  A node is
\* what has one id: regions of one id share the node of the first, which depends on what
\* the last of them covers.  Without regions ids is empty.
Onto(levels, ids, chunks, fan) ==
    LET regional == ids # <<>>
        Same(li, b) == IF li = 2 /\ regional THEN {c \in DOMAIN ids : ids[c] = ids[b]} ELSE {b}
        own == [li \in DOMAIN levels |-> {b \in DOMAIN levels[li] : b = Min(Same(li, b))}]
        Before(li) == Total([l \in 1..li - 1 |-> Cardinality(own[l])])
        At(li, b) == Before(li) + Cardinality({c \in own[li] : c <= Min(Same(li, b))})
        leafOf == [l \in DOMAIN levels[1] |-> levels[1][l][1]]
        Deps(li, b) ==
            CASE li = 1 -> <<>>
              [] li = 2 -> SelectSeq([l \in DOMAIN leafOf |-> l],
                                     LAMBDA l : Contains(levels[2][Max(Same(2, b))], leafOf[l]))
              [] OTHER -> LET last == MinOf(b * MaxOf(2, fan), Len(levels[li - 1]))
                              first == (b - 1) * MaxOf(2, fan) + 1
                          IN  [k \in 1..last - first + 1 |-> At(li - 1, first + k - 1)]
        Tokens(nodes) == Total([k \in DOMAIN nodes |-> chunks[nodes[k]].tokens])
        level == [li \in DOMAIN levels |-> [k \in 1..Cardinality(own[li]) |->
                     LET b == SetToSortSeq(own[li], <)[k]
                     IN  Node(KindOf(li - 1, regional), li - 1, Deps(li, b), Tokens(levels[li][b]))]]
        nodes == FlattenSeq(level)
        top == Len(levels)
    IN  IF Len(levels[top]) > 1 \/ top = 1
        THEN Append(nodes, Node("executive", top, [b \in DOMAIN levels[top] |-> At(top, b)], 0))
        ELSE [nodes EXCEPT ![Len(nodes)].kind = "executive"]

-----------------------------------------------------------------------------
(* Overflow *)

\* _expected_summary_token_cap
SummaryCap(n, budget) == MaxOf(64, budget \div MaxOf(4, n))

\* estimate_compile_prompt_tokens: a chunk counts with its summary, a compile node with
\* what its own summary is expected to have.
Estimated(dag, n, budget) ==
    LET deps == dag[n].deps
        cap == SummaryCap(Len(deps), budget)
    IN  Total([k \in DOMAIN deps |->
                  LET d == dag[deps[k]]
                  IN  CASE d.kind = "chunk" -> d.text
                        [] d.kind # "chunk" /\ d.est > 0 -> MinOf(d.est, cap)
                        [] OTHER -> MinOf(cap, 256)])

ChunkText(dag, n) ==
    Total([k \in DOMAIN dag[n].deps |->
              LET d == dag[dag[n].deps[k]] IN IF d.kind = "chunk" THEN d.text ELSE 0])

DepTokens(d) == MaxOf(1, IF d.est > 0 THEN d.est ELSE d.text)

\* How the dependencies of a node are shared out: by number, or by tokens when one layer
\* would take them all.
Batches(tokens, budget) ==
    LET n == Len(tokens)
        average == MaxOf(50, Total(tokens) \div n)
        fan == MaxOf(2, MinOf(n, budget \div MaxOf(80, average)))
        all == [k \in 1..n |-> k]
    IN  IF CeilDiv(n, fan) > 1
        THEN [b \in 1..CeilDiv(n, fan) |-> SubSeq(all, (b - 1) * fan + 1, MinOf(b * fan, n))]
        ELSE Groups(n, LAMBDA from, k : Total(SubSeq(tokens, from, k)) <= budget)

\* Mutant of Layered: the batches overlap by one.
LayeredOverlapping(dag, n, budget) ==
    LET deps == dag[n].deps
        half == (Len(deps) + 1) \div 2
        kind == IF dag[n].kind = "executive" THEN "chapter" ELSE "regional"
        New(below) == Node(kind, dag[n].depth, below, Total([k \in DOMAIN below |-> dag[below[k]].text]))
    IN  IF Len(deps) < 3 \/ Total([k \in DOMAIN deps |-> DepTokens(dag[deps[k]])]) <= budget THEN dag
        ELSE [dag EXCEPT ![n] = [@ EXCEPT !.deps = <<Len(dag) + 1, Len(dag) + 2>>, !.text = 0,
                                          !.est = 2 * SummaryCap(2, budget)]]
             \o <<New(SubSeq(deps, 1, half)), New(SubSeq(deps, half, Len(deps)))>>

\* insert_overflow_layer: the graph with a layer under node n, or the graph as it is when
\* n fits or cannot be taken apart.
Layered(dag, n, budget) ==
    LET deps == dag[n].deps
        tokens == [k \in DOMAIN deps |-> DepTokens(dag[deps[k]])]
        batches == Batches(tokens, budget)
        kind == IF dag[n].kind = "executive" THEN "chapter" ELSE "regional"
        New(b) == LET below == [k \in DOMAIN batches[b] |-> deps[batches[b][k]]]
                  IN  Node(kind, dag[n].depth, below,
                           Total([k \in DOMAIN below |-> dag[below[k]].text]))
        ids == [b \in DOMAIN batches |-> Len(dag) + b]
    IN  IF deps = <<>> \/ (Total(tokens) <= budget /\ dag[n].text <= budget) THEN dag
        ELSE IF Len(batches) <= 1 THEN dag
        ELSE [dag EXCEPT ![n] = [@ EXCEPT !.depth = @ + 1, !.deps = ids, !.text = 0,
                                          !.est = SummaryCap(Len(ids), budget) * Len(ids)]]
             \o [b \in DOMAIN batches |-> New(b)]

\* ensure_prompt_budget: layers are put under n, and under the nodes put in, until its
\* prompt fits, at most six times.
Tries == 6
Try(n, tries) == [node |-> n, left |-> tries]

\* The graph once the prompt of n has been counted.
Counted(dag, n, left, est, text) ==
    [dag EXCEPT ![n].est = est, ![n].text = IF text > 0 \/ left < Tries THEN text ELSE @]

\* What is to do once n has been layered: the nodes put under it come before its own
\* next turn.
Deeper(more, n, left, rest) ==
    LET below == more[n].deps
    IN  [k \in DOMAIN below |-> Try(below[k], Tries)] \o <<Try(n, left - 1)>> \o rest

Taken(read, more, n, left, budget, rest) ==
    IF read[n].est <= budget \/ left = 0 \/ more = read THEN [dag |-> read, todo |-> rest]
    ELSE [dag |-> more, todo |-> Deeper(more, n, left, rest)]

FitNode(read, n, left, budget, rest) ==
    Taken(read, Layered(read, n, budget), n, left, budget, rest)

\* One turn: of what is to do comes first the node on top.
FitTop(work, budget) ==
    LET dag == work.dag
        n == Head(work.todo).node
        left == Head(work.todo).left
    IN  FitNode(Counted(dag, n, left, Estimated(dag, n, budget), ChunkText(dag, n)),
                n, left, budget, Tail(work.todo))

Turn(work, budget) == IF work.todo = <<>> THEN work ELSE FitTop(work, budget)

\* Bound: turns until a node and all that was put under it fit.
MaxTurns == 40

Reached(after) == after[CHOOSE turn \in DOMAIN after : after[turn].todo = <<>>].dag

Fitted(dag, n, budget) ==
    LET after[turn \in 0..MaxTurns] ==
            IF turn = 0 THEN [dag |-> dag, todo |-> <<Try(n, Tries)>>]
            ELSE Turn(after[turn - 1], budget)
    IN  Reached(after)

\* Every compile node is fitted once.
FittedAll(dag, budget) ==
    FoldLeft(LAMBDA acc, n : IF dag[n].kind = "chunk" THEN acc ELSE Fitted(acc, n, budget),
             dag, [n \in DOMAIN dag |-> n])

\* Fitted until nothing changes, in at most so many rounds: one in run_dag_compile, eight in
\* plan_compile_hierarchy.
Stable(dag, budget, rounds) ==
    LET Compared(before, after) == [dag |-> after, done |-> Len(after) = Len(before)]
        Again(acc, round) ==
            IF acc.done THEN acc ELSE Compared(acc.dag, FittedAll(acc.dag, budget))
    IN  FoldLeft(Again, [dag |-> dag, done |-> FALSE], [round \in 1..rounds |-> round]).dag

-----------------------------------------------------------------------------
(* What a plan is for *)

\* The leaves under a node.
Under(dag, n) ==
    LET Down(found, step) == found \cup UNION {ToSet(dag[m].deps) : m \in found}
        all == FoldLeft(Down, {n}, [step \in DOMAIN dag |-> step])
    IN  {m \in all : dag[m].kind = "chunk"}

Root(dag) == CHOOSE n \in DOMAIN dag : \A m \in DOMAIN dag : n \notin ToSet(dag[m].deps)

\* The assumption DocumentDag makes of the graph it executes: a tree whose nodes are no
\* deeper than what depends on them, with one executive above all chunks.
IsTree(dag) ==
    /\ \A n, m \in DOMAIN dag : n # m => ToSet(dag[n].deps) \cap ToSet(dag[m].deps) = {}
    /\ \A n \in DOMAIN dag : \A d \in ToSet(dag[n].deps) : dag[d].depth <= dag[n].depth
    /\ \A n \in DOMAIN dag : dag[n].kind = "chunk" <=> dag[n].deps = <<>>
    /\ Cardinality({n \in DOMAIN dag : \A m \in DOMAIN dag : n \notin ToSet(dag[m].deps)}) = 1
    /\ dag[Root(dag)].kind = "executive"
    /\ Under(dag, Root(dag)) = {n \in DOMAIN dag : dag[n].kind = "chunk"}

=============================================================================

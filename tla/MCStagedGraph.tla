--------------------------- MODULE MCStagedGraph ---------------------------
(***************************************************************************)
(* Documents of one to four chunks, each under one configuration.            *)
(***************************************************************************)
EXTENDS StagedGraph

\* chapter, section, tokens of the summary, likeness to the summary before it,
\* its density, the tier its features suggest, its complexity
Chunk(chapter, section, tokens, like, density, suggested, complexity) ==
    [chapter |-> chapter, section |-> section, tokens |-> tokens, like |-> like,
     density |-> density, suggested |-> suggested, complexity |-> complexity]

Plain == [reasoning |-> 20, structural |-> 30, coherence |-> 30, retrieval |-> 70, technical |-> 10,
          domain |-> "general", risk |-> "low", mode |-> "automatic", grid |-> 700,
          tokens |-> 2400, pages |-> 5]

With(features, chunks) ==
    [f \in DOMAIN features \cup {"chunks"} |-> IF f = "chunks" THEN chunks ELSE features[f]]

Default == [unified |-> FALSE, intelligence |-> TRUE, adaptive |-> TRUE, pool |-> TRUE, dag |-> TRUE, validators |-> 8,
            context |-> 9600, escs |-> 2, batch |-> 2, fan |-> 8, budget |-> 4000,
            heavyFrom |-> 20, dagCalls |-> {1, 3}, measured |-> {0, 350},
            regained |-> {0}, summary |-> {40}, read |-> {20}, reference |-> 455000]

\* A simple document on a dirty grid, whose budget does not last, compiled by calls.
Simple == [doc |-> With(Plain, <<Chunk("A", "A1", 150, 0, 60, Heavy, 80), Chunk("A", "A2", 150, 20, 60, Medium, 40),
                                 Chunk("B", "B1", 200, 0, 60, Medium, 70)>>),
           cfg |-> [Default EXCEPT !.dag = FALSE, !.budget = 30, !.read = {90}]]

\* A medical document for which no budget is left.
Medical == [doc |-> With([Plain EXCEPT !.domain = "medical", !.risk = "high", !.mode = "eco", !.reasoning = 80],
                         <<Chunk("A", "A1", 150, 0, 60, Light, 80), Chunk("A", "A1", 150, 20, 60, Medium, 40)>>),
            cfg |-> [Default EXCEPT !.budget = 45, !.regained = {0, 1}]]

\* The planning off: two summaries of one section, packed for their low density and
\* cut again, two that do not fit together, and a level of two nodes above the regions.
Legal == [doc |-> With([Plain EXCEPT !.domain = "legal", !.risk = "high", !.mode = "quality"],
                       <<Chunk("A", "A1", 200, 0, 10, Light, 80), Chunk("A", "A1", 200, 20, 10, Medium, 40),
                         Chunk("B", "B1", 190, 0, 60, Heavy, 10), Chunk("C", "C1", 90, 0, 60, Light, 10)>>),
          cfg |-> [Default EXCEPT !.intelligence = FALSE, !.dag = FALSE, !.context = 1000,
                                  !.escs = 1, !.batch = 2, !.fan = 2, !.regained = {3}]]

\* One chunk, no pool, one tier for the document.
Single == [doc |-> With([Plain EXCEPT !.coherence = 45, !.risk = "medium", !.mode = "fastest"], <<Chunk("A", "A1", 150, 0, 60, Light, 20)>>),
           cfg |-> [Default EXCEPT !.pool = FALSE, !.adaptive = FALSE, !.validators = 1, !.read = {5, 90}]]

\* Many pages for the text they hold: a large document of two chunks, regions in every
\* compile, and more rounds of escalation.
Long == [doc |-> With([Plain EXCEPT !.pages = 300, !.reasoning = 60, !.grid = 400],
                      <<Chunk("A", "A1", 900, 0, 60, Light, 80), Chunk("B", "B1", 190, 0, 90, Heavy, 10)>>),
         cfg |-> [Default EXCEPT !.dag = FALSE, !.regained = {1}, !.summary = {5}]]

\* Regions that come to one id: two chunks of one section fill the first, the next two are
\* of two sections of the chapter and packed for their low density, then cut again.
Clash == [doc |-> With(Plain, <<Chunk("A", "A1", 190, 0, 10, Light, 20), Chunk("A", "A1", 190, 20, 10, Light, 20),
                                Chunk("A", "A2", 200, 20, 10, Light, 20), Chunk("A", "A3", 200, 20, 10, Light, 20)>>),
          cfg |-> [Default EXCEPT !.intelligence = FALSE, !.context = 1000, !.unified = TRUE]]
ClashCompiled == [Clash EXCEPT !.cfg.unified = FALSE, !.cfg.escs = 0, !.cfg.dagCalls = {1}, !.cfg.measured = {0}]

\* Documents of the unified branch whose summaries do not fit one call, over flat levels
\* and over regions.
Sizes == [1..2 -> {100, 700, 1100}] \cup [1..3 -> {100, 700, 1100}] \cup [1..4 -> {100, 700}]
Planned ==
    {[doc |-> With(Plain, [i \in DOMAIN size |->
                              Chunk("A", IF i < 3 THEN "A1" ELSE "A2", size[i], 0, 60, Light, 20)]),
      cfg |-> [Default EXCEPT !.unified = TRUE, !.context = 1000, !.intelligence = flat, !.fan = 2]] :
     size \in Sizes, flat \in BOOLEAN}

\* The chunks of these cases are given: one paragraph each, with no chunker.
Block(kind, size, title, major, lines) ==
    [kind |-> kind, size |-> size, title |-> title, major |-> major, marked |-> FALSE,
     level |-> 0, lines |-> lines]
Q == Block("text", 14, FALSE, FALSE, 1)
Given(case) == [doc |-> case.doc, cfg |-> case.cfg,
                file |-> [elements |-> [i \in DOMAIN case.doc.chunks |-> [Q EXCEPT !.size = 8 + 5 * i]], chunker |-> "off"]]

\* Files for the chunkers: headings, one of a chapter, paragraphs of two lines and a
\* large one, lists, a table, a caption, a long line with a markdown sign.
H == Block("text", 1, TRUE, FALSE, 1)
M == Block("text", 1, TRUE, TRUE, 1)
P == Block("text", 4, FALSE, FALSE, 2)
L == Block("list", 2, FALSE, FALSE, 1)
N == Block("list", 2, FALSE, FALSE, 2)
T == Block("table", 5, FALSE, FALSE, 1)
C == Block("caption", 1, FALSE, FALSE, 1)
K == [Block("text", 4, FALSE, FALSE, 1) EXCEPT !.marked = TRUE]
Files == [1..3 -> {M, P, Q, L, T}] \cup [1..4 -> {H, P, Q, T}] \cup
         {<<M, L, H, L>>, <<H, P, T, M, P, C>>, <<H, Q, P, T, P, T, C>>, <<P, P, M, P, T, T>>, <<M, N, P, P>>,
          <<P, K, T, P>>}
Parsed == {[doc |-> With(Plain, <<Chunk("A", "A1", 100, 0, 60, Light, 20)>>),
           cfg |-> [Default EXCEPT !.unified = TRUE],
           file |-> [elements |-> e, chunker |-> c]] : e \in Files, c \in {"structure", "adaptive", "off"}}

MCLimits == [target |-> 8, min |-> 5, max |-> 12, tiny |-> 2, line |-> 1, overlap |-> 1,
             maxChunk |-> 6, minSim |-> 3, titleAsChunk |-> FALSE, cap |-> 3, few |-> 2,
             fragment |-> 3, forceCap |-> TRUE]

MCCases == {Given(case) : case \in {Simple, Medical, Legal, Single, Long, Clash, ClashCompiled} \cup Planned} \cup Parsed

=============================================================================

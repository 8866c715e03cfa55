------------------------------ MODULE Chunking ------------------------------
(***************************************************************************)
(* triage_document: a file is read (agents/triage.py) and cut into chunks by  *)
(* the structure parser (structure/pipeline.py), by the chunking service, or  *)
(* one chunk to an element (core/orchestrator.py).                            *)
(*                                                                           *)
(* Whether a line is a heading and how much two texts are alike is scored     *)
(* from the words and by a model: any outcome is possible.                    *)
(***************************************************************************)
EXTENDS Sections

VARIABLES
    file,      \* its elements, and which chunker is switched on
    stage,     \* what comes next
    blocks,    \* elements, or the layout blocks made of them
    sections,  \* of the structure parser
    filled,    \* chunks and buffer of the chunking service
    at,        \* blocks it has taken
    written    \* the chunks and their parents

chunkVars == <<file, stage, blocks, sections, filled, at, written>>

ChunkInit(f) ==
    /\ file = f /\ stage = "read" /\ at = 0
    /\ blocks = <<>> /\ sections = <<>> /\ filled = Begin /\ written = Empty

-----------------------------------------------------------------------------

\* What the fallbacks read of a file whose layout is not recognised: its text.
PlainText(elements) ==
    [i \in DOMAIN elements |-> [elements[i] EXCEPT !.kind = "text", !.title = FALSE]]

\* triage.triage_document: the layout, the text alone, or nothing.
Read ==
    /\ stage = "read"
    /\ blocks' \in {file.elements, PlainText(file.elements), <<>>}
    /\ stage' = IF blocks' = <<>> THEN "chunked" ELSE file.chunker
    /\ UNCHANGED <<file, sections, filled, at, written>>

\* align_chunks_to_document_id: the elements are the chunks, without parents.
Align ==
    /\ stage = "off" /\ stage' = "chunked"
    /\ written' = [Empty EXCEPT !.chunks = [i \in DOMAIN blocks |->
                                               [text |-> <<i>>, parent |-> 0, table |-> FALSE]]]
    /\ UNCHANGED <<file, blocks, sections, filled, at>>

\* elements_to_layout_blocks: a text of several lines becomes a block for each.
LayoutBlocks(elements) ==
    LET Lines(e) == IF e.kind = "table" \/ e.lines = 1 THEN <<e>>
                    ELSE [l \in 1..e.lines |->
                             [e EXCEPT !.size = @ \div e.lines, !.lines = 1,
                                       !.kind = IF @ = "list" THEN "text" ELSE @]]
    IN  Joined([i \in DOMAIN elements |-> Lines(elements[i])])

\* A title, a short line, or one with a number or a markdown sign in front is looked at ...
Candidate(b) == b.title \/ b.marked \/ b.size <= Limits.line

\* ... and nothing inside a table is accepted, whatever its words are.
MayOpen(b) == b.kind # "table"

\* What the score makes of any other line: refused, or a heading of three ranks.
HeadingLevels == 0..3

\* validate_headings and build_semantic_sections
ValidateHeadings ==
    /\ stage = "structure" /\ stage' = "merge"
    /\ LET lines == LayoutBlocks(blocks) IN
       \E level \in [{i \in DOMAIN lines : Candidate(lines[i]) /\ MayOpen(lines[i])} -> HeadingLevels] :
           blocks' = [i \in DOMAIN lines |->
                         IF i \in DOMAIN level THEN [lines[i] EXCEPT !.level = level[i]]
                         ELSE lines[i]]
    /\ sections' = SectionsOf(blocks')
    /\ UNCHANGED <<file, filled, at, written>>

\* A pass of merge_sections, repeated until nothing is merged any more.
MergePass ==
    /\ stage = "merge"
    /\ \E like \in [1..(Len(sections) - 1) -> 0..2] : sections' = MergedOnce(blocks, sections, like)
    /\ stage' = IF sections' = sections THEN "pack" ELSE "merge"
    /\ UNCHANGED <<file, blocks, filled, at, written>>

PackChunks ==
    /\ stage = "pack" /\ stage' = "chunked"
    /\ written' = PackSections(blocks, sections)
    /\ UNCHANGED <<file, blocks, sections, filled, at>>

\* ChunkingService.build
FillBlock ==
    /\ stage = "adaptive" /\ at < Len(blocks)
    /\ at' = at + 1
    /\ \E like \in BOOLEAN : filled' = TakeBlock(blocks, filled, at', like)
    /\ UNCHANGED <<file, stage, blocks, sections, written>>

FinishFilling ==
    /\ stage = "adaptive" /\ at = Len(blocks)
    /\ stage' = "chunked"
    /\ written' = Finished(blocks, filled)
    /\ UNCHANGED <<file, blocks, sections, filled, at>>

-----------------------------------------------------------------------------
(* Properties *)

Structured == file.chunker = "structure"

\* All the text there is, chunk after chunk.
Whole == Joined([c \in DOMAIN written.chunks |-> written.chunks[c].text])

\* Merging, packing, splitting and consolidating neither lose nor repeat a text, and
\* paragraphs stay in the order of the document (semantic_merge.py, packing.py,
\* chunking/service.py).  The headings the structure parser found are not counted: of
\* two merged sections one heading may be written twice and the other not at all.
TextKeptOnce ==
    stage = "chunked" /\ blocks # <<>> =>
        LET body == SelectSeq(Whole, LAMBDA i : i > 0 /\ blocks[i].level = 0)
            prose == SelectSeq(body, LAMBDA i : ~Structured \/ blocks[i].kind = "text")
        IN  /\ ToSet(body) = {i \in DOMAIN blocks : blocks[i].level = 0}
            /\ IsInjective(body)
            /\ \A i, j \in DOMAIN prose : i < j => prose[i] < prose[j]

=============================================================================

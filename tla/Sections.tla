------------------------------ MODULE Sections ------------------------------
(***************************************************************************)
(* From the blocks of a document to the chunks its summaries are made of     *)
(* (the package structure/): sections between validated headings, merging of *)
(* neighbours that are alike, packing into chunks of a target size.          *)
(*                                                                           *)
(* A block is named by its place; a text is the sequence of the blocks in    *)
(* it, 0 for the heading "Preamble" of a section that has none, and -i for   *)
(* the tail of block i that is repeated as an overlap.  A size is a number   *)
(* of tokens and the size of a text the sum over its blocks.                 *)
(***************************************************************************)
EXTENDS Integers, Sequences, SequencesExt, Folds

CONSTANT Limits  \* the settings STRUCTURE_* and CHUNK_*

Nothing == [text |-> <<>>, list |-> <<>>, table |-> <<>>, caption |-> <<>>, equation |-> <<>>]

SizeIn(blocks, i) ==
    CASE i = 0 -> 0 [] i < 0 -> Limits.overlap [] i > 0 -> blocks[i].size
SizeOf(blocks, text) == FoldLeft(LAMBDA sum, i : sum + SizeIn(blocks, i), 0, text)

Places(s) == [i \in DOMAIN s |-> i]
Joined(texts) == FoldLeft(LAMBDA all, t : all \o t, <<>>, texts)

-----------------------------------------------------------------------------
(* build_semantic_sections *)

Section(i, level, major) == [heading |-> i, level |-> level, major |-> major, parts |-> Nothing]
Preamble == Section(0, 1, FALSE)

\* body_text
Body(sec) == <<sec.heading>> \o sec.parts.text \o sec.parts.list \o sec.parts.table
             \o sec.parts.caption \o sec.parts.equation

Attach(sec, kind, i) == [sec EXCEPT !.parts[kind] = Append(@, i)]

\* A validated heading opens a section; anything else goes to the one that is open.
SectionsOf(blocks) ==
    LET Take(secs, i) ==
            LET b == blocks[i] IN
            IF b.level > 0 THEN Append(secs, Section(i, b.level, b.major))
            ELSE IF secs = <<>> THEN <<Attach(Preamble, b.kind, i)>>
            ELSE Front(secs) \o <<Attach(Last(secs), b.kind, i)>>
    IN  FoldLeft(Take, <<>>, Places(blocks))

-----------------------------------------------------------------------------
(* merge_sections *)

\* An appendix, the references, a chapter begin anew.
HardBoundary(sec) == sec.level <= 1 /\ sec.major

\* Mutant: the lists of the second section are left behind.
CombineText(a, b) ==
    LET top == IF b.level < a.level THEN b ELSE a
        head == IF b.heading = 0 THEN <<>> ELSE <<b.heading>>
    IN  [top EXCEPT !.parts = [a.parts EXCEPT !.text = @ \o head \o b.parts.text,
                                              !.table = @ \o b.parts.table,
                                              !.caption = @ \o b.parts.caption,
                                              !.equation = @ \o b.parts.equation]]

\* The heading of the more major one is the heading of both.
Combine(a, b) ==
    LET top == IF b.level < a.level THEN b ELSE a
        head == IF b.heading = 0 THEN <<>> ELSE <<b.heading>>
    IN  [top EXCEPT !.parts =
            [k \in DOMAIN Nothing |->
                a.parts[k] \o (IF k = "text" THEN head ELSE <<>>) \o b.parts[k]]]

\* like: 2 as similar as STRUCTURE_MERGE_SIM_MIN asks, 1 enough for tiny sections.
Mergeable(blocks, a, b, like) ==
    LET m == SizeOf(blocks, Body(a)) n == SizeOf(blocks, Body(b)) IN
    /\ ~HardBoundary(b) /\ m + n <= Limits.max
    /\ m < Limits.target \/ n < Limits.target
    /\ \/ a.level - b.level \in -1..1 /\ like = 2
       \/ m < Limits.tiny /\ n < Limits.tiny /\ like >= 1

\* One pass over the sections: neighbours in pairs, a merged pair is not looked at again.
MergedOnce(blocks, secs, like) ==
    LET Take(acc, i) ==
            IF acc.skip THEN [acc EXCEPT !.skip = FALSE]
            ELSE IF i < Len(secs) /\ Mergeable(blocks, secs[i], secs[i + 1], like[i])
                 THEN [out |-> Append(acc.out, Combine(secs[i], secs[i + 1])), skip |-> TRUE]
                 ELSE [acc EXCEPT !.out = Append(@, secs[i])]
    IN  FoldLeft(Take, [out |-> <<>>, skip |-> FALSE], Places(secs)).out

-----------------------------------------------------------------------------
(* pack_sections *)

\* What is written so far, and the sections that wait for the next chunk.
Empty == [chunks |-> <<>>, parents |-> <<>>, buf |-> <<>>]

\* A chunk under a parent of its own.
Emit(acc, text) ==
    LET p == Len(acc.parents) + 1 IN
    [acc EXCEPT !.chunks = Append(@, [text |-> text, parent |-> p, table |-> FALSE]),
                !.parents = Append(@, [id |-> p, of |-> <<Len(acc.chunks) + 1>>])]

Waiting(acc) == Joined([i \in DOMAIN acc.buf |-> Body(acc.buf[i])])
Flush(acc) == IF acc.buf = <<>> THEN acc ELSE [Emit(acc, Waiting(acc)) EXCEPT !.buf = <<>>]

\* A further piece makes the part too large.
Overfull(blocks, buf, piece) == buf # <<>> /\ SizeOf(blocks, Append(buf, piece)) > Limits.max

\* _split_oversized: the heading and the paragraphs in parts; tables and the like go
\* with the last of them or into a part of their own.
SplitOversized(blocks, sec) ==
    LET pieces == <<sec.heading>> \o sec.parts.text
        extras == sec.parts.table \o sec.parts.list \o sec.parts.caption \o sec.parts.equation
        Take(acc, piece) ==
            IF Overfull(blocks, acc.buf, piece)
            THEN [out |-> Append(acc.out, acc.buf), buf |-> <<piece>>]
            ELSE [acc EXCEPT !.buf = Append(@, piece)]
        cut == FoldLeft(Take, [out |-> <<>>, buf |-> <<>>], pieces)
    IN  IF SizeOf(blocks, cut.buf \o extras) * 100 <= Limits.max * 115
        THEN Append(cut.out, cut.buf \o extras)
        ELSE Append(cut.out, cut.buf) \o (IF extras = <<>> THEN <<>> ELSE <<extras>>)

LargerOf(a, b) == IF a > b THEN a ELSE b

PackSection(blocks, acc, sec) ==
    LET n == SizeOf(blocks, Body(sec))
        held == SizeOf(blocks, Waiting(acc))
        boundary == /\ acc.buf # <<>> /\ sec.level <= 1
                    /\ held >= LargerOf(Limits.min \div 2, Limits.tiny)
                    /\ held + n > Limits.target
        full == acc.buf # <<>> /\ held + n > Limits.max
        open == IF boundary \/ full THEN Flush(acc) ELSE acc
        next == [open EXCEPT !.buf = Append(@, sec)]
        size == SizeOf(blocks, Waiting(next))
    IN  IF n > Limits.max
        THEN FoldLeft(Emit, Flush(acc), SplitOversized(blocks, sec))
        ELSE IF size >= Limits.target /\ size >= Limits.min THEN Flush(next) ELSE next

\* child_chunk_indices
Children(chunks, p) == SelectSeq(Places(chunks), LAMBDA c : chunks[c].parent = p)

\* A small chunk at the end goes to the one before it, and its parent goes.
AbsorbTail(blocks, acc) ==
    LET n == Len(acc.chunks)
        last == acc.chunks[n]
        both == acc.chunks[n - 1].text \o last.text
        left == [Front(acc.chunks) EXCEPT ![n - 1].text = both]
        kept == SelectSeq(acc.parents, LAMBDA p : p.id # last.parent)
    IN  IF n < 2 \/ SizeOf(blocks, last.text) >= Limits.min \/ SizeOf(blocks, both) > Limits.max
        THEN acc
        ELSE [acc EXCEPT
                !.chunks = left,
                !.parents = [i \in DOMAIN kept |->
                                [kept[i] EXCEPT !.of = Children(left, kept[i].id)]]]

PackSections(blocks, secs) ==
    LET Take(acc, sec) == PackSection(blocks, acc, sec)
    IN  AbsorbTail(blocks, Flush(FoldLeft(Take, Empty, secs)))

-----------------------------------------------------------------------------
(* Chunking without the structure parser: ChunkingService (chunking/service.py).  A title *)
(* opens a section, a table is a chunk, texts fill a buffer until it is full or the next  *)
(* one is about something else, and a second pass packs fragments and brings the number   *)
(* of chunks under a cap.                                                                  *)

(* ChunkingService.build *)

Begin == [chunks |-> <<>>, sections |-> 0, buf |-> <<>>]

Put(acc, text, table) ==
    [acc EXCEPT !.chunks = Append(@, [text |-> text, parent |-> acc.sections, table |-> table])]
FlushBuffer(acc) == IF acc.buf = <<>> THEN acc ELSE [Put(acc, acc.buf, FALSE) EXCEPT !.buf = <<>>]
DefaultParent(acc) == IF acc.sections = 0 THEN [acc EXCEPT !.sections = 1] ELSE acc

\* The end of the buffer is repeated in front of the next chunk.
OverlapOf(blocks, buf) ==
    IF Limits.overlap > 0 /\ SizeOf(blocks, buf) > Limits.overlap THEN <<-Last(buf)>> ELSE <<>>

\* like: the block is as similar to the one before as CHUNK_SIM_THRESHOLD asks.
Splits(blocks, buf, i, like) ==
    \/ SizeOf(blocks, Append(buf, i)) > Limits.maxChunk
    \/ SizeOf(blocks, buf) >= Limits.minSim /\ ~like

TakeBlock(blocks, acc, i, like) ==
    LET b == blocks[i] IN
    CASE b.title -> LET opened == [FlushBuffer(acc) EXCEPT !.sections = @ + 1] IN
                    IF Limits.titleAsChunk THEN Put(opened, <<i>>, FALSE)
                                           ELSE [opened EXCEPT !.buf = <<i>>]
      [] b.kind = "table" -> Put(DefaultParent(FlushBuffer(acc)), <<i>>, TRUE)
      [] OTHER -> LET held == DefaultParent(acc) IN
                  IF held.buf # <<>> /\ Splits(blocks, held.buf, i, like)
                  THEN [FlushBuffer(held) EXCEPT
                           !.buf = Append(OverlapOf(blocks, held.buf), i)]
                  ELSE [held EXCEPT !.buf = Append(@, i)]

-----------------------------------------------------------------------------
(* _consolidate *)

NeedsConsolidate(blocks, chunks) ==
    LET total == SizeOf(blocks, Joined([i \in DOMAIN chunks |-> chunks[i].text])) IN
    \/ Len(chunks) > Limits.cap
    \/ Len(chunks) > Limits.few /\ total < Limits.fragment * Len(chunks)

\* Chunks become one: the section of the first.
One(group) ==
    IF Len(group) = 1 THEN group[1]
    ELSE [text |-> Joined([i \in DOMAIN group |-> group[i].text]),
          parent |-> group[1].parent, table |-> FALSE]

\* Neighbours of one section up to the limit; a table stays alone.
PackOnce(blocks, chunks, limit) ==
    LET Shut(acc) == IF acc.buf = <<>> THEN acc
                     ELSE [out |-> Append(acc.out, One(acc.buf)), buf |-> <<>>]
        Take(acc, c) ==
            LET apart == acc.buf # <<>> /\ c.parent # acc.buf[1].parent
                open == IF apart THEN Shut(acc) ELSE acc
                full == /\ open.buf # <<>>
                        /\ SizeOf(blocks, One(Append(open.buf, c)).text) > limit
            IN  IF c.table THEN LET shut == Shut(acc) IN [shut EXCEPT !.out = Append(@, c)]
                ELSE LET next == IF full THEN Shut(open) ELSE open IN
                     [next EXCEPT !.buf = Append(@, c)]
    IN  Shut(FoldLeft(Take, [out |-> <<>>, buf |-> <<>>], chunks)).out

\* Evenly into as many groups as the cap allows, over sections and tables.
ForceCap(chunks) ==
    LET n == Len(chunks) cap == Limits.cap IN
    [g \in 1..cap |-> One(SubSeq(chunks, ((g - 1) * n) \div cap + 1, (g * n) \div cap))]

Rounds == 8

Consolidated(blocks, chunks) ==
    LET Round(acc, r) ==
            LET packed == PackOnce(blocks, acc.chunks, acc.limit) IN
            IF acc.fits THEN acc
            ELSE [chunks |-> packed, fits |-> Len(packed) <= Limits.cap,
                  limit |-> LargerOf(acc.limit + 1, (acc.limit * 7) \div 4)]
        end == FoldLeft(Round, [chunks |-> chunks, fits |-> FALSE, limit |-> Limits.maxChunk],
                        [r \in 1..Rounds |-> r])
    IN  IF end.fits \/ ~Limits.forceCap THEN end.chunks ELSE ForceCap(end.chunks)

\* _reindex
Reindexed(chunks, sections) ==
    [Empty EXCEPT !.chunks = chunks,
                  !.parents = [p \in 1..sections |-> [id |-> p, of |-> Children(chunks, p)]]]

Finished(blocks, acc) ==
    LET chunks == FlushBuffer(acc).chunks IN
    Reindexed(IF NeedsConsolidate(blocks, chunks) THEN Consolidated(blocks, chunks) ELSE chunks,
              acc.sections)
=============================================================================

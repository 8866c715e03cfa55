---------------------------- MODULE Retrieval ----------------------------
(***************************************************************************)
(* What a question gets to read: the ranking of a document's chunks        *)
(* (retrieval/service.py, retrieval/rrf.py, models.rerank) and the packing *)
(* of the ranked passages into a prompt (context/assembler.py).            *)
(*                                                                         *)
(* A chunk is its position in the document.  Text is a value that can be   *)
(* equal or alike to another, and has a size in tokens; RRF scores are     *)
(* parts per million.  Positions are compared as numbers; the code         *)
(* compares them as strings, which is the same up to ten chunks.           *)
(***************************************************************************)
EXTENDS Integers, FiniteSets, Sequences, SequencesExt, FiniteSetsExt

CONSTANTS
  NChunks,    \* number of chunks of the document
  TextOf,     \* text of every chunk, NoText for an empty one
  NoText,
  SizeOf,     \* tokens of every text
  Alike,      \* pairs of texts whose word overlap reaches CONTEXT_DEDUP_THRESHOLD
  ParentOf,   \* parent section of every chunk
  NoParent,
  SectionOf,  \* place of the chunk's section path in text order, 0: it has none
  TopK,       \* RAG_TOP_K
  RrfK,       \* RAG_RRF_K
  RerankN,    \* RAG_RERANK_N
  ExpandMax,  \* RAG_PARENT_EXPAND_MAX
  Budget      \* tokens of the pack: the tier's budget under RESPONSE_CONTEXT_BUDGET

Chunks == 1..NChunks

Cut(n, s) == SubSeq(s, 1, Min({n, Len(s)}))

PlaceIn(s, x) == CHOOSE i \in DOMAIN s : s[i] = x

(* A stable sort, as Python's. *)
Sorted(s, Less(_, _)) ==
  LET order == SetToSortSeq(DOMAIN s,
                 LAMBDA i, j : \/ Less(s[i], s[j])
                               \/ ~Less(s[j], s[i]) /\ i < j)
  IN [i \in DOMAIN s |-> s[order[i]]]

Ids(passages) == {passages[i].id : i \in DOMAIN passages}

(***************************************************************************)
(* Ranking.                                                                *)
(***************************************************************************)
FusedScore(lists, id) ==
  FoldLeft(LAMBDA sum, l : IF Contains(l, id)
                           THEN sum + 1000000 \div (60 + PlaceIn(l, id))
                           ELSE sum, 0, lists)

(* Reciprocal rank fusion; equal scores stay in the order of discovery. *)
Fused(lists) ==
  LET found == FlattenSeq(lists)
      Better(a, b) == \/ FusedScore(lists, a) > FusedScore(lists, b)
                      \/ /\ FusedScore(lists, a) = FusedScore(lists, b)
                         /\ PlaceIn(found, a) < PlaceIn(found, b)
  IN Cut(RrfK, SetToSortSeq(ToSet(found), Better))

(* What the chunk cache view of the process says of a chunk. *)
Passage(id, score, rank, view) ==
  [id |-> id, score |-> score, rank |-> rank,
   parent |-> IF id \in view THEN ParentOf[id] ELSE NoParent,
   section |-> IF id \in view THEN SectionOf[id] ELSE 0]

(* Mutant: text is taken from the chunk cache only. *)
KnownFromView(dense, sparse, seeds, view) == view

(* The fused chunks whose text the query holds. *)
Known(dense, sparse, seeds, view) ==
  ToSet(dense) \cup ToSet(sparse) \cup ToSet(seeds) \cup view

Candidates(dense, sparse, seeds, view) ==
  LET lists == <<dense, sparse>> \o (IF seeds = <<>> THEN <<>> ELSE <<seeds>>)
      fused == Fused(lists)
      hits == [i \in DOMAIN fused |->
                 Passage(fused[i], FusedScore(lists, fused[i]), i - 1, view)]
  IN SelectSeq(hits, LAMBDA p : p.id \in Known(dense, sparse, seeds, view))

(* models.rerank: positions of the k best texts by the ranking service,    *)
(* filled up in the old order with texts it did not name.  An empty        *)
(* ranking is a service that is off, failing or silent.                    *)
Reranked(texts, ranking, k) ==
  LET named == Cut(k, SelectSeq(ranking, LAMBDA i : i \in DOMAIN texts))
      Fill(got, i) == IF Len(got) < k /\ \A j \in DOMAIN got : texts[got[j]] # texts[i]
                      THEN Append(got, i) ELSE got
  IN IF ranking = <<>> THEN [i \in 1..k |-> i]
     ELSE FoldLeft(Fill, named, [i \in DOMAIN texts |-> i])

TextsOf(passages) == [i \in DOMAIN passages |-> TextOf[passages[i].id]]

(* The reranked texts mapped back to passages: the first passage with that *)
(* text, once.                                                             *)
Ranked(cands, ranking) ==
  LET pool  == Cut(Max({RerankN, TopK}), cands)
      texts == TextsOf(pool)
      order == Reranked(texts, ranking, Min({TopK, Len(pool)}))
      Base(i) == pool[PlaceIn(texts, texts[i])]
      Add(got, n) == LET p == Base(order[n]) IN
                     IF p.id \in Ids(got) THEN got
                     ELSE Append(got, [p EXCEPT !.rank = n - 1])
  IN FoldLeft(Add, <<>>, [n \in DOMAIN order |-> n])

(* One more chunk of every section that was hit. *)
ParentExpand(hits, view) ==
  LET parents == FoldLeft(LAMBDA s, p : IF p.parent = NoParent \/ Contains(s, p.parent)
                                        THEN s ELSE Append(s, p.parent), <<>>, hits)
      Best(pid) == Max({hits[i].score : i \in {j \in DOMAIN hits : hits[j].parent = pid}})
      Add(extra, pid) ==
        LET free == {c \in view : ParentOf[c] = pid} \ (Ids(hits) \cup Ids(extra))
        IN IF Len(extra) >= ExpandMax \/ free = {} THEN extra
           ELSE Append(extra, Passage(Min(free), (85 * Best(pid)) \div 100,
                                      Len(hits) + Len(extra), view))
  IN hits \o FoldLeft(Add, <<>>, parents)

(* Dense results alone, when fusion found nothing: no scores, and the last *)
(* chunk stands for all chunks of the same text.                           *)
DenseOnly(dense, seeds, ranking, view) ==
  LET ids   == FoldLeft(LAMBDA s, id : IF Contains(s, id) THEN s ELSE <<id>> \o s, dense, seeds)
      texts == [i \in DOMAIN ids |-> TextOf[ids[i]]]
      order == Reranked(texts, ranking, Min({TopK, Len(ids)}))
      LastOf(t) == Max({i \in DOMAIN ids : texts[i] = t})
      hits  == [n \in DOMAIN order |-> Passage(ids[LastOf(texts[order[n]])], 0, n - 1, view)]
  IN IF ids = <<>> THEN <<>> ELSE ParentExpand(hits, view)

Search(dense, sparse, seeds, ranking, view, denseAgain) ==
  LET cands == Candidates(dense, sparse, seeds, view)
  IN IF cands = <<>> THEN DenseOnly(denseAgain, seeds, ranking, view)
     ELSE Cut(TopK + ExpandMax, ParentExpand(Ranked(cands, ranking), view))

(***************************************************************************)
(* Packing.                                                                *)
(***************************************************************************)
SameText(p, q) == \/ TextOf[p.id] = TextOf[q.id]
                  \/ {TextOf[p.id], TextOf[q.id]} \in Alike

ByScore(p, q) == \/ p.score > q.score
                 \/ p.score = q.score /\ p.rank < q.rank

ByRank(p, q) == p.rank < q.rank

(* Mutant: a passage is compared with the one kept last only. *)
DedupedLast(passages) ==
  LET Keep(kept, p) == IF kept # <<>> /\ SameText(p, Last(kept))
                       THEN kept ELSE Append(kept, p)
  IN Sorted(FoldLeft(Keep, <<>>, Sorted(passages, ByScore)), ByRank)

Deduped(passages) ==
  LET Keep(kept, p) == IF \E i \in DOMAIN kept : SameText(p, kept[i])
                       THEN kept ELSE Append(kept, p)
  IN Sorted(FoldLeft(Keep, <<>>, Sorted(passages, ByScore)), ByRank)

SumOver(f(_), s) == FoldLeft(LAMBDA sum, x : sum + f(x), 0, s)

(* Passages of one section become one block. *)
Block(members) ==
  LET inOrder == Sorted(members, LAMBDA p, q : \/ p.section < q.section
                                               \/ p.section = q.section /\ p.rank < q.rank)
  IN [ids |-> [i \in DOMAIN inOrder |-> inOrder[i].id],
      score |-> Max({members[i].score : i \in DOMAIN members}),
      rank |-> Min({members[i].rank : i \in DOMAIN members}),
      section |-> inOrder[1].section,
      size |-> SumOver(LAMBDA p : SizeOf[TextOf[p.id]], members),
      cut |-> FALSE]

Merged(passages) ==
  LET Key(p) == IF p.parent = NoParent THEN <<"solo", p.id>> ELSE <<"parent", p.parent>>
      keys == FoldLeft(LAMBDA s, p : IF Contains(s, Key(p)) THEN s ELSE Append(s, Key(p)),
                       <<>>, passages)
  IN [k \in DOMAIN keys |-> Block(SelectSeq(passages, LAMBDA p : Key(p) = keys[k]))]

Overhead == 8     \* reserved per block for its marker and separator
Marker   == 3     \* what they take

Cost(b) == b.size + Overhead

(* Greedy by score; what does not fit is passed over, an oversized first   *)
(* block is cut and stands alone.                                          *)
UnderBudget(blocks) ==
  LET Pick(st, b) ==
        IF st.full THEN st
        ELSE IF st.taken = <<>> /\ Cost(b) > Budget
        THEN [taken |-> <<[b EXCEPT !.size = Min({@, Max({16, Budget})}), !.cut = TRUE]>>,
              used |-> st.used, full |-> TRUE]
        ELSE IF st.used + Cost(b) > Budget THEN st
        ELSE [st EXCEPT !.taken = Append(@, b), !.used = @ + Cost(b)]
  IN FoldLeft(Pick, [taken |-> <<>>, used |-> 0, full |-> FALSE],
              Sorted(blocks, ByScore)).taken

BySection(a, b) ==
  \/ a.section # 0 /\ (b.section = 0 \/ a.section < b.section)
  \/ a.section = b.section /\ a.rank < b.rank

(* ContextAssembler.pack; the citation of a block is its place. *)
Pack(passages) == Sorted(UnderBudget(Merged(Deduped(passages))), BySection)
=============================================================================

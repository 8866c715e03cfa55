---------------------------- MODULE QueryPath ----------------------------
(***************************************************************************)
(* Questions to a document while it is stored, stored again and purged     *)
(* (api/main.py _run_rag_query and _iter_rag_query_sse up to the pack,     *)
(* retrieval/service.py).  A question reads the chunk cache, Chroma and    *)
(* the BM25 index one after the other, each as it is at that moment, and   *)
(* fills the cache and the index where it finds them missing.              *)
(***************************************************************************)
EXTENDS DocumentIndex

CONSTANTS
  Queries,     \* questions that can be under way at once
  MaxQueries,  \* questions asked in all
  Orders,      \* orders of relevance a search can find
  Matches,     \* how many chunks can share a word with a question
  SeedLists,   \* chunks the knowledge graph can point to
  Rankings     \* answers of the ranking service, <<>> for none

VARIABLES
  query,       \* per question: its step, what it found so far and its pack
  arrived      \* questions asked so far

vars == <<indexVars, query, arrived>>

Idle == [pc |-> "idle", view |-> {}, dense |-> {}, index |-> {}, due |-> FALSE,
         pack |-> <<>>]

Init == IndexInit /\ query = [q \in Queries |-> Idle] /\ arrived = 0

Visible == {i \in Chunks : vectors[i] # NoText}

(* What the API process sees of the chunk rows: its cache, or the rows. *)
View == IF cache[Api] = Unknown THEN rows ELSE cache[Api]

Step(q, pc) == query' = [query EXCEPT ![q].pc = pc]

(* The question arrives: doc_cache.get_map warms the cache.  "due" says    *)
(* that the document can be searched and nobody is deleting it.            *)
Arrive(q) ==
  /\ query[q].pc = "idle" /\ arrived < MaxQueries
  /\ arrived' = arrived + 1
  /\ query' = [query EXCEPT ![q] =
       [Idle EXCEPT !.pc = IF cache[Api] = Unknown THEN "keepView" ELSE "dense",
                    !.view = IF cache[Api] = Unknown THEN rows ELSE {},
                    !.due = Visible # {} /\ purge = "idle"]]
  /\ UNCHANGED indexVars

(* The rows that were read are kept, an empty map too. *)
KeepView(q) ==
  /\ query[q].pc = "keepView"
  /\ cache' = [cache EXCEPT ![Api] = query[q].view]
  /\ query' = [query EXCEPT ![q].pc = "dense", ![q].view = {}]
  /\ UNCHANGED <<host, rows, vectors, file, memory, embedded, prefetch, job, builders,
                 purge, attempts, purges, restarts, arrived>>

(* _dense_search: without an embedding of the question it finds nothing. *)
SearchDense(q) ==
  /\ query[q].pc = "dense"
  /\ \/ query' = [query EXCEPT ![q].pc = "sparse", ![q].dense = Visible]
     \/ query' = [query EXCEPT ![q].pc = "sparse", ![q].due = FALSE]
  /\ UNCHANGED <<indexVars, arrived>>

(* load_index: the process's copy, else the file, else it is rebuilt. *)
LoadIndex(q) ==
  /\ query[q].pc = "sparse"
  /\ query' = [query EXCEPT ![q].pc = IF memory[Api] # Unknown THEN "answer"
                                      ELSE IF file # Unknown THEN "keepIndex"
                                      ELSE "rebuild",
                            ![q].index = IF memory[Api] # Unknown THEN memory[Api]
                                         ELSE IF file # Unknown THEN file ELSE {}]
  /\ UNCHANGED <<indexVars, arrived>>

KeepIndex(q) ==
  /\ query[q].pc = "keepIndex"
  /\ memory' = [memory EXCEPT ![Api] = query[q].index]
  /\ Step(q, "answer")
  /\ UNCHANGED <<host, rows, vectors, file, cache, embedded, prefetch, job, builders,
                 purge, attempts, purges, restarts, arrived>>

(* The rebuild is from the chunks the process knows; from none it gives up. *)
Rebuild(q) ==
  /\ query[q].pc = "rebuild"
  /\ cache' = [cache EXCEPT ![Api] = View]
  /\ query' = [query EXCEPT ![q].pc = IF View = {} THEN "answer" ELSE "saveIndex",
                            ![q].index = View]
  /\ UNCHANGED <<host, rows, vectors, file, memory, embedded, prefetch, job, builders,
                 purge, attempts, purges, restarts, arrived>>

SaveIndex(q) ==
  /\ query[q].pc = "saveIndex"
  /\ file' = query[q].index
  /\ memory' = [memory EXCEPT ![Api] = query[q].index]
  /\ Step(q, "answer")
  /\ UNCHANGED <<host, rows, vectors, cache, embedded, prefetch, job, builders, purge,
                 attempts, purges, restarts, arrived>>

Among(order, ids) == SelectSeq(order, LAMBDA i : i \in ids)

(* Fusion, rerank, expansion and packing.  The index ranks the chunks that *)
(* share a word with the question, some of the order's first; text and     *)
(* sections of what it finds come from the chunk cache.                    *)
FindContext(q) ==
  /\ query[q].pc = "answer"
  /\ cache' = [cache EXCEPT ![Api] = View]
  /\ \E near \in Orders, common \in Orders, seeds \in SeedLists, ranking \in Rankings,
        n \in Matches,
        again \in IF query[q].dense = {} THEN BOOLEAN ELSE {FALSE} :
       query' = [query EXCEPT ![q] = [Idle EXCEPT !.pc = "done", !.due = query[q].due,
         !.pack = Pack(Search(Among(near, query[q].dense),
                                 Cut(n, Among(common, query[q].index \cap View)),
                                 Among(seeds, View), ranking, View,
                                 IF again THEN Among(near, Visible) ELSE <<>>))]]
  /\ UNCHANGED <<host, rows, vectors, file, memory, embedded, prefetch, job, builders,
                 purge, attempts, purges, restarts, arrived>>

(* The answer is given, or 404 for an empty pack. *)
Reply(q) ==
  /\ query[q].pc = "done"
  /\ query' = [query EXCEPT ![q] = Idle]
  /\ UNCHANGED <<indexVars, arrived>>

(* A purge that starts makes every open question's answer moot. *)
Purging ==
  /\ PurgeRows
  /\ query' = [q \in Queries |-> [query[q] EXCEPT !.due = FALSE]]
  /\ UNCHANGED arrived

(* A process restarts: what it held, and what it was doing, is gone. *)
Restart(p) ==
  /\ restarts < MaxRestarts
  /\ restarts' = restarts + 1
  /\ memory' = [memory EXCEPT ![p] = Unknown]
  /\ cache' = [cache EXCEPT ![p] = Unknown]
  /\ IF p = host
     THEN /\ prefetch' = [state |-> "none", got |-> NoVector]
          /\ job' = [pc |-> "idle", got |-> NoVector, new |-> NoVector]
          /\ builders' = 0
     ELSE UNCHANGED <<prefetch, job, builders>>
  /\ IF p = Api
     THEN query' = [q \in Queries |-> Idle] /\ purge' = "idle"
     ELSE UNCHANGED <<query, purge>>
  /\ UNCHANGED <<host, rows, vectors, file, embedded, attempts, purges, arrived>>

Next ==
  \/ IndexNext /\ UNCHANGED <<query, arrived>>
  \/ Purging
  \/ \E q \in Queries : \/ Arrive(q) \/ KeepView(q) \/ SearchDense(q) \/ LoadIndex(q)
                        \/ KeepIndex(q) \/ Rebuild(q) \/ SaveIndex(q) \/ FindContext(q)
                        \/ Reply(q)
  \/ \E p \in Procs : Restart(p)

Spec == Init /\ [][Next]_vars

(***************************************************************************)
(* Properties.                                                             *)
(***************************************************************************)

(* Every vector in Chroma is the vector of its own chunk's text, although  *)
(* vectors reach it from the prefetch by chunk number, from the store's    *)
(* own call by place among what is missing, and from the cache by content, *)
(* and empty chunks are in one list and not in the other.                  *)
VectorsMatchText == \A i \in Visible : vectors[i] = TextOf[i]

(* Who asks about a document that can be searched gets context, whatever   *)
(* is stale or missing by then: an empty chunk cache from before the       *)
(* store, an index of another process, a store under way.  Only a question *)
(* that could not be embedded or a purge that began excuses a 404.         *)
Findable == \A q \in Queries :
              query[q].pc = "done" /\ query[q].due => query[q].pack # <<>>

PackedTexts(pack) == [b \in DOMAIN pack |-> [i \in DOMAIN pack[b].ids |-> TextOf[pack[b].ids[i]]]]

(* No two passages of a prompt say the same: chunks of equal text are one  *)
(* passage in the ranking, but the expansion of a section can bring the    *)
(* other one back.                                                         *)
NoTextTwice ==
  \A q \in Queries :
    LET texts == FlattenSeq(PackedTexts(query[q].pack))
    IN \A i, j \in DOMAIN texts :
         i # j => texts[i] # texts[j] /\ {texts[i], texts[j]} \notin Alike

=============================================================================

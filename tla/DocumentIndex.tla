-------------------------- MODULE DocumentIndex --------------------------
(***************************************************************************)
(* The stores a document is searched in, and their writers: chunk rows in  *)
(* the database, vectors in Chroma, the BM25 file, and in every process a  *)
(* copy of the BM25 index and of the chunk rows (memory/storage.py,        *)
(* retrieval/doc_cache.py, retrieval/bm25.py, perf/prefetch.py,            *)
(* memory/embedding_cache.py).  One document; its chunks are those of      *)
(* Retrieval and the same in every attempt at its job.                     *)
(*                                                                         *)
(* The pipeline embeds in the background and stores at its end; the BM25   *)
(* index is built by a thread after that; a purge deletes everything.      *)
(* None of them waits for another, and each step below is one call to one  *)
(* store.  A vector is written as the text it was computed from.           *)
(***************************************************************************)
EXTENDS Retrieval, InOrder

CONSTANTS
  Procs,        \* the processes: the API and the worker
  Api,          \* the one that answers questions and purges
  Elsewhere,    \* sets of texts that other documents may have embedded before
  MaxAttempts,  \* attempts at the job
  MaxPurges,
  MaxRestarts,
  Unknown       \* nothing held, nothing there

ASSUME IndexAssumption == NChunks \in Nat /\ DOMAIN TextOf = Chunks

VARIABLES
  host,      \* process that runs the job: the worker, or the API
  rows,      \* committed chunk rows
  vectors,   \* per chunk, the text its vector was computed from
  file,      \* chunks of the BM25 file
  memory,    \* per process, chunks of the BM25 index it holds
  cache,     \* per process, chunk rows it holds
  embedded,  \* texts in the embedding cache
  prefetch,  \* the background embedding: its state and its vectors
  job,       \* the attempt: its step and the vectors it was handed
  builders,  \* BM25 threads under way
  purge,     \* next step of the purge
  attempts, purges, restarts

indexVars == <<host, rows, vectors, file, memory, cache, embedded, prefetch, job,
               builders, purge, attempts, purges, restarts>>

NoVector == [i \in Chunks |-> NoText]

IndexInit ==
  /\ host \in Procs
  /\ rows = {} /\ vectors = NoVector /\ file = Unknown
  /\ memory = [p \in Procs |-> Unknown]
  /\ cache = [p \in Procs |-> Unknown]
  /\ embedded \in Elsewhere
  /\ prefetch = [state |-> "none", got |-> NoVector]
  /\ job = [pc |-> "idle", got |-> NoVector, new |-> NoVector]
  /\ builders = 0 /\ purge = "idle"
  /\ attempts = 0 /\ purges = 0 /\ restarts = 0

(***************************************************************************)
(* Embedding.                                                              *)
(***************************************************************************)

(* embed_texts: cached vectors in their places, the fresh ones, which the  *)
(* service returned in the order of the misses, in the others.             *)
EmbedTexts(texts) ==
  LET misses == {i \in DOMAIN texts : texts[i] \notin embedded}
      sent   == InOrder(misses)
      fresh  == [k \in DOMAIN sent |-> texts[sent[k]]]
  IN [i \in DOMAIN texts |-> IF i \in misses THEN fresh[Cardinality(UpTo(misses, i))]
                             ELSE texts[i]]

(* start_embed_prefetch: one at a time; a finished one is replaced. *)
StartPrefetch ==
  /\ job.pc = "running" /\ prefetch.state # "running"
  /\ prefetch' = [state |-> "running", got |-> NoVector]
  /\ UNCHANGED <<host, rows, vectors, file, memory, cache, embedded, job, builders,
                 purge, attempts, purges, restarts>>

(* The background call returns: vectors of all chunks, empty ones too, or  *)
(* none at all.                                                            *)
PrefetchEnds ==
  /\ prefetch.state = "running"
  /\ \/ /\ prefetch' = [state |-> "done", got |-> EmbedTexts(TextOf)]
        /\ embedded' = embedded \cup ToSet(TextOf)
     \/ /\ prefetch' = [state |-> "done", got |-> NoVector]
        /\ UNCHANGED embedded
  /\ UNCHANGED <<host, rows, vectors, file, memory, cache, job, builders, purge,
                 attempts, purges, restarts>>

(***************************************************************************)
(* The attempt at the job.                                                 *)
(***************************************************************************)
StartAttempt ==
  /\ job.pc = "idle" /\ attempts < MaxAttempts
  /\ attempts' = attempts + 1
  /\ job' = [pc |-> "running", got |-> NoVector, new |-> NoVector]
  /\ UNCHANGED <<host, rows, vectors, file, memory, cache, embedded, prefetch, builders,
                 purge, purges, restarts>>

(* The attempt ends before it stores; the prefetch goes on. *)
AttemptFails ==
  /\ job.pc = "running"
  /\ job' = [job EXCEPT !.pc = "idle"]
  /\ UNCHANGED <<host, rows, vectors, file, memory, cache, embedded, prefetch, builders,
                 purge, attempts, purges, restarts>>

(* get_embed_prefetch: the vectors, or nothing if there is no prefetch or  *)
(* it is not done in time.                                                 *)
TakePrefetch ==
  /\ job.pc = "running"
  /\ job' = [job EXCEPT !.pc = "invalidate",
                        !.got = IF prefetch.state = "done" THEN prefetch.got ELSE NoVector]
  /\ prefetch' = [state |-> "none", got |-> NoVector]
  /\ UNCHANGED <<host, rows, vectors, file, memory, cache, embedded, builders, purge,
                 attempts, purges, restarts>>

(* store_chunks drops what its own process holds of the document. *)
Invalidate ==
  /\ job.pc = "invalidate"
  /\ cache' = [cache EXCEPT ![host] = Unknown]
  /\ memory' = [memory EXCEPT ![host] = Unknown]
  /\ job' = [job EXCEPT !.pc = "embed"]
  /\ UNCHANGED <<host, rows, vectors, file, embedded, prefetch, builders, purge,
                 attempts, purges, restarts>>

(* The chunks that are stored, in their order. *)
Normalized == InOrder({i \in Chunks : TextOf[i] # NoText})

(* Mutant: prefetched vectors are read by place among the stored chunks. *)
PrecomputedByPlace(pos) == job.got[pos]

(* The prefetched vector of the chunk at a place of Normalized. *)
Precomputed(pos) == job.got[Normalized[pos]]

(* What is missing is embedded in one call, which may fail; then those     *)
(* chunks have no vector.                                                  *)
Embed ==
  LET missing == InOrder({pos \in DOMAIN Normalized : Precomputed(pos) = NoText})
      texts   == [k \in DOMAIN missing |-> TextOf[Normalized[missing[k]]]]
      Vector(ok, i) == LET pos == PlaceIn(Normalized, i) IN
                       IF Precomputed(pos) # NoText THEN Precomputed(pos)
                       ELSE IF ok THEN EmbedTexts(texts)[PlaceIn(missing, pos)]
                       ELSE NoText
  IN /\ job.pc = "embed"
     /\ \E ok \in BOOLEAN :
          /\ job' = [job EXCEPT !.pc = "upsert", !.got = NoVector,
                       !.new = [i \in Chunks |-> IF TextOf[i] = NoText THEN NoText
                                                 ELSE Vector(ok, i)]]
          /\ embedded' = IF ok THEN embedded \cup ToSet(texts) ELSE embedded
     /\ UNCHANGED <<host, rows, vectors, file, memory, cache, prefetch, builders, purge,
                    attempts, purges, restarts>>

(* Chroma upserts first, the commit of the rows after. *)
Upsert ==
  /\ job.pc = "upsert"
  /\ vectors' = [i \in Chunks |-> IF job.new[i] # NoText THEN job.new[i] ELSE vectors[i]]
  /\ job' = [job EXCEPT !.pc = "commit", !.new = NoVector]
  /\ UNCHANGED <<host, rows, file, memory, cache, embedded, prefetch, builders, purge,
                 attempts, purges, restarts>>

Commit ==
  /\ job.pc = "commit"
  /\ rows' = rows \cup ToSet(Normalized)
  /\ builders' = builders + 1
  /\ job' = [job EXCEPT !.pc = "stored"]
  /\ UNCHANGED <<host, vectors, file, memory, cache, embedded, prefetch, purge,
                 attempts, purges, restarts>>

(* A store that raises is logged, and the job goes on as if it had stored. *)
StoreFails ==
  /\ job.pc \in {"upsert", "commit"}
  /\ job' = [job EXCEPT !.pc = "stored", !.new = NoVector]
  /\ UNCHANGED <<host, rows, vectors, file, memory, cache, embedded, prefetch, builders,
                 purge, attempts, purges, restarts>>

(* The job completes, or a later failure makes it run again. *)
AttemptEnds ==
  /\ job.pc = "stored"
  /\ job' = [job EXCEPT !.pc = "idle"]
  /\ UNCHANGED <<host, rows, vectors, file, memory, cache, embedded, prefetch, builders,
                 purge, attempts, purges, restarts>>

(* The BM25 thread: file and memory of its process under one lock. *)
BuildIndex ==
  /\ builders > 0
  /\ builders' = builders - 1
  /\ file' = ToSet(Normalized)
  /\ memory' = [memory EXCEPT ![host] = ToSet(Normalized)]
  /\ UNCHANGED <<host, rows, vectors, cache, embedded, prefetch, job, purge, attempts,
                 purges, restarts>>

(***************************************************************************)
(* The purge, in the API process (storage.delete_chunks).                  *)
(***************************************************************************)
PurgeRows ==
  /\ purge = "idle" /\ purges < MaxPurges
  /\ purges' = purges + 1
  /\ rows' = {} /\ purge' = "vectors"
  /\ UNCHANGED <<host, vectors, file, memory, cache, embedded, prefetch, job, builders,
                 attempts, restarts>>

(* A failure here leaves the sidecars as they are. *)
PurgeVectors ==
  /\ purge = "vectors"
  /\ \/ vectors' = NoVector /\ purge' = "index"
     \/ purge' = "idle" /\ UNCHANGED vectors
  /\ UNCHANGED <<host, rows, file, memory, cache, embedded, prefetch, job, builders,
                 attempts, purges, restarts>>

(* delete_index: this process's copy first, then the file. *)
PurgeIndex ==
  /\ purge \in {"index", "again"}
  /\ memory' = [memory EXCEPT ![Api] = Unknown]
  /\ purge' = IF purge = "index" THEN "file" ELSE "fileAgain"
  /\ UNCHANGED <<host, rows, vectors, file, cache, embedded, prefetch, job, builders,
                 attempts, purges, restarts>>

PurgeFile ==
  /\ purge \in {"file", "fileAgain"}
  /\ file' = Unknown
  /\ purge' = IF purge = "file" THEN "cache" ELSE "idle"
  /\ UNCHANGED <<host, rows, vectors, memory, cache, embedded, prefetch, job, builders,
                 attempts, purges, restarts>>

(* invalidate_document deletes the index once more. *)
PurgeCache ==
  /\ purge = "cache"
  /\ cache' = [cache EXCEPT ![Api] = Unknown]
  /\ purge' = "again"
  /\ UNCHANGED <<host, rows, vectors, file, memory, embedded, prefetch, job, builders,
                 attempts, purges, restarts>>

IndexNext ==
  \/ StartAttempt \/ StartPrefetch \/ PrefetchEnds \/ AttemptFails \/ TakePrefetch
  \/ Invalidate \/ Embed \/ Upsert \/ Commit \/ StoreFails \/ AttemptEnds \/ BuildIndex
  \/ PurgeVectors \/ PurgeIndex \/ PurgeFile \/ PurgeCache
=============================================================================

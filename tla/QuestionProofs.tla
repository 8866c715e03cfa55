--------------------------- MODULE QuestionProofs ---------------------------
(***************************************************************************)
(* Proofs about the way of a question: the stores it is answered from        *)
(* (DocumentIndex, QueryPath), for any document and any number of processes, *)
(* attempts, purges and restarts; and the chat that shows its answer         *)
(* (AnswerStream, ChatPage), for any chain of models, any buffer and any     *)
(* number of documents and requests.                                         *)
(***************************************************************************)
EXTENDS QueryPath, ChatPage, FiniteSetTheorems, TLAPS

-----------------------------------------------------------------------------
(* Positions in order *)

\* Of two members of a set the greater one has the higher place.
LEMMA PlacesGrow ==
    ASSUME NEW n \in Nat, NEW S \in SUBSET (1..n), NEW i \in S, NEW j \in S, i < j
    PROVE  Cardinality(UpTo(S, i)) < Cardinality(UpTo(S, j))
<1>0. \A x \in S : x \in Int
      OBVIOUS
<1>1. IsFiniteSet(UpTo(S, j))
  <2>1. UpTo(S, j) \in SUBSET (1..n)
        BY DEF UpTo
  <2>2. IsFiniteSet(1..n)
        BY FS_Interval
  <2> QED BY <2>1, <2>2, FS_Subset
<1>2. UpTo(S, i) \in SUBSET UpTo(S, j)
  <2>1. ASSUME NEW x \in S, x <= i PROVE x <= j
        BY <1>0, <2>1
  <2> QED BY <2>1 DEF UpTo
<1>3. j \in UpTo(S, j) /\ j \notin UpTo(S, i)
      BY <1>0 DEF UpTo
<1>4. /\ IsFiniteSet(UpTo(S, i))
      /\ Cardinality(UpTo(S, i)) <= Cardinality(UpTo(S, j))
      /\ Cardinality(UpTo(S, j)) = Cardinality(UpTo(S, i)) => UpTo(S, j) = UpTo(S, i)
      BY <1>1, <1>2, FS_Subset
<1>5. Cardinality(UpTo(S, i)) \in Nat /\ Cardinality(UpTo(S, j)) \in Nat
      BY <1>1, <1>4, FS_CardinalityType
<1> QED BY <1>3, <1>4, <1>5

\* Every member is found at its place, and nothing but members is found.
LEMMA InOrderFinds ==
    ASSUME NEW n \in Nat, NEW S \in SUBSET (1..n), NEW i \in S
    PROVE  /\ Cardinality(UpTo(S, i)) \in DOMAIN InOrder(S)
           /\ InOrder(S)[Cardinality(UpTo(S, i))] = i
<1> DEFINE place(x) == Cardinality(UpTo(S, x))
<1>1. IsFiniteSet(S) /\ \A x \in S : x \in Int
  <2>1. IsFiniteSet(1..n)
        BY FS_Interval
  <2>2. IsFiniteSet(S)
        BY <2>1, FS_Subset
  <2> QED BY <2>2
<1>2. UpTo(S, i) \in SUBSET S /\ i \in UpTo(S, i)
      BY DEF UpTo
<1>3. IsFiniteSet(UpTo(S, i)) /\ place(i) <= Cardinality(S)
      BY <1>1, <1>2, FS_Subset
<1>4. place(i) \in Nat /\ place(i) # 0 /\ Cardinality(S) \in Nat
      BY <1>1, <1>2, <1>3, FS_CardinalityType, FS_EmptySet
<1>5. place(i) \in 1..Cardinality(S)
      BY <1>3, <1>4
<1>6. ASSUME NEW j \in S, place(j) = place(i) PROVE j = i
  <2>1. place(i) \in Int /\ i \in Int /\ j \in Int
        BY <1>1, <1>4
  <2>2. ~(j < i)
    <3>1. j < i => place(j) < place(i)
          BY PlacesGrow
    <3> QED BY <1>6, <2>1, <3>1
  <2>3. ~(i < j)
    <3>1. i < j => place(i) < place(j)
          BY PlacesGrow
    <3> QED BY <1>6, <2>1, <3>1
  <2> QED BY <2>1, <2>2, <2>3
<1>7. (CHOOSE x \in S : place(x) = place(i)) = i
      BY <1>6
<1> QED BY <1>5, <1>7 DEF InOrder

\* Where nothing is left out the order is that of the positions themselves.
LEMMA InOrderOfAll ==
    ASSUME NEW n \in Nat
    PROVE  InOrder(1..n) = [k \in 1..n |-> k]
<1>1. Cardinality(1..n) = n
      BY FS_Interval
<1>2. ASSUME NEW k \in 1..n PROVE InOrder(1..n)[k] = k
  <2>1. UpTo(1..n, k) = 1..k
        BY DEF UpTo
  <2>2. Cardinality(UpTo(1..n, k)) = k
        BY <2>1, FS_Interval
  <2> QED BY <2>2, InOrderFinds
<1>3. InOrder(1..n) = [k \in 1..n |-> InOrder(1..n)[k]]
      BY <1>1 DEF InOrder
<1> QED BY <1>2, <1>3

-----------------------------------------------------------------------------
(* The vectors of a document *)

\* A vector is missing, or it was computed from the text of its own chunk.
OwnVectors == {v \in [Chunks -> {NoText} \cup {TextOf[i] : i \in Chunks}] :
                 \A i \in Chunks : v[i] \in {NoText, TextOf[i]}}

PrefetchStates == {"none", "running", "done"}
JobSteps == {"idle", "running", "invalidate", "embed", "upsert", "commit", "stored"}

\* Wherever a vector is on its way to Chroma, it is at the place of its own chunk.
VectorsKept ==
    /\ vectors \in OwnVectors
    /\ prefetch \in [state : PrefetchStates, got : OwnVectors]
    /\ job \in [pc : JobSteps, got : OwnVectors, new : OwnVectors]

\* The enumeration of some positions has as many places as there are positions.
LEMMA InOrderDomain ==
    ASSUME NEW n \in Nat, NEW S \in SUBSET (1..n)
    PROVE  \E m \in Nat : DOMAIN InOrder(S) = 1..m
<1>1. IsFiniteSet(1..n)
      BY FS_Interval
<1>2. IsFiniteSet(S)
      BY <1>1, FS_Subset
<1>3. Cardinality(S) \in Nat
      BY <1>2, FS_CardinalityType
<1> QED BY <1>3 DEF InOrder

\* embed_texts gives every text its own vector back, whatever part of them was cached.
LEMMA EmbedTextsInPlace ==
    ASSUME NEW n \in Nat, NEW texts, DOMAIN texts = 1..n, NEW i \in 1..n
    PROVE  EmbedTexts(texts)[i] = texts[i]
<1> DEFINE misses == {k \in DOMAIN texts : texts[k] \notin embedded}
           sent == InOrder(misses)
           at == Cardinality(UpTo(misses, i))
<1>1. misses \in SUBSET (1..n)
      OBVIOUS
<1>2. CASE i \in misses
  <2>1. at \in DOMAIN sent /\ sent[at] = i
        BY <1>1, <1>2, InOrderFinds
  <2>2. [k \in DOMAIN sent |-> texts[sent[k]]][at] = texts[i]
        BY <2>1
  <2> QED BY <1>2, <2>2 DEF EmbedTexts
<1>3. CASE i \notin misses
      BY <1>3 DEF EmbedTexts
<1> QED BY <1>2, <1>3

\* Every chunk with a text has its place among those that are stored.
LEMMA NormalizedFinds ==
    ASSUME NEW i \in Chunks, TextOf[i] # NoText
    PROVE  PlaceIn(Normalized, i) \in DOMAIN Normalized /\ Normalized[PlaceIn(Normalized, i)] = i
<1> DEFINE stored == {k \in Chunks : TextOf[k] # NoText}
<1>1. stored \in SUBSET (1..NChunks) /\ i \in stored
      BY DEF Chunks
<1>2. \E pos \in DOMAIN Normalized : Normalized[pos] = i
      BY <1>1, IndexAssumption, InOrderFinds DEF Normalized
<1> QED BY <1>2 DEF PlaceIn

\* What Embed hands on for a chunk is its own text's vector: the prefetched one is read
\* by the number of the chunk, the fresh one by its place among the missing.
LEMMA EmbedInPlace ==
    ASSUME VectorsKept, Embed
    PROVE  job'.new \in OwnVectors
<1> DEFINE gone == {pos \in DOMAIN Normalized : Precomputed(pos) = NoText}
           missing == InOrder(gone)
           texts == [k \in DOMAIN missing |-> TextOf[Normalized[missing[k]]]]
           Vector(ok, i) == LET pos == PlaceIn(Normalized, i) IN
                            IF Precomputed(pos) # NoText THEN Precomputed(pos)
                            ELSE IF ok THEN EmbedTexts(texts)[PlaceIn(missing, pos)]
                            ELSE NoText
<1>1. PICK m \in Nat : DOMAIN Normalized = 1..m
  <2>1. {k \in Chunks : TextOf[k] # NoText} \in SUBSET (1..NChunks)
        BY DEF Chunks
  <2> QED BY <2>1, IndexAssumption, InOrderDomain DEF Normalized
<1>2. gone \in SUBSET (1..m)
      BY <1>1
<1>3. PICK l \in Nat : DOMAIN missing = 1..l
      BY <1>2, InOrderDomain
<1>4. DOMAIN texts = 1..l
      BY <1>3
<1>5. ASSUME NEW ok \in BOOLEAN, NEW i \in Chunks, TextOf[i] # NoText
      PROVE  Vector(ok, i) \in {NoText, TextOf[i]}
  <2> DEFINE pos == PlaceIn(Normalized, i)
             at == PlaceIn(missing, pos)
  <2>1. pos \in 1..m /\ Normalized[pos] = i
        BY <1>1, <1>5, NormalizedFinds
  <2>2. Precomputed(pos) \in {NoText, TextOf[i]}
        BY <2>1 DEF Precomputed, VectorsKept, OwnVectors
  <2>3. CASE Precomputed(pos) # NoText
        BY <2>2, <2>3
  <2>4. CASE Precomputed(pos) = NoText /\ ok
    <3>1. pos \in gone
          BY <1>1, <2>1, <2>4
    <3>2. \E k \in DOMAIN missing : missing[k] = pos
          BY <1>2, <3>1, InOrderFinds
    <3>3. at \in 1..l /\ missing[at] = pos
          BY <1>3, <3>2 DEF PlaceIn
    <3>4. EmbedTexts(texts)[at] = texts[at]
          BY <1>4, <3>3, EmbedTextsInPlace
    <3>5. texts[at] = TextOf[i]
          BY <1>3, <2>1, <3>3
    <3> QED BY <2>4, <3>4, <3>5
  <2>5. CASE Precomputed(pos) = NoText /\ ~ok
        BY <2>5
  <2> QED BY <2>3, <2>4, <2>5
<1>6. PICK ok \in BOOLEAN :
        job' = [job EXCEPT !.pc = "upsert", !.got = NoVector,
                  !.new = [i \in Chunks |-> IF TextOf[i] = NoText THEN NoText
                                            ELSE Vector(ok, i)]]
      BY DEF Embed
<1>7. job'.new = [i \in Chunks |-> IF TextOf[i] = NoText THEN NoText ELSE Vector(ok, i)]
      BY <1>6 DEF VectorsKept
<1> HIDE DEF Vector
<1>8. \A i \in Chunks : job'.new[i] \in {NoText, TextOf[i]}
      BY <1>5, <1>7
<1> QED BY <1>7, <1>8 DEF OwnVectors

LEMMA NoVectorOwn == NoVector \in OwnVectors
BY DEF NoVector, OwnVectors

\* A step that sends nothing to Chroma and gives no vector away.
VectorsAlone == UNCHANGED <<vectors, prefetch, job>>

LEMMA AloneKeeps == VectorsKept /\ VectorsAlone => VectorsKept'
BY DEF VectorsKept, VectorsAlone, OwnVectors

\* The background embedding and the attempt hand vectors on as they are.
LEMMA AttemptKeeps ==
    ASSUME VectorsKept,
           \/ StartAttempt \/ StartPrefetch \/ PrefetchEnds \/ AttemptFails \/ TakePrefetch
           \/ Invalidate \/ Commit \/ StoreFails \/ AttemptEnds
    PROVE  VectorsKept'
<1> USE NoVectorOwn DEF JobSteps, PrefetchStates
<1>1. CASE StartAttempt
      BY <1>1 DEF StartAttempt, VectorsKept
<1>2. CASE StartPrefetch
      BY <1>2 DEF StartPrefetch, VectorsKept
<1>3. CASE PrefetchEnds
  <2>1. EmbedTexts(TextOf) \in OwnVectors
    <3>1. \A i \in Chunks : EmbedTexts(TextOf)[i] = TextOf[i]
          BY IndexAssumption, EmbedTextsInPlace DEF Chunks
    <3>2. EmbedTexts(TextOf) = [i \in Chunks |-> EmbedTexts(TextOf)[i]]
          BY IndexAssumption DEF EmbedTexts
    <3> QED BY <3>1, <3>2 DEF OwnVectors
  <2> QED BY <1>3, <2>1 DEF PrefetchEnds, VectorsKept
<1>4. CASE AttemptFails
      BY <1>4 DEF AttemptFails, VectorsKept
<1>5. CASE TakePrefetch
      BY <1>5 DEF TakePrefetch, VectorsKept
<1>6. CASE Invalidate
      BY <1>6 DEF Invalidate, VectorsKept
<1>7. CASE Commit
      BY <1>7 DEF Commit, VectorsKept
<1>8. CASE StoreFails
      BY <1>8 DEF StoreFails, VectorsKept
<1>9. CASE AttemptEnds
      BY <1>9 DEF AttemptEnds, VectorsKept
<1> QED BY <1>1, <1>2, <1>3, <1>4, <1>5, <1>6, <1>7, <1>8, <1>9

LEMMA EmbedKeeps == VectorsKept /\ Embed => VectorsKept'
<1> SUFFICES ASSUME VectorsKept, Embed PROVE VectorsKept'
    OBVIOUS
<1>1. job'.new \in OwnVectors
      BY EmbedInPlace
<1>2. PICK v : job' = [job EXCEPT !.pc = "upsert", !.got = NoVector, !.new = v]
      BY DEF Embed
<1>3. job' \in [pc : JobSteps, got : OwnVectors, new : OwnVectors]
      BY <1>1, <1>2, NoVectorOwn DEF VectorsKept, JobSteps
<1> QED BY <1>3 DEF Embed, VectorsKept

\* The upsert overwrites what it has, and keeps the vector of a chunk it has none for.
LEMMA UpsertKeeps == VectorsKept /\ Upsert => VectorsKept'
<1> SUFFICES ASSUME VectorsKept, Upsert PROVE VectorsKept'
    OBVIOUS
<1>1. vectors' \in OwnVectors
      BY DEF Upsert, VectorsKept, OwnVectors
<1>2. job' \in [pc : JobSteps, got : OwnVectors, new : OwnVectors]
      BY NoVectorOwn DEF Upsert, VectorsKept, JobSteps
<1> QED BY <1>1, <1>2 DEF Upsert, VectorsKept

LEMMA IndexStepKeeps == VectorsKept /\ IndexNext => VectorsKept'
<1> SUFFICES ASSUME VectorsKept, IndexNext PROVE VectorsKept'
    OBVIOUS
<1>1. CASE BuildIndex \/ PurgeIndex \/ PurgeFile \/ PurgeCache
      BY <1>1, AloneKeeps DEF BuildIndex, PurgeIndex, PurgeFile, PurgeCache, VectorsAlone
<1>2. CASE PurgeVectors
      BY <1>2, NoVectorOwn DEF PurgeVectors, VectorsKept
<1> QED BY <1>1, <1>2, AttemptKeeps, EmbedKeeps, UpsertKeeps DEF IndexNext

\* A question reads; a purge of the rows and a restart of the other process touch no vector.
LEMMA QuestionStepKeeps == VectorsKept /\ Next => VectorsKept'
<1> SUFFICES ASSUME VectorsKept, Next PROVE VectorsKept'
    OBVIOUS
<1>1. CASE IndexNext
      BY <1>1, IndexStepKeeps
<1>2. CASE Purging
      BY <1>2, AloneKeeps DEF Purging, PurgeRows, VectorsAlone
<1>3. ASSUME NEW q \in Queries,
             \/ Arrive(q) \/ KeepView(q) \/ SearchDense(q) \/ LoadIndex(q) \/ KeepIndex(q)
             \/ Rebuild(q) \/ SaveIndex(q) \/ FindContext(q) \/ Reply(q)
      PROVE  VectorsAlone
      BY <1>3 DEF Arrive, KeepView, SearchDense, LoadIndex, KeepIndex, Rebuild, SaveIndex,
                  FindContext, Reply, VectorsAlone, indexVars
<1>4. ASSUME NEW p \in Procs, Restart(p)
      PROVE  VectorsKept'
  <2>1. CASE p = host
        BY <1>4, <2>1, NoVectorOwn DEF Restart, VectorsKept, JobSteps, PrefetchStates
  <2>2. CASE p # host
        BY <1>4, <2>2, AloneKeeps DEF Restart, VectorsAlone
  <2> QED BY <2>1, <2>2
<1> QED BY <1>1, <1>2, <1>3, <1>4, AloneKeeps DEF Next

\* Every vector on its way to Chroma, handed over by the prefetch, picked from the cache
\* or fresh from the service, is the one of its own chunk's text, and so is every vector
\* that Chroma holds (memory/storage.py store_chunks, agents/models.py embed_texts).
THEOREM VectorsOwnText == Spec => []VectorsMatchText
<1>1. Init => VectorsKept
      BY NoVectorOwn DEF Init, IndexInit, VectorsKept, JobSteps, PrefetchStates
<1>2. VectorsKept /\ [Next]_vars => VectorsKept'
  <2>1. VectorsKept /\ UNCHANGED vars => VectorsKept'
        BY AloneKeeps DEF vars, indexVars, VectorsAlone
  <2> QED BY <2>1, QuestionStepKeeps
<1>3. VectorsKept => VectorsMatchText
      BY DEF VectorsKept, OwnVectors, VectorsMatchText, Visible
<1> QED BY <1>1, <1>2, <1>3, PTL DEF Spec

-----------------------------------------------------------------------------
(* The chat: what is said for a request *)

Tokens == Requests \X Nat
Steps == {"off", "called", "search", "stream", "closing", "closed", "blocking"}
Kinds == {"open", "refused", "token", "done", "error", "end", "answer"}
Events == [kind : Kinds, text : Seq(Tokens)]
ServerStates == [pc : Steps, model : Nat, try : Nat, call : Nat, sent : Seq(Tokens),
                 whole : BOOLEAN]
TaskStates == [pc : {"none", "fetch", "read", "fallback", "ended"}, assembled : Seq(Tokens),
               pending : Seq(Tokens), timer : BOOLEAN, painted : BOOLEAN, aborted : BOOLEAN]
Messages == [role : {"user", "assistant"}, id : Requests, text : Seq(Tokens),
             streaming : BOOLEAN]

ServerTypeOK == server \in [Requests -> ServerStates] /\ channel \in [Requests -> Seq(Events)]

PageTypeOK ==
    /\ doc \in Docs /\ loading \in BOOLEAN /\ current \in Requests \cup {0} /\ moves \in Nat
    /\ messages \in Seq(Messages)
    /\ asked \in [Requests -> [doc : Docs, q : Requests \cup {0}]]
    /\ task \in [Requests -> TaskStates]
    /\ storage \in [Docs -> Seq(Messages)]

\* The tokens the server sent for a request in state s, and a text that has no other.
Said(s) == {s.sent[k] : k \in DOMAIN s.sent}
Speaks(s, text) == \A k \in DOMAIN text : text[k] \in Said(s)

\* What an event tells is true of its request: an answer has a text, and nothing was
\* said for a request that was refused.
EventTrue(s, e) ==
    /\ Speaks(s, e.text)
    /\ e.kind \in {"done", "answer"} => e.text # <<>>
    /\ e.kind = "refused" => s.sent = <<>> /\ s.pc \in {"closed", "blocking"}

\* One call speaks for a request, whose events are c.
Voice(r, s, c) ==
    /\ \A t \in Said(s) : t[1] = r
    /\ \A t, u \in Said(s) : t = u
    /\ s.pc = "stream" => \A t \in Said(s) : t = <<r, s.call>>
    /\ s.pc \in {"off", "called", "search", "blocking"} => s.sent = <<>>
    /\ \A k \in DOMAIN c : EventTrue(s, c[k])

LEMMA SpeaksOn ==
    ASSUME NEW s, NEW z, Said(s) \subseteq Said(z), NEW text, Speaks(s, text)
    PROVE  Speaks(z, text)
BY DEF Speaks

LEMMA SpeaksBoth ==
    ASSUME NEW s, NEW a \in Seq(Tokens), NEW b \in Seq(Tokens), Speaks(s, a), Speaks(s, b)
    PROVE  a \o b \in Seq(Tokens) /\ Speaks(s, a \o b)
<1>1. a \o b \in Seq(Tokens) /\ Len(a \o b) = Len(a) + Len(b)
      OBVIOUS
<1>2. ASSUME NEW k \in DOMAIN (a \o b) PROVE (a \o b)[k] \in Said(s)
  <2>1. k \in 1..(Len(a) + Len(b))
        BY <1>1
  <2>2. CASE k <= Len(a)
        BY <2>1, <2>2 DEF Speaks
  <2>3. CASE k > Len(a)
    <3>1. k - Len(a) \in DOMAIN b /\ (a \o b)[k] = b[k - Len(a)]
          BY <2>1, <2>3
    <3> QED BY <3>1 DEF Speaks
  <2> QED BY <2>1, <2>2, <2>3
<1> QED BY <1>1, <1>2 DEF Speaks

\* What was true of a request before something is said for it stays true, if the request
\* was not refused.
LEMMA EventStays ==
    ASSUME NEW s, NEW z, NEW e, EventTrue(s, e), Said(s) \subseteq Said(z),
           \/ s.pc \notin {"closed", "blocking"}
           \/ z.sent = s.sent /\ z.pc \in {"closed", "blocking"}
    PROVE  EventTrue(z, e)
BY SpeaksOn DEF EventTrue

LEMMA EventsAppended ==
    ASSUME NEW s, NEW c \in Seq(Events), NEW e \in Events,
           \A k \in DOMAIN c : EventTrue(s, c[k]), EventTrue(s, e)
    PROVE  Append(c, e) \in Seq(Events) /\ \A k \in DOMAIN Append(c, e) : EventTrue(s, Append(c, e)[k])
<1>1. Append(c, e) \in Seq(Events) /\ Len(Append(c, e)) = Len(c) + 1
      OBVIOUS
<1>2. ASSUME NEW k \in 1..(Len(c) + 1) PROVE EventTrue(s, Append(c, e)[k])
  <2>1. CASE k <= Len(c)
        BY <2>1
  <2>2. CASE k = Len(c) + 1
        BY <2>2
  <2> QED BY <2>1, <2>2
<1> QED BY <1>1, <1>2

\* A step of the server changes its request alone, and takes nothing back.
ServedOnly(r) ==
    /\ \A s \in Requests \ {r} : server'[s] = server[s] /\ channel'[s] = channel[s]
    /\ Said(server[r]) \subseteq Said(server'[r])

\* An event is sent, and the text of the request stays as it is.
LEMMA SendStep ==
    ASSUME ServerTypeOK, NEW r \in Requests, Voice(r, server[r], channel[r]),
           NEW e \in Events, NEW pc \in {"search", "closing", "closed"}, Send(r, e, pc),
           server[r].pc \in {"called", "search", "stream"},
           Speaks(server[r], e.text), e.kind # "answer", e.kind = "done" => e.text # <<>>,
           e.kind = "refused" => server[r].sent = <<>> /\ pc = "closed",
           pc = "search" => server[r].sent = <<>>
    PROVE  ServerTypeOK' /\ Voice(r, server'[r], channel'[r]) /\ ServedOnly(r)
<1> DEFINE s == server[r]
           z == [s EXCEPT !.pc = pc, !.whole = (e.kind = "done")]
<1>1. s \in ServerStates /\ channel[r] \in Seq(Events)
      BY DEF ServerTypeOK
<1>2. z \in ServerStates /\ z.pc = pc /\ z.sent = s.sent
      BY <1>1 DEF ServerStates, Steps
<1>3. server' = [server EXCEPT ![r] = z]
      BY DEF Send, ServerTypeOK
<1>4. server'[r] = z /\ channel'[r] = Append(channel[r], e)
      BY <1>3 DEF Send, ServerTypeOK
<1> HIDE DEF s, z
<1>5. Said(s) = Said(z)
      BY <1>2 DEF Said
<1>6. EventTrue(z, e)
      BY <1>2, <1>5 DEF EventTrue, Speaks, s
<1>7. \A k \in DOMAIN channel[r] : EventTrue(z, channel[r][k])
      BY <1>5, EventStays DEF Voice, s
<1>8. /\ Append(channel[r], e) \in Seq(Events)
      /\ \A k \in DOMAIN Append(channel[r], e) : EventTrue(z, Append(channel[r], e)[k])
      BY <1>1, <1>6, <1>7, EventsAppended
<1>9. Voice(r, z, Append(channel[r], e))
      BY <1>2, <1>5, <1>8 DEF Voice, s
<1>10. ServerTypeOK'
       BY <1>2, <1>3, <1>8 DEF ServerTypeOK, Send
<1>11. ServedOnly(r)
       BY <1>3, <1>4, <1>5 DEF ServedOnly, ServerTypeOK, Send, s
<1> QED BY <1>4, <1>9, <1>10, <1>11

LEMMA EndEvent == Event("end", <<>>) \in Events /\ Event("error", <<>>) \in Events
                  /\ Event("open", <<>>) \in Events /\ Event("refused", <<>>) \in Events
BY DEF Event, Events, Kinds

LEMMA NothingSpeaks == \A s : Speaks(s, <<>>)
BY DEF Speaks

\* The server's record of a request changes to z: no new event, or one that is true of z.
LEMMA RecordStep ==
    ASSUME ServerTypeOK, NEW r \in Requests, Voice(r, server[r], channel[r]),
           NEW z \in ServerStates, server' = [server EXCEPT ![r] = z],
           server[r].pc \notin {"closed", "blocking"},
           Said(server[r]) \subseteq Said(z),
           \A t, u \in Said(z) : t = u /\ t[1] = r,
           z.pc = "stream" => \A t \in Said(z) : t = <<r, z.call>>,
           z.pc \in {"off", "called", "search", "blocking"} => z.sent = <<>>,
           \/ channel' = channel
           \/ \E e \in Events : EventTrue(z, e) /\ channel' = [channel EXCEPT ![r] = Append(@, e)]
    PROVE  ServerTypeOK' /\ Voice(r, server'[r], channel'[r]) /\ ServedOnly(r)
<1>1. server'[r] = z /\ server' \in [Requests -> ServerStates]
      BY DEF ServerTypeOK
<1>2. \A k \in DOMAIN channel[r] : EventTrue(z, channel[r][k])
      BY EventStays DEF Voice
<1>3. /\ channel' \in [Requests -> Seq(Events)]
      /\ \A s \in Requests \ {r} : channel'[s] = channel[s]
      /\ \A k \in DOMAIN channel'[r] : EventTrue(z, channel'[r][k])
  <2>1. CASE channel' = channel
        BY <1>2, <2>1 DEF ServerTypeOK
  <2>2. ASSUME NEW e \in Events, EventTrue(z, e),
               channel' = [channel EXCEPT ![r] = Append(@, e)]
        PROVE  <1>3!1 /\ <1>3!2 /\ <1>3!3
    <3>1. channel[r] \in Seq(Events) /\ channel'[r] = Append(channel[r], e)
          BY <2>2 DEF ServerTypeOK
    <3>2. /\ Append(channel[r], e) \in Seq(Events)
          /\ \A k \in DOMAIN Append(channel[r], e) : EventTrue(z, Append(channel[r], e)[k])
          BY <1>2, <2>2, <3>1, EventsAppended
    <3> QED BY <2>2, <3>1, <3>2 DEF ServerTypeOK
  <2> QED BY <2>1, <2>2
<1>4. Voice(r, z, channel'[r])
      BY <1>3 DEF Voice
<1> QED BY <1>1, <1>3, <1>4 DEF ServerTypeOK, ServedOnly

\* Whatever the handlers of a request do, one call speaks for it.
LEMMA ServeStep ==
    ASSUME ServerTypeOK, NEW r \in Requests, Voice(r, server[r], channel[r]), Serve(r)
    PROVE  /\ server[r].pc # "off"
           /\ ServerTypeOK' /\ Voice(r, server'[r], channel'[r]) /\ ServedOnly(r)
<1> DEFINE s == server[r]
<1>0. s \in ServerStates /\ channel[r] \in Seq(Events)
      BY DEF ServerTypeOK
<1>a. s.sent = <<>> => Said(s) = {}
      BY DEF Said
<1>1. CASE Accept(r)
      BY <1>1, EndEvent, NothingSpeaks, SendStep DEF Accept, Voice, Event
<1>2. CASE NoContext(r)
      BY <1>2, EndEvent, NothingSpeaks, SendStep DEF NoContext, Event
<1>3. CASE StartModel(r)
  <2> DEFINE z == [s EXCEPT !.pc = "stream", !.model = 1, !.try = 1, !.call = 1]
  <2>0. s.sent = <<>>
        BY <1>3 DEF StartModel, Voice
  <2>a. z \in ServerStates /\ z.pc = "stream" /\ z.sent = s.sent
        BY <1>0 DEF ServerStates, Steps
  <2>1. z \in ServerStates /\ z.pc = "stream" /\ z.sent = <<>> /\ Said(z) = {}
        BY <2>0, <2>a DEF Said
  <2>2. server' = [server EXCEPT ![r] = z] /\ channel' = channel /\ s.pc = "search"
        BY <1>3 DEF StartModel, ServerTypeOK
  <2> HIDE DEF z
  <2>3. Said(s) = {}
        BY <1>a, <2>2 DEF Voice
  <2> QED BY <2>1, <2>2, <2>3, RecordStep
<1>4. CASE Token(r)
  <2> DEFINE t == <<r, s.call>>
             z == [s EXCEPT !.sent = Append(@, t)]
             e == Event("token", <<t>>)
  <2>1. t \in Tokens /\ t[1] = r
        BY <1>0 DEF Tokens, ServerStates
  <2>a. Append(s.sent, t) \in Seq(Tokens)
        BY <1>0, <2>1 DEF ServerStates
  <2>2. /\ z \in ServerStates /\ z.pc = "stream" /\ z.call = s.call
        /\ z.sent = Append(s.sent, t)
    <3>1. s.pc = "stream"
          BY <1>4 DEF Token
    <3> HIDE DEF t
    <3> QED BY <1>0, <2>a, <3>1 DEF ServerStates
  <2>3. Said(z) = Said(s) \cup {t}
    <3>1. s.sent \in Seq(Tokens)
          BY <1>0 DEF ServerStates
    <3>2. /\ DOMAIN z.sent = 1..(Len(s.sent) + 1)
          /\ \A k \in DOMAIN s.sent : z.sent[k] = s.sent[k]
          /\ z.sent[Len(s.sent) + 1] = t
          BY <2>1, <2>2, <3>1
    <3> QED BY <3>1, <3>2 DEF Said
  <2>4. /\ server' = [server EXCEPT ![r] = z] /\ s.pc = "stream"
        /\ channel' = [channel EXCEPT ![r] = Append(@, e)]
        BY <1>4 DEF Token, ServerTypeOK
  <2>5. \A x \in Said(z) : x = t
        BY <2>3, <2>4 DEF Voice
  <2>6. e \in Events /\ EventTrue(z, e)
    <3>1. e.text = <<t>> /\ e.kind = "token" /\ e \in Events
          BY <2>1 DEF Event, Events, Kinds
    <3>2. Speaks(z, <<t>>)
      <4> HIDE DEF t
      <4> QED BY <2>3 DEF Speaks
    <3> QED BY <3>1, <3>2 DEF EventTrue
  <2> HIDE DEF z, e, t
  <2>7. /\ \A x, y \in Said(z) : x = y /\ x[1] = r
        /\ \A x \in Said(z) : x = <<r, z.call>>
        BY <2>1, <2>2, <2>5 DEF t
  <2> QED BY <2>2, <2>3, <2>4, <2>6, <2>7, RecordStep
<1>5. CASE CallFails(r)
  <2>1. CASE Send(r, Event("error", <<>>), "closing")
        BY <1>5, <2>1, EndEvent, NothingSpeaks, SendStep DEF CallFails, Event
  <2>2. ASSUME s.sent = <<>>, NEW m \in Nat, NEW n \in Nat,
               server' = [server EXCEPT ![r].model = m, ![r].try = n, ![r].call = @ + 1],
               channel' = channel
        PROVE  ServerTypeOK' /\ Voice(r, server'[r], channel'[r]) /\ ServedOnly(r)
    <3> DEFINE z == [s EXCEPT !.model = m, !.try = n, !.call = @ + 1]
    <3>b. s.call + 1 \in Nat
          BY <1>0 DEF ServerStates
    <3>a. z \in ServerStates /\ z.pc = s.pc /\ z.sent = s.sent
          BY <1>0, <3>b DEF ServerStates
    <3>1. z \in ServerStates /\ z.pc = s.pc /\ z.sent = <<>> /\ Said(z) = {}
          BY <2>2, <3>a DEF Said
    <3>2. server' = [server EXCEPT ![r] = z] /\ s.pc = "stream"
          BY <1>5, <2>2 DEF CallFails, ServerTypeOK
    <3> HIDE DEF z
    <3> QED BY <1>a, <2>2, <3>1, <3>2, RecordStep
  <2>3. s.model \in Nat /\ s.try \in Nat /\ s.model + 1 \in Nat /\ s.try + 1 \in Nat
        BY <1>0 DEF ServerStates
  <2>4. ASSUME Replaceable(r), server' = [server EXCEPT ![r].try = @ + 1, ![r].call = @ + 1],
               UNCHANGED channel
        PROVE  ServerTypeOK' /\ Voice(r, server'[r], channel'[r]) /\ ServedOnly(r)
    <3>1. [s EXCEPT !.try = @ + 1, !.call = @ + 1]
            = [s EXCEPT !.model = s.model, !.try = s.try + 1, !.call = @ + 1]
          BY <1>0 DEF ServerStates
    <3>2. server' = [server EXCEPT ![r].model = s.model, ![r].try = s.try + 1, ![r].call = @ + 1]
          BY <2>4, <3>1 DEF ServerTypeOK
    <3>3. s.sent = <<>> /\ channel' = channel
          BY <2>4 DEF Replaceable
    <3> QED BY <2>2, <2>3, <3>2, <3>3
  <2>5. ASSUME Replaceable(r),
               server' = [server EXCEPT ![r].model = @ + 1, ![r].try = 1, ![r].call = @ + 1],
               UNCHANGED channel
        PROVE  ServerTypeOK' /\ Voice(r, server'[r], channel'[r]) /\ ServedOnly(r)
    <3>1. s.sent = <<>> /\ channel' = channel
          BY <2>5 DEF Replaceable
    <3>2. server' = [server EXCEPT ![r].model = s.model + 1, ![r].try = 1, ![r].call = @ + 1]
          BY <2>5
    <3> QED BY <2>2, <2>3, <3>1, <3>2
  <2>6. s.pc = "stream"
        BY <1>5 DEF CallFails
  <2> QED BY <1>5, <2>1, <2>4, <2>5, <2>6 DEF CallFails
<1>6. CASE CallCompletes(r)
  <2>1. Event("done", s.sent) \in Events /\ Speaks(s, s.sent)
        BY <1>0 DEF Event, Events, Kinds, ServerStates, Speaks, Said
  <2> QED BY <1>6, <2>1, EndEvent, NothingSpeaks, SendStep DEF CallCompletes, Event
<1>7. CASE Close(r)
  <2> DEFINE z == [s EXCEPT !.pc = "closed", !.model = 0, !.try = 0, !.call = 0]
  <2>1. z \in ServerStates /\ z.pc = "closed" /\ Said(z) = Said(s)
        BY <1>0 DEF ServerStates, Steps, Said
  <2>2. /\ server' = [server EXCEPT ![r] = z] /\ s.pc = "closing"
        /\ channel' = [channel EXCEPT ![r] = Append(@, Event("end", <<>>))]
        BY <1>7 DEF Close, ServerTypeOK
  <2>3. EventTrue(z, Event("end", <<>>))
        BY NothingSpeaks DEF EventTrue, Event
  <2> HIDE DEF z
  <2>4. \A t, u \in Said(z) : t = u /\ t[1] = r
        BY <2>1 DEF Voice
  <2> QED BY <2>1, <2>2, <2>3, <2>4, EndEvent, RecordStep
<1>8. CASE ReplyBlocking(r) \/ RefuseBlocking(r)
  <2>1. PICK z \in ServerStates, e \in Events :
          /\ server' = [server EXCEPT ![r] = z] /\ channel' = [channel EXCEPT ![r] = <<e>>]
          /\ z.pc = "closed" /\ EventTrue(z, e)
          /\ \A t \in Said(z) : t = <<r, 1>>
    <3>1. CASE ReplyBlocking(r)
      <4> DEFINE text == <<<<r, 1>>>>
                 z == [s EXCEPT !.pc = "closed", !.sent = text, !.whole = TRUE]
                 e == Event("answer", text)
      <4>1. text \in Seq(Tokens) /\ text # <<>>
            BY DEF Tokens
      <4>2. z \in ServerStates /\ z.pc = "closed" /\ z.sent = text
            BY <1>0, <4>1 DEF ServerStates, Steps
      <4>3. e \in Events /\ e.text = text /\ e.kind = "answer"
            BY <4>1 DEF Event, Events, Kinds
      <4>4. /\ server' = [server EXCEPT ![r] = z]
            /\ channel' = [channel EXCEPT ![r] = <<e>>]
            BY <3>1 DEF ReplyBlocking, ServerTypeOK
      <4>5. Said(z) = {<<r, 1>>} /\ Speaks(z, text)
            BY <4>2 DEF Said, Speaks
      <4> HIDE DEF z, e, text
      <4> QED BY <4>1, <4>2, <4>3, <4>4, <4>5 DEF EventTrue
    <3>2. CASE RefuseBlocking(r)
      <4> DEFINE z == [s EXCEPT !.pc = "closed", !.model = 0, !.try = 0, !.call = 0]
      <4>1. z \in ServerStates /\ z.pc = "closed" /\ z.sent = s.sent
            BY <1>0 DEF ServerStates, Steps
      <4>2. /\ server' = [server EXCEPT ![r] = z] /\ s.pc = "blocking"
            /\ channel' = [channel EXCEPT ![r] = <<Event("refused", <<>>)>>]
            BY <3>2 DEF RefuseBlocking, ServerTypeOK
      <4> HIDE DEF z
      <4>3. z.sent = <<>> /\ Said(z) = {}
            BY <4>1, <4>2 DEF Voice, Said
      <4>4. EventTrue(z, Event("refused", <<>>))
            BY <4>1, <4>3, NothingSpeaks DEF EventTrue, Event
      <4> QED BY <4>1, <4>2, <4>3, <4>4, EndEvent
    <3> QED BY <1>8, <3>1, <3>2
  <2>2. server'[r] = z /\ channel'[r] = <<e>> /\ ServerTypeOK'
        BY <2>1 DEF ServerTypeOK
  <2>3. /\ \A t, u \in Said(z) : t = u
        /\ \A t \in Said(z) : t[1] = r
        BY <2>1
  <2>4. Voice(r, z, <<e>>)
        BY <2>1, <2>3 DEF Voice
  <2>5. s.pc = "blocking" /\ Said(s) = {}
        BY <1>8, <1>a DEF ReplyBlocking, RefuseBlocking, Voice
  <2>6. ServedOnly(r)
        BY <2>1, <2>5 DEF ServedOnly, ServerTypeOK
  <2> QED BY <2>2, <2>4, <2>5, <2>6
<1> QED BY <1>1, <1>2, <1>3, <1>4, <1>5, <1>6, <1>7, <1>8
        DEF Serve, Accept, NoContext, StartModel, Token, CallFails, CallCompletes, Close

-----------------------------------------------------------------------------
(* The chat: what the page shows *)

\* What the painter of a request holds is its own, and of a request that was not made
\* nobody has heard.
Heard(t, s, c, a) ==
    /\ Speaks(s, t.assembled) /\ Speaks(s, t.pending)
    /\ t.pc = "none" => s.pc = "off" /\ c = <<>> /\ a.q = 0 /\ ~t.timer

\* A message is of a request that was made; it says what its request was told, or a
\* notice, and it is not left empty.
Fits(m, s, t) ==
    /\ t.pc # "none"
    /\ m.role = "user" => m.text = Notice(m.id)
    /\ m.role = "assistant" => m.text = Notice(m.id) \/ Speaks(s, m.text)
    /\ m.streaming \/ m.text # <<>>

\* An answer stands behind the question it is asked for, in the chat of its document.
InPlace(ms, d, ask) ==
    \A i \in DOMAIN ms :
        /\ ask[ms[i].id].doc = d
        /\ ms[i].role = "assistant" /\ ask[ms[i].id].q # 0 =>
             i > 1 /\ ms[i - 1].role = "user" /\ ms[i - 1].id = ask[ms[i].id].q

GoodIn(ms, d, srv, tsk, ask) ==
    (\A i \in DOMAIN ms : Fits(ms[i], srv[ms[i].id], tsk[ms[i].id])) /\ InPlace(ms, d, ask)

\* All that is shown and kept, and all that is said and heard.
ShownGood == GoodIn(messages, doc, server, task, asked)
KeptGood == \A d \in Docs : GoodIn(storage[d], d, server, task, asked)
SaidGood == \A r \in Requests : Voice(r, server[r], channel[r])
HeardGood == \A r \in Requests : Heard(task[r], server[r], channel[r], asked[r])

ChatInv == ServerTypeOK /\ PageTypeOK /\ SaidGood /\ HeardGood /\ ShownGood /\ KeptGood

\* No step takes back what was said, or forgets a request or what it is about.
Onward ==
    /\ \A r \in Requests : Said(server[r]) \subseteq Said(server'[r])
    /\ \A r \in Requests : task[r].pc # "none" => task'[r].pc # "none" /\ asked'[r] = asked[r]

LEMMA GoodStays ==
    ASSUME NEW ms \in Seq(Messages), NEW d, GoodIn(ms, d, server, task, asked), Onward
    PROVE  GoodIn(ms, d, server', task', asked')
<1>1. ASSUME NEW i \in DOMAIN ms
      PROVE  /\ Fits(ms[i], server'[ms[i].id], task'[ms[i].id])
             /\ asked'[ms[i].id] = asked[ms[i].id]
  <2> DEFINE m == ms[i]
  <2>1. m.id \in Requests
    <3>1. m \in Messages
          OBVIOUS
    <3> QED BY <3>1 DEF Messages
  <2>2. Fits(m, server[m.id], task[m.id])
        BY DEF GoodIn
  <2>3. /\ Said(server[m.id]) \subseteq Said(server'[m.id])
        /\ task'[m.id].pc # "none" /\ asked'[m.id] = asked[m.id]
        BY <2>1, <2>2 DEF Onward, Fits
  <2>4. Speaks(server[m.id], m.text) => Speaks(server'[m.id], m.text)
        BY <2>3, SpeaksOn
  <2> QED BY <2>2, <2>3, <2>4 DEF Fits
<1>2. InPlace(ms, d, asked')
      BY <1>1 DEF GoodIn, InPlace
<1> QED BY <1>1, <1>2 DEF GoodIn

\* What is saved when no message streams is all of them.
LEMMA PersistedAll ==
    ASSUME NEW ms \in Seq(Messages), NEW on, Saved(ms, on),
           \A i \in DOMAIN ms : ms[i].streaming \/ ms[i].text # <<>>
    PROVE  Persisted(ms) = ms
<1> DEFINE keep == InOrder({i \in DOMAIN ms : Worth(ms[i])})
<1>1. Len(ms) \in Nat /\ DOMAIN ms = 1..Len(ms)
      OBVIOUS
<1>2. {i \in DOMAIN ms : Worth(ms[i])} = 1..Len(ms)
      BY <1>1 DEF Saved, Worth
<1>3. keep = [k \in 1..Len(ms) |-> k]
      BY <1>1, <1>2, InOrderOfAll
<1>4. Persisted(ms) = [k \in DOMAIN keep |-> ms[keep[k]]]
      BY DEF Persisted
<1>5. Persisted(ms) = [k \in 1..Len(ms) |-> ms[k]]
      BY <1>3, <1>4
<1> QED BY <1>1, <1>5

\* A new state of the page that is good leaves a good copy of it.
LEMMA PageStep ==
    ASSUME PageTypeOK, KeptGood, Onward, NEW ms \in Seq(Messages), NEW on \in BOOLEAN,
           Page(ms, on), doc' = doc, GoodIn(ms, doc, server', task', asked')
    PROVE  /\ messages' \in Seq(Messages) /\ loading' \in BOOLEAN
           /\ storage' \in [Docs -> Seq(Messages)]
           /\ ShownGood' /\ KeptGood'
<1>1. messages' = ms /\ loading' = on
      BY DEF Page
<1>2. storage' \in [Docs -> Seq(Messages)]
      /\ \A d \in Docs : storage'[d] = storage[d] \/ (d = doc /\ storage'[d] = ms)
  <2>1. CASE Saved(ms, on)
    <3>1. \A i \in DOMAIN ms : ms[i].streaming \/ ms[i].text # <<>>
          BY DEF GoodIn, Fits
    <3>2. Persisted(ms) = ms
          BY <2>1, <3>1, PersistedAll
    <3> QED BY <2>1, <3>2 DEF Page, PageTypeOK
  <2>2. CASE ~Saved(ms, on)
        BY <2>2 DEF Page, PageTypeOK
  <2> QED BY <2>1, <2>2
<1>3. ASSUME NEW d \in Docs PROVE GoodIn(storage'[d], d, server', task', asked')
  <2>1. CASE storage'[d] = storage[d]
    <3>1. storage[d] \in Seq(Messages) /\ GoodIn(storage[d], d, server, task, asked)
          BY DEF PageTypeOK, KeptGood
    <3> QED BY <2>1, <3>1, GoodStays
  <2>2. CASE d = doc /\ storage'[d] = ms
        BY <2>2
  <2> QED BY <1>2, <2>1, <2>2
<1> QED BY <1>1, <1>2, <1>3 DEF ShownGood, KeptGood

\* A request writes into its own message a notice or what it was told.
LEMMA OnGood ==
    ASSUME PageTypeOK, ShownGood, Onward, NEW r \in Requests, NEW text \in Seq(Tokens),
           NEW on \in BOOLEAN, text = Notice(r) \/ Speaks(server'[r], text), on \/ text # <<>>
    PROVE  /\ On(messages, r, text, on) \in Seq(Messages)
           /\ GoodIn(On(messages, r, text, on), doc, server', task', asked')
<1> DEFINE ms == On(messages, r, text, on)
<1>1. messages \in Seq(Messages) /\ GoodIn(messages, doc, server', task', asked')
      BY GoodStays DEF PageTypeOK, ShownGood
<1>2. DOMAIN ms = DOMAIN messages
      BY DEF On
<1>3. ASSUME NEW i \in DOMAIN messages
      PROVE  /\ ms[i] \in Messages /\ ms[i].id = messages[i].id /\ ms[i].role = messages[i].role
             /\ Fits(ms[i], server'[ms[i].id], task'[ms[i].id])
  <2>1. messages[i] \in Messages /\ Fits(messages[i], server'[messages[i].id], task'[messages[i].id])
        BY <1>1 DEF GoodIn
  <2>2. CASE messages[i].role = "assistant" /\ messages[i].id = r
    <3>1. ms[i] = [messages[i] EXCEPT !.text = text, !.streaming = on]
          BY <2>2 DEF On
    <3>2. /\ ms[i] \in Messages /\ ms[i].id = r /\ ms[i].role = "assistant"
          /\ ms[i].text = text /\ ms[i].streaming = on
          BY <2>1, <2>2, <3>1 DEF Messages
    <3> QED BY <2>1, <2>2, <3>2 DEF Fits
  <2>3. CASE ~(messages[i].role = "assistant" /\ messages[i].id = r)
        BY <2>1, <2>3 DEF On
  <2> QED BY <2>2, <2>3
<1>4. ms \in Seq(Messages)
  <2>1. DOMAIN messages = 1..Len(messages) /\ Len(messages) \in Nat
        BY <1>1
  <2>2. ms = [i \in 1..Len(messages) |-> ms[i]]
        BY <2>1 DEF On
  <2> HIDE DEF ms
  <2> QED BY <1>3, <2>1, <2>2
<1>5. InPlace(ms, doc, asked')
  <2>1. ASSUME NEW i \in DOMAIN messages, i > 1 PROVE i - 1 \in DOMAIN messages
        BY <1>1, <2>1
  <2> HIDE DEF ms
  <2> QED BY <1>1, <1>2, <1>3, <2>1 DEF GoodIn, InPlace
<1>6. \A i \in DOMAIN ms : Fits(ms[i], server'[ms[i].id], task'[ms[i].id])
      BY <1>2, <1>3
<1> QED BY <1>4, <1>5, <1>6 DEF GoodIn

\* The page stays as it is, or a request writes into its own message.
WritesOn(r) ==
    \/ UNCHANGED <<messages, loading, storage>>
    \/ \E text \in Seq(Tokens), on \in BOOLEAN, b \in BOOLEAN :
         /\ text = Notice(r) \/ Speaks(server'[r], text)
         /\ on \/ text # <<>>
         /\ Page(On(messages, r, text, on), b)
    \/ \E b \in BOOLEAN : Page(messages, b)

LEMMA WriteStep ==
    ASSUME PageTypeOK, ShownGood, KeptGood, Onward, NEW r \in Requests, WritesOn(r), doc' = doc
    PROVE  /\ messages' \in Seq(Messages) /\ loading' \in BOOLEAN
           /\ storage' \in [Docs -> Seq(Messages)]
           /\ ShownGood' /\ KeptGood'
<1>1. CASE UNCHANGED <<messages, loading, storage>>
  <2>1. GoodIn(messages, doc, server', task', asked')
        BY GoodStays DEF PageTypeOK, ShownGood
  <2>2. ASSUME NEW d \in Docs PROVE GoodIn(storage[d], d, server', task', asked')
        BY GoodStays DEF PageTypeOK, KeptGood
  <2> QED BY <1>1, <2>1, <2>2 DEF PageTypeOK, ShownGood, KeptGood
<1>2. ASSUME NEW text \in Seq(Tokens), NEW on \in BOOLEAN, NEW b \in BOOLEAN,
             text = Notice(r) \/ Speaks(server'[r], text), on \/ text # <<>>,
             Page(On(messages, r, text, on), b)
      PROVE  /\ messages' \in Seq(Messages) /\ loading' \in BOOLEAN
             /\ storage' \in [Docs -> Seq(Messages)]
             /\ ShownGood' /\ KeptGood'
  <2>1. /\ On(messages, r, text, on) \in Seq(Messages)
        /\ GoodIn(On(messages, r, text, on), doc, server', task', asked')
        BY <1>2, OnGood
  <2> QED BY <1>2, <2>1, PageStep
<1>3. ASSUME NEW b \in BOOLEAN, Page(messages, b)
      PROVE  /\ messages' \in Seq(Messages) /\ loading' \in BOOLEAN
             /\ storage' \in [Docs -> Seq(Messages)]
             /\ ShownGood' /\ KeptGood'
  <2>1. messages \in Seq(Messages) /\ GoodIn(messages, doc, server', task', asked')
        BY GoodStays DEF PageTypeOK, ShownGood
  <2> QED BY <1>3, <2>1, PageStep
<1> QED BY <1>1, <1>2, <1>3 DEF WritesOn

\* A step of one request: its server's side, its task and its message.
LEMMA TaskStep ==
    ASSUME ChatInv, NEW r \in Requests, NEW t \in TaskStates,
           ServerTypeOK', Voice(r, server'[r], channel'[r]), ServedOnly(r),
           TaskTo(t, r), t.pc # "none",
           Speaks(server'[r], t.assembled), Speaks(server'[r], t.pending),
           WritesOn(r), Hold
    PROVE  ChatInv'
<1>1. /\ task' \in [Requests -> TaskStates] /\ task'[r] = t
      /\ \A x \in Requests \ {r} : task'[x] = task[x]
      BY DEF ChatInv, PageTypeOK, TaskTo
<1>2. Onward
      BY <1>1 DEF Onward, Hold, ServedOnly
<1>3. SaidGood'
      BY DEF ChatInv, SaidGood, ServedOnly
<1>4. HeardGood'
  <2>1. ASSUME NEW x \in Requests \ {r} PROVE Heard(task'[x], server'[x], channel'[x], asked'[x])
        BY <1>1 DEF ChatInv, HeardGood, ServedOnly, Hold
  <2>2. Heard(task'[r], server'[r], channel'[r], asked'[r])
        BY <1>1 DEF Heard
  <2> QED BY <2>1, <2>2 DEF HeardGood
<1>5. /\ messages' \in Seq(Messages) /\ loading' \in BOOLEAN
      /\ storage' \in [Docs -> Seq(Messages)]
      /\ ShownGood' /\ KeptGood'
      BY <1>2, WriteStep DEF ChatInv, Hold
<1>6. PageTypeOK'
      BY <1>1, <1>5 DEF ChatInv, PageTypeOK, Hold
<1> QED BY <1>3, <1>4, <1>5, <1>6 DEF ChatInv

\* A step of the server.
LEMMA ServerStep ==
    ASSUME ChatInv, NEW r \in Requests, Server(r)
    PROVE  ChatInv'
<1>1. /\ server[r].pc # "off"
      /\ ServerTypeOK' /\ Voice(r, server'[r], channel'[r]) /\ ServedOnly(r)
      BY ServeStep DEF ChatInv, SaidGood, Server
<1>2. UNCHANGED pageVars
      BY DEF Server
<1>3. Onward
      BY <1>1, <1>2 DEF Onward, ServedOnly, pageVars
<1>4. SaidGood'
      BY <1>1 DEF ChatInv, SaidGood, ServedOnly
<1>5. HeardGood'
  <2>1. ASSUME NEW x \in Requests \ {r} PROVE Heard(task'[x], server'[x], channel'[x], asked'[x])
        BY <1>1, <1>2 DEF ChatInv, HeardGood, ServedOnly, pageVars
  <2>2. Heard(task[r], server'[r], channel'[r], asked[r])
    <3>1. Heard(task[r], server[r], channel[r], asked[r])
          BY DEF ChatInv, HeardGood
    <3>2. \A text : Speaks(server[r], text) => Speaks(server'[r], text)
          BY <1>1, SpeaksOn DEF ServedOnly
    <3> QED BY <1>1, <3>1, <3>2 DEF Heard
  <2> QED BY <1>2, <2>1, <2>2 DEF HeardGood, pageVars
<1>6. /\ messages' \in Seq(Messages) /\ loading' \in BOOLEAN
      /\ storage' \in [Docs -> Seq(Messages)]
      /\ ShownGood' /\ KeptGood'
  <2>1. WritesOn(r) /\ doc' = doc
        BY <1>2 DEF WritesOn, pageVars
  <2> QED BY <1>3, <2>1, WriteStep DEF ChatInv
<1>7. PageTypeOK'
      BY <1>2, <1>6 DEF ChatInv, PageTypeOK, pageVars
<1> QED BY <1>1, <1>4, <1>5, <1>6, <1>7 DEF ChatInv

-----------------------------------------------------------------------------
(* The chat: the steps of the client *)

\* The side of the server when a connection closes: nothing more is said.
LEMMA ClosedVoice ==
    ASSUME NEW r \in Requests, NEW s \in ServerStates, NEW c \in Seq(Events), Voice(r, s, c)
    PROVE  /\ Closed(s) \in ServerStates /\ Said(Closed(s)) = Said(s)
           /\ Voice(r, Closed(s), <<>>)
<1>1. /\ Closed(s) \in ServerStates /\ Closed(s).pc = "closed" /\ Closed(s).sent = s.sent
      BY DEF Closed, ServerStates, Steps
<1>2. Said(Closed(s)) = Said(s)
      BY <1>1 DEF Said
<1>3. Voice(r, Closed(s), <<>>)
      BY <1>1, <1>2 DEF Voice
<1> QED BY <1>1, <1>2, <1>3

LEMMA DropStep ==
    ASSUME ServerTypeOK, SaidGood, NEW r \in Requests, Drop(r)
    PROVE  ServerTypeOK' /\ Voice(r, server'[r], channel'[r]) /\ ServedOnly(r)
<1> DEFINE z == Closed(server[r])
<1>1. z \in ServerStates /\ Said(z) = Said(server[r]) /\ Voice(r, z, <<>>)
      BY ClosedVoice DEF ServerTypeOK, SaidGood
<1>2. server' = [server EXCEPT ![r] = z] /\ channel' = [channel EXCEPT ![r] = <<>>]
      BY DEF Drop
<1> HIDE DEF z
<1>3. server'[r] = z /\ channel'[r] = <<>> /\ ServerTypeOK'
      BY <1>1, <1>2 DEF ServerTypeOK
<1> QED BY <1>1, <1>2, <1>3 DEF ServedOnly, ServerTypeOK

\* An event is read: it is true, and the ones behind it stay.  A stream that was refused
\* is asked for again, without anything said yet.
LEMMA ReadStep ==
    ASSUME ServerTypeOK, SaidGood, NEW r \in Requests, channel[r] # <<>>, Consume(r),
           \/ UNCHANGED server
           \/ channel[r][1].kind = "refused" /\ server' = [server EXCEPT ![r].pc = "blocking"]
    PROVE  /\ ServerTypeOK' /\ Voice(r, server'[r], channel'[r]) /\ ServedOnly(r)
           /\ channel[r][1] \in Events /\ EventTrue(server[r], channel[r][1])
           /\ Said(server'[r]) = Said(server[r])
<1> DEFINE s == server[r]
           c == channel[r]
           z == [s EXCEPT !.pc = "blocking"]
<1>1. s \in ServerStates /\ c \in Seq(Events) /\ Voice(r, s, c)
      BY DEF ServerTypeOK, SaidGood
<1>2. /\ Len(c) > 0 /\ Len(c) \in Nat /\ 1 \in DOMAIN c
      /\ Tail(c) \in Seq(Events) /\ Len(Tail(c)) = Len(c) - 1
      /\ \A k \in DOMAIN Tail(c) : k + 1 \in DOMAIN c /\ Tail(c)[k] = c[k + 1]
      BY <1>1
<1>3. c[1] \in Events /\ EventTrue(s, c[1])
      BY <1>1, <1>2 DEF Voice
<1>4. channel'[r] = Tail(c) /\ channel' \in [Requests -> Seq(Events)]
      /\ \A x \in Requests \ {r} : channel'[x] = channel[x]
      BY <1>2 DEF Consume, ServerTypeOK
<1>5. \A k \in DOMAIN Tail(c) : EventTrue(s, Tail(c)[k])
      BY <1>1, <1>2 DEF Voice
<1>6. CASE UNCHANGED server
  <2>1. Voice(r, s, Tail(c))
        BY <1>1, <1>5 DEF Voice
  <2> QED BY <1>3, <1>4, <1>6, <2>1 DEF ServerTypeOK, ServedOnly
<1>7. CASE c[1].kind = "refused" /\ server' = [server EXCEPT ![r].pc = "blocking"]
  <2>1. z \in ServerStates /\ z.pc = "blocking" /\ z.sent = s.sent
        BY <1>1 DEF ServerStates, Steps
  <2>2. server' = [server EXCEPT ![r] = z]
        BY <1>7
  <2>3. s.sent = <<>>
        BY <1>3, <1>7 DEF EventTrue
  <2> HIDE DEF z
  <2>4. Said(z) = Said(s) /\ Said(z) = {} /\ z.sent = <<>>
        BY <2>1, <2>3 DEF Said
  <2>5. \A k \in DOMAIN Tail(c) : EventTrue(z, Tail(c)[k])
        BY <1>5, <2>1, <2>4, EventStays
  <2>6. Voice(r, z, Tail(c))
        BY <2>1, <2>4, <2>5 DEF Voice
  <2>7. server'[r] = z /\ server' \in [Requests -> ServerStates]
        /\ \A x \in Requests \ {r} : server'[x] = server[x]
        BY <2>1, <2>2 DEF ServerTypeOK
  <2> QED BY <1>3, <1>4, <2>4, <2>6, <2>7 DEF ServerTypeOK, ServedOnly
<1> QED BY <1>6, <1>7

LEMMA NoticeType == \A r \in Requests : Notice(r) \in Seq(Tokens) /\ Notice(r) # <<>>
BY DEF Notice, Tokens

\* The texts of a task are in the voice of its request, before and after a step.
LEMMA TaskTexts ==
    ASSUME ChatInv, NEW r \in Requests, ServedOnly(r)
    PROVE  /\ task[r] \in TaskStates
           /\ Speaks(server[r], task[r].assembled) /\ Speaks(server[r], task[r].pending)
           /\ Speaks(server'[r], task[r].assembled) /\ Speaks(server'[r], task[r].pending)
<1>1. Heard(task[r], server[r], channel[r], asked[r])
      BY DEF ChatInv, HeardGood
<1> QED BY <1>1, SpeaksOn DEF Heard, ServedOnly, ChatInv, PageTypeOK

\* What was pending is assembled in the same voice.
LEMMA FlushedTexts ==
    ASSUME NEW s, NEW t \in TaskStates, Speaks(s, t.assembled), Speaks(s, t.pending)
    PROVE  /\ Flushed(t) \in TaskStates /\ Flushed(t).pc = t.pc
           /\ Speaks(s, Flushed(t).assembled) /\ Speaks(s, Flushed(t).pending)
<1>1. t.assembled \o t.pending \in Seq(Tokens) /\ Speaks(s, t.assembled \o t.pending)
      BY SpeaksBoth DEF TaskStates
<1> DEFINE all == t.assembled \o t.pending
           f == [t EXCEPT !.assembled = all, !.pending = <<>>, !.timer = FALSE,
                          !.painted = TRUE]
<1>2. Flushed(t) = f
      BY DEF Flushed, TaskStates
<1>3. all \in Seq(Tokens) /\ Speaks(s, all) /\ <<>> \in Seq(Tokens)
      BY <1>1
<1> HIDE DEF all
<1>4. f \in TaskStates /\ f.pc = t.pc /\ f.assembled = all /\ f.pending = <<>>
      BY <1>3 DEF TaskStates
<1> QED BY <1>2, <1>3, <1>4, NothingSpeaks

\* The last writing of a request that failed.
LEMMA FailStep ==
    ASSUME ChatInv, NEW r \in Requests, Fails(r),
           ServerTypeOK', Voice(r, server'[r], channel'[r]), ServedOnly(r)
    PROVE  ChatInv'
<1> DEFINE t == [task[r] EXCEPT !.pc = "ended", !.aborted = FALSE]
<1>1. /\ TaskTo(t, r) /\ Hold
      /\ Page(On(messages, r, Notice(r), FALSE), Finally(r)) /\ Finally(r) \in BOOLEAN
      BY DEF Fails, Ends, Finally
<1>2. /\ t \in TaskStates /\ t.pc = "ended" /\ t.assembled = task[r].assembled
      /\ t.pending = task[r].pending
      BY TaskTexts DEF TaskStates
<1>3. WritesOn(r)
      BY <1>1, NoticeType DEF WritesOn
<1> HIDE DEF t
<1> QED BY <1>1, <1>2, <1>3, TaskTexts, TaskStep

LEMMA WallStep ==
    ASSUME ChatInv, NEW r \in Requests, Wall(r)
    PROVE  ChatInv'
<1> DEFINE t == [task[r] EXCEPT !.aborted = TRUE]
<1>1. ServerTypeOK' /\ Voice(r, server'[r], channel'[r]) /\ ServedOnly(r)
      BY DropStep DEF Wall, ChatInv
<1>2. /\ t \in TaskStates /\ t.pc = task[r].pc /\ t.assembled = task[r].assembled
      /\ t.pending = task[r].pending
      BY <1>1, TaskTexts DEF TaskStates
<1>3. TaskTo(t, r) /\ Hold /\ WritesOn(r) /\ t.pc # "none"
      BY <1>2 DEF Wall, WritesOn, Abortable
<1> HIDE DEF t
<1> QED BY <1>1, <1>2, <1>3, TaskTexts, TaskStep

LEMMA DropsStep ==
    ASSUME ChatInv, NEW r \in Requests, NetworkDrops(r)
    PROVE  ChatInv'
<1>1. ServerTypeOK' /\ Voice(r, server'[r], channel'[r]) /\ ServedOnly(r)
      BY DropStep DEF NetworkDrops, ChatInv
<1> QED BY <1>1, FailStep DEF NetworkDrops

\* The side of the server is left alone.
LEMMA StillServed ==
    ASSUME ChatInv, NEW r \in Requests, UNCHANGED serverVars
    PROVE  ServerTypeOK' /\ Voice(r, server'[r], channel'[r]) /\ ServedOnly(r)
BY DEF ChatInv, SaidGood, ServerTypeOK, ServedOnly, serverVars

LEMMA AbortedStep ==
    ASSUME ChatInv, NEW r \in Requests, Aborted(r)
    PROVE  ChatInv'
BY StillServed, FailStep DEF Aborted

LEMMA ResponseStep ==
    ASSUME ChatInv, NEW r \in Requests, Response(r)
    PROVE  ChatInv'
<1>1. ServerTypeOK' /\ Voice(r, server'[r], channel'[r]) /\ ServedOnly(r)
      BY ReadStep DEF Response, Next1, ChatInv
<1>2. PICK pc \in {"read", "fallback"} : TaskTo([task[r] EXCEPT !.pc = pc], r)
      BY DEF Response
<1> DEFINE t == [task[r] EXCEPT !.pc = pc]
<1>3. /\ t \in TaskStates /\ t.pc = pc /\ t.assembled = task[r].assembled
      /\ t.pending = task[r].pending
      BY <1>1, TaskTexts DEF TaskStates
<1>4. TaskTo(t, r) /\ Hold /\ WritesOn(r) /\ t.pc # "none"
      BY <1>2, <1>3 DEF Response, WritesOn
<1> HIDE DEF t
<1> QED BY <1>1, <1>3, <1>4, TaskTexts, TaskStep

\* The painter paints what it holds, for a request that runs or not.
LEMMA PaintStep ==
    ASSUME ChatInv, NEW r \in Requests, NEW t \in TaskStates, Paint(r, t), t.pc # "none",
           Speaks(server'[r], t.assembled), Speaks(server'[r], t.pending),
           ServerTypeOK', Voice(r, server'[r], channel'[r]), ServedOnly(r)
    PROVE  ChatInv'
<1> DEFINE f == Flushed(t)
<1>1. /\ f \in TaskStates /\ f.pc # "none"
      /\ Speaks(server'[r], f.assembled) /\ Speaks(server'[r], f.pending)
      BY FlushedTexts
<1>2. f.assembled \in Seq(Tokens)
      BY <1>1 DEF TaskStates
<1>3. TaskTo(f, r) /\ Hold /\ Page(On(messages, r, f.assembled, TRUE), loading)
      BY DEF Paint
<1>4. loading \in BOOLEAN
      BY DEF ChatInv, PageTypeOK
<1> HIDE DEF f
<1>5. WritesOn(r)
      BY <1>1, <1>2, <1>3, <1>4 DEF WritesOn
<1> QED BY <1>1, <1>3, <1>5, TaskStep

LEMMA TimerStep ==
    ASSUME ChatInv, NEW r \in Requests, TimerFires(r)
    PROVE  ChatInv'
<1>1. ServerTypeOK' /\ Voice(r, server'[r], channel'[r]) /\ ServedOnly(r)
      BY StillServed DEF TimerFires
<1>2. task[r].pc # "none"
      BY DEF TimerFires, ChatInv, HeardGood, Heard
<1> QED BY <1>1, <1>2, TaskTexts, PaintStep DEF TimerFires

LEMMA TokenStep ==
    ASSUME ChatInv, NEW r \in Requests, ReadToken(r)
    PROVE  ChatInv'
<1> DEFINE text == channel[r][1].text
           t == [task[r] EXCEPT !.pending = @ \o text]
           u == [t EXCEPT !.timer = TRUE]
<1>1. /\ ServerTypeOK' /\ Voice(r, server'[r], channel'[r]) /\ ServedOnly(r)
      /\ channel[r][1] \in Events /\ EventTrue(server[r], channel[r][1])
      BY ReadStep DEF ReadToken, Next1, ChatInv
<1>2. text \in Seq(Tokens) /\ Speaks(server'[r], text)
      BY <1>1, SpeaksOn DEF EventTrue, Events, ServedOnly
<1>3. /\ task[r] \in TaskStates /\ task[r].pc = "read"
      /\ Speaks(server'[r], task[r].assembled) /\ Speaks(server'[r], task[r].pending)
      BY <1>1, TaskTexts DEF ReadToken
<1>4. /\ Paint(r, t) \/ (TaskTo(u, r) /\ UNCHANGED <<messages, loading, storage>> /\ Hold)
      BY DEF ReadToken
<1> HIDE DEF text
<1>5. task[r].pending \o text \in Seq(Tokens) /\ Speaks(server'[r], task[r].pending \o text)
      BY <1>2, <1>3, SpeaksBoth DEF TaskStates
<1>6. /\ t \in TaskStates /\ t.pc = "read" /\ t.assembled = task[r].assembled
      /\ t.pending = task[r].pending \o text
      BY <1>3, <1>5 DEF TaskStates
<1> HIDE DEF t
<1>7. u \in TaskStates /\ u.pc = "read" /\ u.assembled = t.assembled /\ u.pending = t.pending
      BY <1>6 DEF TaskStates
<1> HIDE DEF u
<1>8. CASE Paint(r, t)
      BY <1>1, <1>3, <1>5, <1>6, <1>8, PaintStep
<1>9. CASE TaskTo(u, r) /\ UNCHANGED <<messages, loading, storage>> /\ Hold
  <2>1. WritesOn(r)
        BY <1>9 DEF WritesOn
  <2> QED BY <1>1, <1>3, <1>5, <1>6, <1>7, <1>9, <2>1, TaskStep
<1> QED BY <1>4, <1>8, <1>9

\* The end of a stream, by its answer, by an error or by nothing.
LEMMA DoneStep ==
    ASSUME ChatInv, NEW r \in Requests, ReadDone(r) \/ ReadError(r) \/ ReadEnd(r)
    PROVE  ChatInv'
<1> DEFINE f == Flushed(task[r])
           e == channel[r][1]
<1>1. Consume(r) /\ UNCHANGED server /\ channel[r] # <<>> /\ task[r].pc = "read" /\ Hold
      BY DEF ReadDone, ReadError, ReadEnd, Next1
<1>2. /\ ServerTypeOK' /\ Voice(r, server'[r], channel'[r]) /\ ServedOnly(r)
      /\ e \in Events /\ EventTrue(server[r], e)
      BY <1>1, ReadStep DEF ChatInv
<1>3. /\ f \in TaskStates /\ f.pc = "read"
      /\ Speaks(server'[r], f.assembled) /\ Speaks(server'[r], f.pending)
      BY <1>1, <1>2, TaskTexts, FlushedTexts
<1>4. f.assembled \in Seq(Tokens) /\ loading \in BOOLEAN /\ messages \in Seq(Messages)
      BY <1>3 DEF TaskStates, ChatInv, PageTypeOK
<1>5. CASE ReadDone(r)
  <2>1. TaskTo(f, r) /\ Page(On(messages, r, e.text, FALSE), loading) /\ e.kind = "done"
        BY <1>5 DEF ReadDone, Next1
  <2>2. e.text \in Seq(Tokens) /\ e.text # <<>> /\ Speaks(server'[r], e.text)
        BY <1>1, <1>2, <2>1 DEF EventTrue, Events
  <2> HIDE DEF f, e
  <2>3. WritesOn(r)
        BY <1>4, <2>1, <2>2 DEF WritesOn
  <2> QED BY <1>1, <1>2, <1>3, <2>1, <2>3, TaskStep
<1>6. CASE ReadError(r) \/ ReadEnd(r)
  <2> DEFINE t == [f EXCEPT !.pc = "ended"]
  <2>1. TaskTo(t, r)
        BY <1>6 DEF ReadError, ReadEnd
  <2>2. WritesOn(r)
    <3>1. CASE ReadError(r)
      <4>1. Page(On(messages, r, Notice(r), FALSE), Finally(r)) /\ Finally(r) \in BOOLEAN
            BY <3>1 DEF ReadError, Finally
      <4> QED BY <4>1, NoticeType DEF WritesOn
    <3>2. CASE ReadEnd(r) /\ \E i \in DOMAIN messages : messages[i].id = r /\ messages[i].streaming
      <4> DEFINE text == IF f.assembled = <<>> THEN Notice(r) ELSE f.assembled
      <4>1. Page(On(messages, r, text, FALSE), Finally(r)) /\ Finally(r) \in BOOLEAN
            BY <3>2 DEF ReadEnd, Finally
      <4>2. /\ text \in Seq(Tokens) /\ text # <<>>
            /\ text = Notice(r) \/ Speaks(server'[r], text)
            BY <1>3, <1>4, NoticeType
      <4> HIDE DEF text
      <4> QED BY <4>1, <4>2 DEF WritesOn
    <3>3. CASE ReadEnd(r) /\ ~ \E i \in DOMAIN messages : messages[i].id = r /\ messages[i].streaming
      <4>1. Page(messages, Finally(r)) /\ Finally(r) \in BOOLEAN
            BY <3>3 DEF ReadEnd, Finally
      <4> QED BY <4>1 DEF WritesOn
    <3> QED BY <1>6, <3>1, <3>2, <3>3
  <2>3. t \in TaskStates /\ t.pc = "ended" /\ t.assembled = f.assembled /\ t.pending = f.pending
        BY <1>3 DEF TaskStates
  <2> HIDE DEF t, f
  <2> QED BY <1>1, <1>2, <1>3, <2>1, <2>2, <2>3, TaskStep
<1> QED BY <1>5, <1>6

LEMMA FallbackStep ==
    ASSUME ChatInv, NEW r \in Requests, FallbackReply(r)
    PROVE  ChatInv'
<1> DEFINE e == channel[r][1]
           t == [task[r] EXCEPT !.pc = "ended", !.aborted = FALSE]
<1>1. /\ ServerTypeOK' /\ Voice(r, server'[r], channel'[r]) /\ ServedOnly(r)
      /\ e \in Events /\ EventTrue(server[r], e) /\ UNCHANGED server
      BY ReadStep DEF FallbackReply, Next1, ChatInv
<1>2. CASE Fails(r)
      BY <1>1, <1>2, FailStep
<1>3. CASE Next1(r, "answer") /\ Ends(r, On(messages, r, e.text, FALSE))
  <2>1. e.text \in Seq(Tokens) /\ e.text # <<>> /\ Speaks(server'[r], e.text)
        BY <1>1, <1>3 DEF EventTrue, Events, Next1
  <2>2. /\ TaskTo(t, r) /\ Hold
        /\ Page(On(messages, r, e.text, FALSE), Finally(r)) /\ Finally(r) \in BOOLEAN
        BY <1>3 DEF Ends, Finally
  <2>3. /\ t \in TaskStates /\ t.pc = "ended" /\ t.assembled = task[r].assembled
        /\ t.pending = task[r].pending
        BY <1>1, TaskTexts DEF TaskStates
  <2> HIDE DEF e, t
  <2>4. WritesOn(r)
        BY <2>1, <2>2 DEF WritesOn
  <2> QED BY <1>1, <2>2, <2>3, <2>4, TaskTexts, TaskStep
<1> QED BY <1>2, <1>3 DEF FallbackReply


-----------------------------------------------------------------------------
(* The chat: the moves of the user *)

\* What was heard of a request stays true when its connection is closed.
LEMMA HeardStays ==
    ASSUME NEW t, NEW s, NEW c, NEW a, Heard(t, s, c, a),
           NEW u, NEW z, NEW e, NEW b,
           u.assembled = t.assembled, u.pending = t.pending, Said(s) \subseteq Said(z),
           u.pc = "none" => t.pc = "none" /\ u.timer = t.timer /\ z = s /\ e = c /\ b = a
    PROVE  Heard(u, z, e, b)
BY SpeaksOn DEF Heard

\* The request before is given up: of a request that was not made nothing is.
LEMMA GivenUp ==
    ASSUME ServerTypeOK, SaidGood, PageTypeOK
    PROVE  /\ HangUp \in [Requests -> ServerStates] /\ Unread \in [Requests -> Seq(Events)]
           /\ AbortOld(task) \in [Requests -> TaskStates]
           /\ \A x \in Requests :
                /\ Voice(x, HangUp[x], Unread[x]) /\ Said(HangUp[x]) = Said(server[x])
                /\ task[x].pc = "none" => /\ HangUp[x] = server[x] /\ Unread[x] = channel[x]
                                          /\ AbortOld(task)[x] = task[x]
                /\ AbortOld(task)[x].pc = task[x].pc
                /\ AbortOld(task)[x].assembled = task[x].assembled
                /\ AbortOld(task)[x].pending = task[x].pending
<1>1. ASSUME NEW x \in Requests
      PROVE  /\ HangUp[x] \in ServerStates /\ Unread[x] \in Seq(Events)
             /\ Voice(x, HangUp[x], Unread[x]) /\ Said(HangUp[x]) = Said(server[x])
             /\ task[x].pc = "none" => HangUp[x] = server[x] /\ Unread[x] = channel[x]
  <2>1. server[x] \in ServerStates /\ channel[x] \in Seq(Events) /\ Voice(x, server[x], channel[x])
        BY DEF ServerTypeOK, SaidGood
  <2>2. CASE x = current /\ Abortable(x)
    <3>1. HangUp[x] = Closed(server[x]) /\ Unread[x] = <<>> /\ task[x].pc # "none"
          BY <2>2 DEF HangUp, Unread, Abortable
    <3> QED BY <2>1, <3>1, ClosedVoice
  <2>3. CASE ~(x = current /\ Abortable(x))
    <3>1. HangUp[x] = server[x] /\ Unread[x] = channel[x]
          BY <2>3 DEF HangUp, Unread
    <3> QED BY <2>1, <3>1
  <2> QED BY <2>2, <2>3
<1>2. ASSUME NEW x \in Requests
      PROVE  /\ AbortOld(task)[x] \in TaskStates
             /\ task[x].pc = "none" => AbortOld(task)[x] = task[x]
             /\ AbortOld(task)[x].pc = task[x].pc
             /\ AbortOld(task)[x].assembled = task[x].assembled
             /\ AbortOld(task)[x].pending = task[x].pending
  <2> DEFINE t == [task[x] EXCEPT !.aborted = TRUE]
  <2>1. task[x] \in TaskStates
        BY DEF PageTypeOK
  <2>2. /\ t \in TaskStates /\ t.pc = task[x].pc /\ t.assembled = task[x].assembled
        /\ t.pending = task[x].pending
        BY <2>1 DEF TaskStates
  <2>3. \/ AbortOld(task)[x] = task[x]
        \/ AbortOld(task)[x] = t /\ task[x].pc # "none"
        BY DEF AbortOld, Abortable
  <2> HIDE DEF t
  <2> QED BY <2>1, <2>2, <2>3
<1>3. /\ HangUp = [x \in Requests |-> HangUp[x]] /\ Unread = [x \in Requests |-> Unread[x]]
      /\ AbortOld(task) = [x \in Requests |-> AbortOld(task)[x]]
      BY DEF HangUp, Unread, AbortOld
<1> QED BY <1>1, <1>2, <1>3

\* One more message at the end of a good chat.
LEMMA AppendGood ==
    ASSUME NEW ms \in Seq(Messages), NEW m \in Messages, NEW d, NEW srv, NEW tsk, NEW ask,
           GoodIn(ms, d, srv, tsk, ask), Fits(m, srv[m.id], tsk[m.id]), ask[m.id].doc = d,
           m.role = "assistant" /\ ask[m.id].q # 0 =>
             Len(ms) > 0 /\ ms[Len(ms)].role = "user" /\ ms[Len(ms)].id = ask[m.id].q
    PROVE  /\ Append(ms, m) \in Seq(Messages) /\ Len(Append(ms, m)) = Len(ms) + 1
           /\ Append(ms, m)[Len(ms) + 1] = m
           /\ GoodIn(Append(ms, m), d, srv, tsk, ask)
<1> DEFINE new == Append(ms, m)
<1>1. /\ new \in Seq(Messages) /\ Len(new) = Len(ms) + 1 /\ Len(ms) \in Nat
      /\ DOMAIN new = 1..(Len(ms) + 1)
      /\ \A i \in 1..Len(ms) : new[i] = ms[i]
      /\ new[Len(ms) + 1] = m
      OBVIOUS
<1> HIDE DEF new
<1>2. \A i \in 1..Len(ms) : Fits(ms[i], srv[ms[i].id], tsk[ms[i].id])
      BY DEF GoodIn
<1>3. \A i \in DOMAIN new : Fits(new[i], srv[new[i].id], tsk[new[i].id])
  <2>1. ASSUME NEW i \in DOMAIN new PROVE Fits(new[i], srv[new[i].id], tsk[new[i].id])
    <3>1. CASE i = Len(ms) + 1
          BY <1>1, <3>1
    <3>2. CASE i # Len(ms) + 1
      <4>1. i \in 1..Len(ms)
            BY <1>1, <3>2
      <4> QED BY <1>1, <1>2, <4>1
    <3> QED BY <3>1, <3>2
  <2> QED BY <2>1
<1>4. InPlace(new, d, ask)
  <2>1. ASSUME NEW i \in DOMAIN new
        PROVE  /\ ask[new[i].id].doc = d
               /\ new[i].role = "assistant" /\ ask[new[i].id].q # 0 =>
                    i > 1 /\ new[i - 1].role = "user" /\ new[i - 1].id = ask[new[i].id].q
    <3>1. CASE i = Len(ms) + 1
      <4>1. new[i] = m /\ i - 1 = Len(ms)
            BY <1>1, <3>1
      <4>2. Len(ms) > 0 => i > 1 /\ new[i - 1] = ms[Len(ms)]
            BY <1>1, <3>1
      <4> QED BY <4>1, <4>2
    <3>2. CASE i # Len(ms) + 1
      <4>1. i \in 1..Len(ms) /\ new[i] = ms[i]
            BY <1>1, <3>2
      <4>2. i > 1 => new[i - 1] = ms[i - 1]
            BY <1>1, <4>1
      <4>3. /\ ask[ms[i].id].doc = d
            /\ ms[i].role = "assistant" /\ ask[ms[i].id].q # 0 =>
                 i > 1 /\ ms[i - 1].role = "user" /\ ms[i - 1].id = ask[ms[i].id].q
            BY <4>1 DEF GoodIn, InPlace
      <4> QED BY <4>1, <4>2, <4>3
    <3> QED BY <3>1, <3>2
  <2> QED BY <2>1 DEF InPlace
<1> QED BY <1>1, <1>3, <1>4 DEF GoodIn, new

\* The messages up to one of a good chat.
LEMMA PrefixGood ==
    ASSUME NEW ms \in Seq(Messages), NEW n \in DOMAIN ms, NEW d, NEW srv, NEW tsk, NEW ask,
           GoodIn(ms, d, srv, tsk, ask)
    PROVE  /\ SubSeq(ms, 1, n) \in Seq(Messages) /\ Len(SubSeq(ms, 1, n)) = n
           /\ SubSeq(ms, 1, n)[n] = ms[n] /\ n \in Nat /\ n > 0
           /\ GoodIn(SubSeq(ms, 1, n), d, srv, tsk, ask)
<1> DEFINE new == SubSeq(ms, 1, n)
<1>1. /\ new \in Seq(Messages) /\ Len(new) = n /\ n \in Nat /\ n > 0
      /\ DOMAIN new = 1..n /\ \A i \in 1..n : new[i] = ms[i] /\ i \in DOMAIN ms
      OBVIOUS
<1> HIDE DEF new
<1>2. \A i \in 1..n : i > 1 => i - 1 \in 1..n
      BY <1>1
<1>3. InPlace(new, d, ask)
      BY <1>1, <1>2 DEF GoodIn, InPlace
<1> QED BY <1>1, <1>3 DEF GoodIn, new


\* A request is made: nothing was said for it yet, and the one before is given up.
LEMMA RunStep ==
    ASSUME ChatInv, NEW r \in Free, NEW q \in Requests, NEW ms, RunAssistant(r, q, ms)
    PROVE  /\ ServerTypeOK' /\ SaidGood' /\ HeardGood' /\ Onward
           /\ task' \in [Requests -> TaskStates] /\ task'[r].pc = "fetch"
           /\ asked' \in [Requests -> [doc : Docs, q : Requests \cup {0}]]
           /\ asked'[r].doc = doc /\ asked'[r].q = q
           /\ current' \in Requests /\ UNCHANGED <<doc, moves>>
           /\ Page(Append(ms, Answer(r, <<>>, TRUE)), TRUE)
<1> DEFINE z == [server[r] EXCEPT !.pc = "called"]
           t == [task[r] EXCEPT !.pc = "fetch"]
           a == [doc |-> doc, q |-> q]
<1>1. r \in Requests /\ task[r].pc = "none"
      BY DEF Free
<1>2. /\ server[r] \in ServerStates /\ task[r] \in TaskStates /\ server[r].pc = "off"
      /\ server[r].sent = <<>> /\ channel[r] = <<>>
      BY <1>1 DEF ChatInv, ServerTypeOK, PageTypeOK, HeardGood, Heard, SaidGood, Voice
<1>3. ServerTypeOK /\ SaidGood /\ PageTypeOK
      BY DEF ChatInv
<1>4. /\ server' = [HangUp EXCEPT ![r] = z] /\ channel' = Unread
      /\ task' = [AbortOld(task) EXCEPT ![r] = t]
      /\ asked' = [asked EXCEPT ![r] = a]
  <2>1. HangUp[r] = server[r] /\ AbortOld(task)[r] = task[r]
        BY <1>1, <1>3, GivenUp
  <2>2. /\ server' = [HangUp EXCEPT ![r].pc = "called"] /\ channel' = Unread
        /\ task' = [AbortOld(task) EXCEPT ![r].pc = "fetch"]
        /\ asked' = [asked EXCEPT ![r] = [doc |-> doc, q |-> q]]
        BY DEF RunAssistant
  <2> QED BY <2>1, <2>2
<1>5. z \in ServerStates /\ z.pc = "called" /\ z.sent = <<>>
      BY <1>2 DEF ServerStates, Steps
<1>6. /\ t \in TaskStates /\ t.pc = "fetch" /\ t.assembled = task[r].assembled
      /\ t.pending = task[r].pending
      BY <1>2 DEF TaskStates
<1>7. a \in [doc : Docs, q : Requests \cup {0}] /\ a.doc = doc /\ a.q = q
      BY <1>3 DEF PageTypeOK
<1> HIDE DEF z, t, a
<1>8. Said(z) = Said(server[r]) /\ Voice(r, z, <<>>)
      BY <1>2, <1>5 DEF Said, Voice
<1>9. /\ server' \in [Requests -> ServerStates] /\ server'[r] = z
      /\ channel' \in [Requests -> Seq(Events)] /\ channel'[r] = <<>>
      /\ task' \in [Requests -> TaskStates] /\ task'[r] = t
      /\ \A x \in Requests \ {r} :
           server'[x] = HangUp[x] /\ channel'[x] = Unread[x] /\ task'[x] = AbortOld(task)[x]
      BY <1>1, <1>2, <1>3, <1>4, <1>5, <1>6, GivenUp
<1>10. /\ asked' \in [Requests -> [doc : Docs, q : Requests \cup {0}]] /\ asked'[r] = a
       /\ \A x \in Requests \ {r} : asked'[x] = asked[x]
       BY <1>1, <1>3, <1>4, <1>7 DEF PageTypeOK
<1>11. ASSUME NEW x \in Requests
       PROVE  /\ Voice(x, server'[x], channel'[x])
              /\ Said(server[x]) = Said(server'[x])
              /\ Heard(task'[x], server'[x], channel'[x], asked'[x])
              /\ task[x].pc # "none" => task'[x].pc # "none" /\ asked'[x] = asked[x]
  <2>1. Heard(task[x], server[x], channel[x], asked[x])
        BY DEF ChatInv, HeardGood
  <2>2. CASE x = r
    <3>1. Heard(t, z, <<>>, a)
          BY <1>6, <1>8, <2>1, <2>2, HeardStays
    <3> QED BY <1>1, <1>8, <1>9, <1>10, <2>2, <3>1
  <2>3. CASE x # r
    <3>1. /\ server'[x] = HangUp[x] /\ channel'[x] = Unread[x]
          /\ task'[x] = AbortOld(task)[x] /\ asked'[x] = asked[x]
          BY <1>9, <1>10, <2>3
    <3>2. /\ Voice(x, HangUp[x], Unread[x]) /\ Said(HangUp[x]) = Said(server[x])
          /\ task[x].pc = "none" => /\ HangUp[x] = server[x] /\ Unread[x] = channel[x]
                                    /\ AbortOld(task)[x] = task[x]
          /\ AbortOld(task)[x].pc = task[x].pc
          /\ AbortOld(task)[x].assembled = task[x].assembled
          /\ AbortOld(task)[x].pending = task[x].pending
          BY <1>3, GivenUp
    <3>3. Heard(AbortOld(task)[x], HangUp[x], Unread[x], asked[x])
          BY <2>1, <3>2, HeardStays
    <3> QED BY <3>1, <3>2, <3>3
  <2> QED BY <2>2, <2>3
<1>12. ServerTypeOK' /\ SaidGood' /\ HeardGood' /\ Onward
       BY <1>9, <1>11 DEF ServerTypeOK, SaidGood, HeardGood, Onward
<1> QED BY <1>1, <1>6, <1>7, <1>9, <1>10, <1>12 DEF RunAssistant

\* Its empty answer is put behind its question.
LEMMA AskedStep ==
    ASSUME ChatInv, NEW r \in Free, NEW q \in Requests, NEW ms \in Seq(Messages),
           RunAssistant(r, q, ms),
           GoodIn(ms, doc, server', task', asked'),
           Len(ms) > 0, ms[Len(ms)].role = "user", ms[Len(ms)].id = q
    PROVE  ChatInv'
<1> DEFINE m == Answer(r, <<>>, TRUE)
<1>1. /\ ServerTypeOK' /\ SaidGood' /\ HeardGood' /\ Onward
      /\ task' \in [Requests -> TaskStates] /\ task'[r].pc = "fetch"
      /\ asked' \in [Requests -> [doc : Docs, q : Requests \cup {0}]]
      /\ asked'[r].doc = doc /\ asked'[r].q = q
      /\ current' \in Requests /\ UNCHANGED <<doc, moves>>
      /\ Page(Append(ms, m), TRUE)
      BY RunStep
<1>2. r \in Requests
      BY DEF Free
<1>3. /\ m \in Messages /\ m.id = r /\ m.role = "assistant" /\ m.streaming
      /\ Speaks(server'[r], m.text)
      BY <1>2, NothingSpeaks DEF Answer, Messages
<1>4. Fits(m, server'[m.id], task'[m.id])
      BY <1>1, <1>3 DEF Fits
<1> HIDE DEF m
<1>5. Append(ms, m) \in Seq(Messages) /\ GoodIn(Append(ms, m), doc, server', task', asked')
      BY <1>1, <1>3, <1>4, AppendGood
<1>6. /\ messages' \in Seq(Messages) /\ loading' \in BOOLEAN
      /\ storage' \in [Docs -> Seq(Messages)]
      /\ ShownGood' /\ KeptGood'
      BY <1>1, <1>5, PageStep DEF ChatInv
<1>7. PageTypeOK'
      BY <1>1, <1>6 DEF ChatInv, PageTypeOK
<1> QED BY <1>1, <1>6, <1>7 DEF ChatInv

LEMMA AskStep ==
    ASSUME ChatInv, Ask
    PROVE  ChatInv'
<1>1. PICK r \in Free :
        \/ RunAssistant(r, r, Append(messages, Question(r)))
        \/ /\ task' = [task EXCEPT ![r].pc = "ended"]
           /\ asked' = [asked EXCEPT ![r].doc = doc]
           /\ Page(Append(messages, Answer(r, Notice(r), FALSE)), loading)
           /\ UNCHANGED <<serverVars, doc, current, moves>>
      BY DEF Ask
<1>2. r \in Requests /\ task[r].pc = "none"
      BY DEF Free
<1>3. /\ Notice(r) \in Seq(Tokens) /\ Notice(r) # <<>>
      BY <1>2, NoticeType
<1>4. messages \in Seq(Messages) /\ GoodIn(messages, doc, server, task, asked)
      BY DEF ChatInv, PageTypeOK, ShownGood
<1>5. CASE RunAssistant(r, r, Append(messages, Question(r)))
  <2> DEFINE m == Question(r)
  <2>1. Onward /\ task'[r].pc = "fetch" /\ asked'[r].doc = doc
        BY <1>2, <1>5, RunStep
  <2>2. m \in Messages /\ m.id = r /\ m.role = "user" /\ m.text = Notice(r)
        BY <1>2, <1>3 DEF Question, Messages, Notice
  <2> HIDE DEF m
  <2>3. Fits(m, server'[m.id], task'[m.id])
        BY <1>3, <2>1, <2>2 DEF Fits
  <2>4. GoodIn(messages, doc, server', task', asked')
        BY <1>4, <2>1, GoodStays
  <2>5. /\ Append(messages, m) \in Seq(Messages)
        /\ Len(Append(messages, m)) = Len(messages) + 1
        /\ Append(messages, m)[Len(messages) + 1] = m
        /\ GoodIn(Append(messages, m), doc, server', task', asked')
        BY <1>4, <2>1, <2>2, <2>3, <2>4, AppendGood
  <2>6. RunAssistant(r, r, Append(messages, m))
        BY <1>5 DEF m
  <2>7. Len(Append(messages, m)) > 0
        BY <1>4, <2>5
  <2>8. Append(messages, m)[Len(Append(messages, m))] = m
        BY <2>5
  <2> QED BY <1>2, <2>2, <2>5, <2>6, <2>7, <2>8, AskedStep
<1>6. CASE /\ task' = [task EXCEPT ![r].pc = "ended"]
           /\ asked' = [asked EXCEPT ![r].doc = doc]
           /\ Page(Append(messages, Answer(r, Notice(r), FALSE)), loading)
           /\ UNCHANGED <<serverVars, doc, current, moves>>
  <2> DEFINE m == Answer(r, Notice(r), FALSE)
             t == [task[r] EXCEPT !.pc = "ended"]
             a == [asked[r] EXCEPT !.doc = doc]
  <2>1. server' = server /\ channel' = channel
        BY <1>6 DEF serverVars
  <2>2. task[r] \in TaskStates /\ asked[r] \in [doc : Docs, q : Requests \cup {0}] /\ doc \in Docs
        BY <1>2 DEF ChatInv, PageTypeOK
  <2>3. Heard(task[r], server[r], channel[r], asked[r])
        BY <1>2 DEF ChatInv, HeardGood
  <2>4. asked[r].q = 0
        BY <1>2, <2>3 DEF Heard
  <2>5. /\ t \in TaskStates /\ t.pc = "ended" /\ t.assembled = task[r].assembled
        /\ t.pending = task[r].pending
        BY <2>2 DEF TaskStates
  <2>6. a \in [doc : Docs, q : Requests \cup {0}] /\ a.doc = doc /\ a.q = 0
        BY <2>2, <2>4
  <2>7. m \in Messages /\ m.id = r /\ m.role = "assistant" /\ m.text = Notice(r)
        BY <1>2, <1>3 DEF Answer, Messages
  <2>8. task' = [task EXCEPT ![r] = t] /\ asked' = [asked EXCEPT ![r] = a]
        BY <1>6
  <2>9. Page(Append(messages, m), loading) /\ doc' = doc /\ current' = current /\ moves' = moves
        BY <1>6
  <2> HIDE DEF m, t, a
  <2>10. /\ task' \in [Requests -> TaskStates] /\ task'[r] = t
         /\ asked' \in [Requests -> [doc : Docs, q : Requests \cup {0}]] /\ asked'[r] = a
         /\ \A x \in Requests \ {r} : task'[x] = task[x] /\ asked'[x] = asked[x]
         BY <1>2, <2>5, <2>6, <2>8 DEF ChatInv, PageTypeOK
  <2>11. Onward
         BY <1>2, <2>1, <2>10 DEF Onward
  <2>12. HeardGood'
    <3>1. Heard(t, server[r], channel[r], a)
          BY <2>3, <2>5, HeardStays
    <3> QED BY <2>1, <2>10, <3>1 DEF ChatInv, HeardGood
  <2>13. ServerTypeOK' /\ SaidGood'
         BY <2>1 DEF ChatInv, ServerTypeOK, SaidGood
  <2>14. Fits(m, server'[m.id], task'[m.id])
         BY <1>3, <2>5, <2>7, <2>10 DEF Fits
  <2>15. GoodIn(messages, doc, server', task', asked')
         BY <1>4, <2>11, GoodStays
  <2>16. Append(messages, m) \in Seq(Messages)
         /\ GoodIn(Append(messages, m), doc, server', task', asked')
         BY <1>4, <2>6, <2>7, <2>10, <2>14, <2>15, AppendGood
  <2>17. loading \in BOOLEAN
         BY DEF ChatInv, PageTypeOK
  <2>18. /\ messages' \in Seq(Messages) /\ loading' \in BOOLEAN
         /\ storage' \in [Docs -> Seq(Messages)]
         /\ ShownGood' /\ KeptGood'
         BY <2>9, <2>11, <2>16, <2>17, PageStep DEF ChatInv
  <2>19. PageTypeOK'
         BY <2>9, <2>10, <2>18 DEF ChatInv, PageTypeOK
  <2> QED BY <2>12, <2>13, <2>18, <2>19 DEF ChatInv
<1> QED BY <1>1, <1>5, <1>6

LEMMA RegenerateStep ==
    ASSUME ChatInv, Regenerate
    PROVE  ChatInv'
<1>1. PICK r \in Free, i \in Users(messages) :
        RunAssistant(r, messages[i].id, SubSeq(messages, 1, i))
      BY DEF Regenerate
<1> DEFINE q == messages[i].id
           ms == SubSeq(messages, 1, i)
<1>2. i \in DOMAIN messages /\ messages[i].role = "user"
      BY DEF Users
<1>3. messages \in Seq(Messages) /\ GoodIn(messages, doc, server, task, asked)
      BY DEF ChatInv, PageTypeOK, ShownGood
<1>4. q \in Requests
  <2>1. messages[i] \in Messages
        BY <1>2, <1>3
  <2> QED BY <2>1 DEF Messages
<1>5. GoodIn(messages, doc, server', task', asked')
      BY <1>1, <1>3, <1>4, RunStep, GoodStays
<1>6. /\ ms \in Seq(Messages) /\ Len(ms) = i /\ ms[i] = messages[i] /\ i \in Nat /\ i > 0
      /\ GoodIn(ms, doc, server', task', asked')
      BY <1>2, <1>3, <1>5, PrefixGood
<1>7. RunAssistant(r, q, ms) /\ q = messages[i].id
      BY <1>1
<1> HIDE DEF ms, q
<1> QED BY <1>2, <1>4, <1>6, <1>7, AskedStep

\* The request before is given up, and no other.
LEMMA AbandonStep ==
    ASSUME ChatInv, server' = HangUp, channel' = Unread, UNCHANGED asked,
           task' \in [Requests -> TaskStates],
           \A x \in Requests :
             /\ task[x].pc = "none" <=> task'[x].pc = "none"
             /\ task[x].pc = "none" => task'[x] = task[x]
             /\ Speaks(server[x], task'[x].assembled) /\ Speaks(server[x], task'[x].pending)
    PROVE  ServerTypeOK' /\ SaidGood' /\ HeardGood' /\ Onward
<1>1. ServerTypeOK /\ SaidGood /\ PageTypeOK
      BY DEF ChatInv
<1>2. ServerTypeOK'
      BY <1>1, GivenUp DEF ServerTypeOK
<1>3. ASSUME NEW x \in Requests
      PROVE  /\ Voice(x, server'[x], channel'[x]) /\ Said(server'[x]) = Said(server[x])
             /\ Heard(task'[x], server'[x], channel'[x], asked'[x])
  <2>1. /\ Voice(x, HangUp[x], Unread[x]) /\ Said(HangUp[x]) = Said(server[x])
        /\ task[x].pc = "none" => HangUp[x] = server[x] /\ Unread[x] = channel[x]
        BY <1>1, GivenUp
  <2>2. Heard(task[x], server[x], channel[x], asked[x])
        BY DEF ChatInv, HeardGood
  <2>3. Speaks(HangUp[x], task'[x].assembled) /\ Speaks(HangUp[x], task'[x].pending)
        BY <2>1, SpeaksOn
  <2> QED BY <2>1, <2>2, <2>3 DEF Heard
<1> QED BY <1>2, <1>3 DEF SaidGood, HeardGood, Onward

LEMMA NewChatStep ==
    ASSUME ChatInv, NewChat
    PROVE  ChatInv'
<1>1. /\ task' = AbortOld(task) /\ server' = HangUp /\ channel' = Unread
      /\ Page(<<>>, FALSE) /\ UNCHANGED <<doc, current, asked>> /\ moves' = moves + 1
      BY DEF NewChat, Move, Abandon
<1>2. ServerTypeOK /\ SaidGood /\ PageTypeOK
      BY DEF ChatInv
<1>3. ASSUME NEW x \in Requests
      PROVE  /\ task[x].pc = "none" <=> task'[x].pc = "none"
             /\ task[x].pc = "none" => task'[x] = task[x]
             /\ Speaks(server[x], task'[x].assembled) /\ Speaks(server[x], task'[x].pending)
  <2>1. Heard(task[x], server[x], channel[x], asked[x])
        BY DEF ChatInv, HeardGood
  <2> QED BY <1>1, <1>2, <2>1, GivenUp DEF Heard
<1>4. task' \in [Requests -> TaskStates]
      BY <1>1, <1>2, GivenUp
<1>5. ServerTypeOK' /\ SaidGood' /\ HeardGood' /\ Onward
      BY <1>1, <1>3, <1>4, AbandonStep
<1>6. <<>> \in Seq(Messages) /\ GoodIn(<<>>, doc, server', task', asked')
      BY DEF GoodIn, InPlace
<1>7. /\ messages' \in Seq(Messages) /\ loading' \in BOOLEAN
      /\ storage' \in [Docs -> Seq(Messages)]
      /\ ShownGood' /\ KeptGood'
      BY <1>1, <1>5, <1>6, PageStep DEF ChatInv
<1>8. PageTypeOK'
      BY <1>1, <1>4, <1>7 DEF ChatInv, PageTypeOK
<1> QED BY <1>5, <1>7, <1>8 DEF ChatInv

LEMMA OpenStep ==
    ASSUME ChatInv, Open
    PROVE  ChatInv'
<1> DEFINE gone == [NoTask EXCEPT !.pc = "ended"]
<1>1. /\ doc' \in Docs /\ messages' = storage[doc'] /\ loading' = FALSE /\ current' = 0
      /\ task' = [x \in Requests |-> IF task[x].pc = "none" THEN task[x] ELSE gone]
      /\ server' = HangUp /\ channel' = Unread
      /\ UNCHANGED <<asked, storage>> /\ moves' = moves + 1
      BY DEF Open, Move, Loaded
<1>2. ServerTypeOK /\ SaidGood /\ PageTypeOK
      BY DEF ChatInv
<1>3. /\ gone \in TaskStates /\ gone.pc = "ended" /\ gone.assembled = <<>>
      /\ gone.pending = <<>>
  <2>1. NoTask \in TaskStates /\ NoTask.assembled = <<>> /\ NoTask.pending = <<>>
        BY DEF NoTask, TaskStates
  <2> QED BY <2>1 DEF TaskStates
<1> HIDE DEF gone
<1>4. ASSUME NEW x \in Requests
      PROVE  /\ task'[x] \in TaskStates
             /\ task[x].pc = "none" <=> task'[x].pc = "none"
             /\ task[x].pc = "none" => task'[x] = task[x]
             /\ Speaks(server[x], task'[x].assembled) /\ Speaks(server[x], task'[x].pending)
  <2>1. Heard(task[x], server[x], channel[x], asked[x]) /\ task[x] \in TaskStates
        BY <1>2 DEF ChatInv, HeardGood, PageTypeOK
  <2> QED BY <1>1, <1>3, <2>1, NothingSpeaks DEF Heard
<1>5. task' \in [Requests -> TaskStates]
      BY <1>1, <1>4
<1>6. ServerTypeOK' /\ SaidGood' /\ HeardGood' /\ Onward
      BY <1>1, <1>4, <1>5, AbandonStep
<1>7. ASSUME NEW d \in Docs PROVE GoodIn(storage[d], d, server', task', asked')
      BY <1>6, GoodStays DEF ChatInv, PageTypeOK, KeptGood
<1>8. ShownGood' /\ KeptGood'
      BY <1>1, <1>7 DEF ShownGood, KeptGood
<1>9. PageTypeOK'
  <2>1. messages' \in Seq(Messages)
        BY <1>1, <1>2 DEF PageTypeOK
  <2>2. moves' \in Nat
    <3>1. moves \in Nat
          BY <1>2 DEF PageTypeOK
    <3> QED BY <1>1, <3>1
  <2>3. loading' \in BOOLEAN /\ current' \in Requests \cup {0}
        BY <1>1
  <2> QED BY <1>1, <1>2, <1>5, <2>1, <2>2, <2>3 DEF PageTypeOK
<1> QED BY <1>6, <1>8, <1>9 DEF ChatInv

-----------------------------------------------------------------------------
(* The chat: its theorems *)

LEMMA ChatStarts == ChatInit => ChatInv
<1> SUFFICES ASSUME ChatInit PROVE ChatInv
    OBVIOUS
<1>1. /\ server = [r \in Requests |-> [pc |-> "off", model |-> 0, try |-> 0, call |-> 0,
                                       sent |-> <<>>, whole |-> FALSE]]
      /\ channel = [r \in Requests |-> <<>>]
      BY DEF ChatInit, ServerInit
<1>2. doc \in Docs /\ messages = <<>> /\ loading = FALSE /\ current = 0 /\ moves = 0
      /\ asked = [r \in Requests |-> [doc |-> doc, q |-> 0]]
      /\ task = [r \in Requests |-> NoTask]
      /\ storage = [d \in Docs |-> <<>>]
      BY ChatAssumption DEF ChatInit
<1>3. NoTask \in TaskStates /\ NoTask.pc = "none" /\ ~NoTask.timer
      /\ NoTask.assembled = <<>> /\ NoTask.pending = <<>>
      BY DEF NoTask, TaskStates
<1>4. ServerTypeOK
      BY <1>1 DEF ServerTypeOK, ServerStates, Steps
<1>5. PageTypeOK
  <2>1. messages \in Seq(Messages) /\ storage \in [Docs -> Seq(Messages)]
        BY <1>2
  <2>2. task \in [Requests -> TaskStates]
        BY <1>2, <1>3
  <2>3. asked \in [Requests -> [doc : Docs, q : Requests \cup {0}]]
        BY <1>2
  <2>4. loading \in BOOLEAN /\ current \in Requests \cup {0} /\ moves \in Nat
        BY <1>2
  <2> QED BY <1>2, <2>1, <2>2, <2>3, <2>4 DEF PageTypeOK
<1>6. \A r \in Requests : Voice(r, server[r], channel[r])
      BY <1>1 DEF Voice, Said
<1>7. \A r \in Requests : Heard(task[r], server[r], channel[r], asked[r])
      BY <1>1, <1>2, <1>3, NothingSpeaks DEF Heard
<1>8. ShownGood /\ KeptGood
      BY <1>2 DEF ShownGood, KeptGood, GoodIn, InPlace
<1> QED BY <1>4, <1>5, <1>6, <1>7, <1>8 DEF ChatInv, SaidGood, HeardGood

LEMMA ChatKeeps == ChatInv /\ [ChatNext]_chatVars => ChatInv'
<1> SUFFICES ASSUME ChatInv, [ChatNext]_chatVars PROVE ChatInv'
    OBVIOUS
<1>1. CASE UNCHANGED chatVars
      BY <1>1 DEF chatVars, serverVars, pageVars, ChatInv, ServerTypeOK, PageTypeOK, SaidGood,
                  HeardGood, ShownGood, KeptGood
<1>2. CASE Ask \/ Regenerate \/ NewChat \/ Open
      BY <1>2, AskStep, RegenerateStep, NewChatStep, OpenStep
<1>3. ASSUME NEW r \in Requests,
             Server(r) \/ Client(r) \/ TimerFires(r) \/ Wall(r) \/ NetworkDrops(r)
      PROVE  ChatInv'
  <2>1. CASE Client(r)
        BY <2>1, AbortedStep, ResponseStep, TokenStep, DoneStep, FallbackStep DEF Client
  <2> QED BY <1>3, <2>1, ServerStep, TimerStep, WallStep, DropsStep
<1> QED BY <1>1, <1>2, <1>3 DEF ChatNext

LEMMA ChatHolds == ChatSpec => []ChatInv
BY ChatStarts, ChatKeeps, PTL DEF ChatSpec

\* A message of the page says what one call said, or a notice.
LEMMA MessageSays ==
    ASSUME ChatInv, NEW ms \in Seq(Messages), NEW d, GoodIn(ms, d, server, task, asked),
           NEW i \in DOMAIN ms
    PROVE  \A j, k \in DOMAIN ms[i].text :
             ms[i].text[j] = ms[i].text[k] /\ ms[i].text[k][1] = ms[i].id
<1> DEFINE m == ms[i]
           r == m.id
<1>1. m \in Messages
      OBVIOUS
<1>2. r \in Requests /\ (m.role = "user" \/ m.role = "assistant")
      BY <1>1 DEF Messages
<1>3. m.text = Notice(r) \/ Speaks(server[r], m.text)
      BY <1>2 DEF GoodIn, Fits
<1>4. (\A t, u \in Said(server[r]) : t = u) /\ (\A t \in Said(server[r]) : t[1] = r)
      BY <1>2 DEF ChatInv, SaidGood, Voice
<1>5. CASE m.text = Notice(r)
      BY <1>5 DEF Notice
<1>6. CASE Speaks(server[r], m.text)
      BY <1>4, <1>6 DEF Speaks
<1> QED BY <1>3, <1>5, <1>6

\* Every answer on the page is one model's, whatever the chain of models does behind it
\* and however the requests overlap (conversation/service.py, document-chat.tsx).
THEOREM AnswerOneVoice == ChatSpec => []OneVoice
<1>1. ChatInv => OneVoice
  <2> SUFFICES ASSUME ChatInv, NEW i \in DOMAIN messages,
                      NEW j \in DOMAIN messages[i].text, NEW k \in DOMAIN messages[i].text
               PROVE  messages[i].text[j][2] = messages[i].text[k][2]
      BY DEF OneVoice
  <2>1. messages \in Seq(Messages) /\ GoodIn(messages, doc, server, task, asked)
        BY DEF ChatInv, PageTypeOK, ShownGood
  <2>2. messages[i].text[j] = messages[i].text[k]
        BY <2>1, MessageSays
  <2> QED BY <2>2
<1> QED BY <1>1, ChatHolds, PTL

\* An answer stands behind the question it answers, in the chat of the document it was
\* asked of, and holds no token of another request: on the page and in the copy of the
\* browser, whatever late events, timers and replies still arrive.
THEOREM AnswersOwn == ChatSpec => []OwnAnswer
<1>1. ChatInv => OwnAnswer
  <2> SUFFICES ASSUME ChatInv PROVE OwnAnswer
      OBVIOUS
  <2>1. ASSUME NEW ms \in Seq(Messages), NEW d, GoodIn(ms, d, server, task, asked)
        PROVE  Belongs(ms, d)
    <3>1. \A i \in DOMAIN ms : \A k \in DOMAIN ms[i].text : ms[i].text[k][1] = ms[i].id
          BY <2>1, MessageSays
    <3> QED BY <2>1, <3>1 DEF GoodIn, InPlace, Belongs
  <2>2. Belongs(messages, doc)
        BY <2>1 DEF ChatInv, PageTypeOK, ShownGood
  <2>3. ASSUME NEW d \in Docs PROVE Belongs(storage[d], d)
        BY <2>1 DEF ChatInv, PageTypeOK, KeptGood
  <2> QED BY <2>2, <2>3 DEF OwnAnswer
<1> QED BY <1>1, ChatHolds, PTL

=============================================================================

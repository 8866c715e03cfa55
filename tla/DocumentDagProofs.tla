------------------------- MODULE DocumentDagProofs -------------------------
(***************************************************************************)
(* Proofs about the execution of one document's graph: what a node depends    *)
(* on, types, and the two halves of the inductive invariant, that no text     *)
(* loses a part of the document and that no text is stale.                    *)
(***************************************************************************)
EXTENDS DocumentDag, FiniteSetTheorems, TLAPS

-----------------------------------------------------------------------------
(* The graph *)

\* What a node depends on is made of nodes, with the node itself.
LEMMA ReachSelf == ASSUME NEW n \in Nodes PROVE n \in Reach[n] /\ Reach[n] \subseteq Nodes
BY DEF Reach

\* It is closed under dependencies.
LEMMA ReachClosed == ASSUME NEW n \in Nodes PROVE Closed(Reach[n])
<1>1. SUFFICES ASSUME NEW m \in Reach[n] \cap Compiles, NEW d \in Deps[m] PROVE d \in Reach[n]
  BY DEF Closed
<1>2. d \in Nodes
  BY DocumentDagAssumption
<1>3. ASSUME NEW S \in SUBSET Nodes, n \in S, Closed(S) PROVE d \in S
  <2>1. m \in S
    BY <1>1, <1>3 DEF Reach
  <2> QED BY <2>1, <1>1, <1>3 DEF Closed
<1> QED BY <1>2, <1>3 DEF Reach

\* And it is the least such set.
LEMMA ReachLeast ==
    ASSUME NEW n \in Nodes, NEW S \in SUBSET Nodes, n \in S, Closed(S)
    PROVE  Reach[n] \subseteq S
BY DEF Reach

\* A node depends on what its dependencies depend on.
LEMMA ReachThrough ==
    ASSUME NEW n \in Nodes, NEW m \in Reach[n]
    PROVE  Reach[m] \subseteq Reach[n]
<1>1. Reach[n] \in SUBSET Nodes /\ m \in Nodes
  BY ReachSelf
<1>2. Closed(Reach[n])
  BY ReachClosed
<1> QED BY <1>1, <1>2, ReachLeast

\* A compile node depends on its direct dependencies.
LEMMA ReachDirect ==
    ASSUME NEW n \in Compiles, NEW d \in Deps[n]
    PROVE  d \in Nodes /\ d \in Reach[n] /\ Reach[d] \subseteq Reach[n]
<1>1. n \in Nodes /\ d \in Nodes
  BY DocumentDagAssumption DEF Nodes
<1>2. d \in Reach[n]
  BY <1>1, ReachSelf, ReachClosed DEF Closed
<1> QED BY <1>1, <1>2, ReachThrough

\* A chunk depends on nothing.
LEMMA ReachChunk == ASSUME NEW c \in Chunks PROVE Reach[c] = {c}
<1>1. c \in Nodes /\ {c} \in SUBSET Nodes /\ Closed({c})
  BY DocumentDagAssumption DEF Nodes, Closed
<1>2. Reach[c] \subseteq {c}
  BY <1>1, ReachLeast
<1> QED BY <1>1, <1>2, ReachSelf

\* What a compile node depends on is itself or below one of its dependencies.
LEMMA ReachStep ==
    ASSUME NEW n \in Compiles, NEW m \in Reach[n], m # n
    PROVE  \E d \in Deps[n] : m \in Reach[d]
<1> DEFINE S == {n} \cup UNION {Reach[d] : d \in Deps[n]}
<1>1. n \in Nodes /\ Deps[n] \subseteq Nodes
  BY DocumentDagAssumption DEF Nodes
<1>2. S \in SUBSET Nodes
  BY <1>1, ReachSelf
<1>3. ASSUME NEW k \in S \cap Compiles, NEW e \in Deps[k] PROVE e \in S
  <2>1. CASE k = n
    BY <2>1, <1>3, <1>1, ReachSelf
  <2>2. CASE \E d \in Deps[n] : k \in Reach[d]
    <3>1. PICK d \in Deps[n] : k \in Reach[d]
      BY <2>2
    <3>2. Closed(Reach[d])
      BY <1>1, ReachClosed
    <3>3. e \in Reach[d]
      BY <3>1, <3>2, <1>3 DEF Closed
    <3> QED BY <3>3
  <2> QED BY <2>1, <2>2, <1>3
<1>4. Closed(S)
  BY <1>3 DEF Closed
<1>5. Reach[n] \subseteq S
  <2> HIDE DEF S
  <2>1. n \in S
    BY DEF S
  <2> QED BY <2>1, <1>1, <1>2, <1>4, ReachLeast
<1> QED BY <1>5

\* A node that depends on a node of a branch is in the branch; the branch is above its node.
LEMMA BranchFacts ==
    ASSUME NEW n \in Compiles
    PROVE  /\ n \in Branch(n) /\ Branch(n) \subseteq Compiles
           /\ \A m \in Branch(n), k \in Compiles : m \in Reach[k] => k \in Branch(n)
<1>1. n \in Branch(n) /\ Branch(n) \subseteq Compiles
  BY ReachSelf DEF Branch, Nodes
<1>2. ASSUME NEW m \in Branch(n), NEW k \in Compiles, m \in Reach[k] PROVE k \in Branch(n)
  <2>1. n \in Reach[m] /\ k \in Nodes
    BY DEF Branch, Nodes
  <2>2. Reach[m] \subseteq Reach[k]
    BY <2>1, <1>2, ReachThrough
  <2> QED BY <2>1, <2>2 DEF Branch
<1> QED BY <1>1, <1>2

-----------------------------------------------------------------------------
(* Texts *)

\* The texts a node may have.
TextsOf(n) == [q : Qualities, from : SUBSET (Reach[n] \X Written)]

\* What each way to make a text returns.
LEMMA TextTypes ==
    ASSUME NEW n \in Nodes, NEW from \in SUBSET (Reach[n] \X Written)
    PROVE  /\ \A q \in Written : TextOf(n, q, from) \in TextsOf(n)
           /\ Stitch(n, from) \in TextsOf(n)
           /\ Compiled(n, from) \subseteq TextsOf(n)
           /\ NoText \in TextsOf(n)
<1>1. \A q \in Written : <<n, q>> \in Reach[n] \X Written
  BY ReachSelf
<1>2. ASSUME NEW q \in Written PROVE TextOf(n, q, from) \in TextsOf(n)
  BY <1>1 DEF TextOf, TextsOf, Written
<1>3. {"stitch", "notice", "weak", "good"} \subseteq Written
  BY DEF Written, Qualities
<1>4. Stitch(n, from) \in TextsOf(n)
  BY <1>2, <1>3 DEF Stitch
<1>5. Compiled(n, from) \subseteq TextsOf(n)
  BY <1>2, <1>3 DEF Compiled
<1>6. NoText \in TextsOf(n)
  BY DEF NoText, TextsOf, Qualities
<1> QED BY <1>2, <1>4, <1>5, <1>6

\* The text of a chunk.
LEMMA ChunkTextType ==
    ASSUME NEW c \in Chunks
    PROVE  /\ ChunkText(c) \in TextsOf(c)
           /\ ChunkText(c).q = "good" /\ ChunkText(c).from = {<<c, "good">>}
<1>1. c \in Nodes /\ {} \in SUBSET (Reach[c] \X Written) /\ "good" \in Written
  BY DEF Nodes, Written, Qualities
<1>2. ChunkText(c) \in TextsOf(c)
  BY <1>1, TextTypes DEF ChunkText
<1> QED BY <1>2 DEF ChunkText, TextOf

\* A text of a node is a text.
LEMMA TextsOfNode ==
    ASSUME NEW n \in Nodes
    PROVE  /\ SUBSET (Reach[n] \X Written) \subseteq Parts
           /\ \A t \in TextsOf(n) : /\ t \in [q : Qualities, from : Parts]
                                    /\ t.from \subseteq Reach[n] \X Written
<1>1. Reach[n] \subseteq Nodes
  BY ReachSelf
<1> QED BY <1>1 DEF TextsOf, Parts

\* NodesOK, with the types of the texts of each node.
LEMMA NodesTyped ==
    ASSUME NodesOK
    PROVE  /\ \A n \in Nodes : out[n] \in TextsOf(n)
           /\ \A n \in Compiles : input[n] \in SUBSET (Reach[n] \X Written)
BY DEF NodesOK, TextsOf, Parts

\* A node's texts are made of what its dependencies have.
LEMMA JoinedType ==
    ASSUME NodesOK, NEW n \in Compiles
    PROVE  /\ Joined(n) \in SUBSET (Reach[n] \X Written)
           /\ Refreshed(n) \in SUBSET (Reach[n] \X Written)
           /\ Sources(n) \in SUBSET (Reach[n] \X Written)
           /\ Settled(n) \in TextsOf(n)
<1>0. n \in Nodes
  BY DEF Nodes
<1>1. ASSUME NEW d \in Deps[n]
      PROVE  /\ out[d].from \subseteq Reach[n] \X Written
             /\ d \in Compiles => input[d] \subseteq Reach[n] \X Written
  <2>1. d \in Nodes /\ Reach[d] \subseteq Reach[n]
    BY ReachDirect
  <2>2. /\ out[d].from \subseteq Reach[d] \X Written
        /\ d \in Compiles => input[d] \subseteq Reach[d] \X Written
    BY <2>1, NodesTyped DEF NodesOK
  <2> QED BY <2>1, <2>2
<1>2. Joined(n) \in SUBSET (Reach[n] \X Written) /\ Sources(n) \in SUBSET (Reach[n] \X Written)
  BY <1>1 DEF Joined, Sources
<1>3. input[n] \in SUBSET (Reach[n] \X Written)
  BY NodesTyped
<1>4. Refreshed(n) \in SUBSET (Reach[n] \X Written)
  BY <1>2, <1>3 DEF Refreshed
<1>5. Stitch(n, input[n]) \in TextsOf(n) /\ out[n] \in TextsOf(n)
  BY <1>0, <1>3, TextTypes, NodesTyped
<1> QED BY <1>2, <1>4, <1>5 DEF Settled

-----------------------------------------------------------------------------
(* Types *)

Statuses == {"pending", "running", "completed", "failed", "retrying"}

\* What the nodes' part of the type invariant says of the texts.
OutOK == out \in [Nodes -> [q : Qualities, from : Parts]]
         /\ (\A n \in Nodes : out[n].from \subseteq Reach[n] \X Written)
         /\ succeeded \subseteq Finals

\* Writing a text, or stitching many.
LEMMA WriteType ==
    ASSUME NodesOK, NEW n \in Nodes, NEW t \in TextsOf(n), Writes(n, t)
    PROVE  OutOK' /\ out' = [out EXCEPT ![n] = t]
<1>1. t \in [q : Qualities, from : Parts] /\ t.from \subseteq Reach[n] \X Written
  BY TextsOfNode
<1>2. out \in [Nodes -> [q : Qualities, from : Parts]]
  BY DEF NodesOK
<1>3. succeeded' \subseteq Finals
  BY DEF Writes, NodesOK
<1>4. out' = [out EXCEPT ![n] = t]
  BY DEF Writes
<1>5. out' \in [Nodes -> [q : Qualities, from : Parts]]
  BY <1>1, <1>2, <1>4
<1>6. \A m \in Nodes : out'[m].from \subseteq Reach[m] \X Written
  BY <1>1, <1>2, <1>4 DEF NodesOK
<1> QED BY <1>3, <1>4, <1>5, <1>6 DEF OutOK

\* Texts kept, and texts chosen node by node.
LEMMA TextsType ==
    ASSUME NodesOK,
           \A n \in Nodes : out'[n] \in TextsOf(n),
           DOMAIN out' = Nodes, out' = [n \in Nodes |-> out'[n]],
           succeeded' = succeeded
    PROVE  OutOK'
<1>1. \A n \in Nodes : /\ out'[n] \in [q : Qualities, from : Parts]
                       /\ out'[n].from \subseteq Reach[n] \X Written
  BY TextsOfNode
<1>2. out' \in [Nodes -> [q : Qualities, from : Parts]]
  BY <1>1
<1> QED BY <1>1, <1>2 DEF OutOK, NodesOK

\* NodesOK from its parts.
LEMMA NodesParts ==
    /\ NodesOK => OutOK
    /\ /\ status' \in [Nodes -> Statuses] /\ OutOK' /\ input' \in [Compiles -> Parts]
       /\ \A n \in Compiles : input'[n] \subseteq Reach[n] \X Written
       /\ retries' \in [Compiles -> Nat] /\ weak' \in Seq(Compiles)
       => NodesOK'
BY DEF NodesOK, OutOK, Statuses

\* The step that marks a node, writes it or not, and changes no other field.
LEMMA MarkType ==
    ASSUME NodesOK, NEW n \in Nodes, NEW st \in Statuses, Marks(n, st), OutOK',
           UNCHANGED <<input, retries, weak>>
    PROVE  NodesOK'
<1>1. status' \in [Nodes -> Statuses]
  BY DEF NodesOK, Marks, Statuses
<1>2. /\ input' \in [Compiles -> Parts]
      /\ \A m \in Compiles : input'[m] \subseteq Reach[m] \X Written
      /\ retries' \in [Compiles -> Nat] /\ weak' \in Seq(Compiles)
  BY DEF NodesOK
<1> QED BY <1>1, <1>2, NodesParts

\* The environment's part of the type invariant.
EnvOK == late \in BOOLEAN /\ cancelled \subseteq Nodes /\ abandoned \in 0..Faults

\* DagTypeOK is its parts.
LEMMA TypeParts ==
    /\ DagTypeOK => NodesOK /\ RunsOK /\ PoolOK /\ LoopOK /\ EnvOK
    /\ NodesOK' /\ RunsOK' /\ PoolOK' /\ LoopOK' /\ EnvOK' => DagTypeOK'
BY DEF DagTypeOK, EnvOK

\* A variable that does not change keeps its part.
LEMMA PartsKept ==
    /\ LoopOK /\ UNCHANGED loopVars => LoopOK'
    /\ EnvOK /\ UNCHANGED envVars => EnvOK'
    /\ NodesOK /\ UNCHANGED nodeVars => NodesOK'
    /\ RunsOK /\ run' = run /\ batch' = batch => RunsOK'
    /\ PoolOK /\ UNCHANGED poolVars /\ phase' = phase => PoolOK'
<1>1. LoopOK /\ UNCHANGED loopVars => LoopOK'
  BY DEF LoopOK, loopVars, escVars, laps, repairVars
<1>2. EnvOK /\ UNCHANGED envVars => EnvOK'
  BY DEF EnvOK, envVars
<1>3. NodesOK /\ UNCHANGED nodeVars => NodesOK'
  BY DEF NodesOK, nodeVars
<1>4. RunsOK /\ run' = run /\ batch' = batch => RunsOK'
  BY DEF RunsOK
<1>5. PoolOK /\ UNCHANGED poolVars /\ phase' = phase => PoolOK'
  BY DEF PoolOK, poolVars
<1> QED BY <1>1, <1>2, <1>3, <1>4, <1>5

\* Settling a node takes it out of the batch, or counts a failed attempt.
LEMMA SettleType ==
    ASSUME PoolOK, NEW n \in batch, Refuse(n) \/ Accept(n), wave' = wave, phase' = phase
    PROVE  PoolOK' /\ batch' \subseteq batch /\ batch \ {n} \subseteq batch'
<1>1. /\ n \in Nodes /\ tries \in [Nodes -> Nat] /\ tries[n] < MaxTries(n)
      /\ batch \subseteq wave /\ wave \subseteq Nodes
  BY DEF PoolOK
<1>2. MaxTries(n) \in Nat
  BY DocumentDagAssumption DEF MaxTries
<1>3. phase \in {"map", "escalate", "wave"}
  BY DEF PoolOK
<1>4. CASE Accept(n)
  <2>1. batch' = batch \ {n} /\ tries' = tries
    BY <1>4 DEF Accept
  <2> QED BY <2>1, <1>1, <1>3 DEF PoolOK
<1>5. CASE Refuse(n)
  <2>1. /\ tries' = [tries EXCEPT ![n] = @ + 1]
        /\ batch' = batch \/ batch' = batch \ {n}
        /\ batch' = batch => tries[n] + 1 < MaxTries(n)
    BY <1>5 DEF Refuse
  <2>2. /\ tries' \in [Nodes -> Nat] /\ tries'[n] = tries[n] + 1
        /\ \A m \in Nodes \ {n} : tries'[m] = tries[m]
    BY <2>1, <1>1
  <2>3. \A m \in batch' : tries'[m] < MaxTries(m)
    BY <2>1, <2>2, <1>1 DEF PoolOK
  <2> QED BY <2>1, <2>2, <2>3, <1>1, <1>3 DEF PoolOK
<1> QED BY <1>4, <1>5

\* Settles is one or the other.
LEMMA SettlesOne ==
    ASSUME NEW n, NEW ok \in BOOLEAN, Settles(n, ok)
    PROVE  (Accept(n) \/ Refuse(n)) /\ (ok => Accept(n))
BY DEF Settles

\* An invocation ends and the pool is told.
LEMMA ReportType ==
    ASSUME DagTypeOK, NEW n \in Nodes, NEW s \in Slots, NEW ok \in BOOLEAN, Reports(n, s, ok)
    PROVE  /\ RunsOK' /\ PoolOK' /\ LoopOK' /\ EnvOK'
           /\ run' = [run EXCEPT ![n][s] = Idle]
           /\ batch' \subseteq batch /\ batch \ {n} \subseteq batch'
           /\ UNCHANGED <<wave, loopVars, envVars>>
           /\ run[n][s].live => n \in batch
           /\ ~run[n][s].live => batch' = batch
           /\ ok /\ run[n][s].live => n \notin batch'
<1>1. run' = [run EXCEPT ![n][s] = Idle] /\ UNCHANGED <<wave, loopVars, envVars>>
  BY DEF Reports, Ends
<1>2. LoopOK' /\ EnvOK' /\ phase' = phase
  BY <1>1, PartsKept, TypeParts DEF loopVars
<1>3. run[n][s].live => n \in batch
  BY DEF DagTypeOK, RunsOK
<1>4. /\ PoolOK' /\ batch' \subseteq batch /\ batch \ {n} \subseteq batch'
      /\ ~run[n][s].live => batch' = batch
      /\ ok /\ run[n][s].live => n \notin batch'
  <2>1. CASE run[n][s].live
    <3>1. Settles(n, ok)
      BY <2>1 DEF Reports
    <3>2. (Accept(n) \/ Refuse(n)) /\ (ok => Accept(n))
      BY <3>1, SettlesOne
    <3>3. PoolOK' /\ batch' \subseteq batch /\ batch \ {n} \subseteq batch'
      BY <3>2, <1>3, <2>1, <1>1, <1>2, SettleType DEF DagTypeOK
    <3> QED BY <3>2, <3>3, <2>1 DEF Accept
  <2>2. CASE ~run[n][s].live
    <3>1. UNCHANGED poolVars
      BY <2>2, <1>1 DEF Reports, poolVars
    <3> QED BY <3>1, <2>2, <1>2, PartsKept, TypeParts DEF poolVars
  <2> QED BY <2>1, <2>2
<1>5. RunsOK'
  <2>1. /\ Idle \in [pc : {"idle", "map", "escalate", "compile", "heavy"},
                     live : BOOLEAN, read : Parts]
        /\ Idle.live = FALSE /\ Idle.read = {}
    BY DEF Idle, Parts
  <2>2. RunsOK
    BY DEF DagTypeOK
  <2>3. run' \in [Nodes -> [Slots -> [pc : {"idle", "map", "escalate", "compile", "heavy"},
                                      live : BOOLEAN, read : Parts]]]
    BY <2>1, <2>2, <1>1 DEF RunsOK
  <2>4. run'[n][s] = Idle
    BY <2>2, <1>1 DEF RunsOK
  <2>5. \A m \in Nodes, r \in Slots : m # n \/ r # s => run'[m][r] = run[m][r]
    BY <2>2, <1>1 DEF RunsOK
  <2>6. ASSUME NEW m \in Nodes, NEW r \in Slots
        PROVE  /\ run'[m][r].read \subseteq Reach[m] \X Written
               /\ run'[m][r].live => run[m][r].live /\ m \in batch'
    <3>1. CASE m = n /\ r = s
      BY <3>1, <2>1, <2>4
    <3>2. CASE m # n \/ r # s
      <4>1. run'[m][r] = run[m][r]
        BY <3>2, <2>5
      <4>2. /\ run[m][r].read \subseteq Reach[m] \X Written
            /\ run[m][r].live => m \in batch
            /\ m = n /\ run[m][r].live /\ run[n][s].live => r = s
        BY <2>2 DEF RunsOK
      <4>3. run[m][r].live => m \in batch'
        BY <4>2, <1>4, <3>2
      <4> QED BY <4>1, <4>2, <4>3
    <3> QED BY <3>1, <3>2
  <2>7. \A m \in Nodes, r, k \in Slots : run'[m][r].live /\ run'[m][k].live => r = k
    BY <2>6, <2>2 DEF RunsOK
  <2> QED BY <2>3, <2>6, <2>7 DEF RunsOK
<1> QED BY <1>1, <1>2, <1>3, <1>4, <1>5

\* A node that is not started is settled without an invocation.
LEMMA SkipType ==
    ASSUME DagTypeOK, NEW n \in Nodes, NEW s \in Slots, NEW ok \in BOOLEAN,
           Pulls(n, s), Skips(n, ok)
    PROVE  /\ RunsOK' /\ PoolOK' /\ LoopOK' /\ EnvOK'
           /\ run' = run /\ batch' \subseteq batch /\ batch \ {n} \subseteq batch' /\ n \in batch
           /\ UNCHANGED <<wave, loopVars, envVars>>
           /\ ok => n \notin batch'
<1>1. n \in batch /\ \A r \in Slots : ~run[n][r].live
  BY DEF Pulls, Waited
<1>2. run' = run /\ UNCHANGED <<wave, loopVars, envVars>> /\ Settles(n, ok)
  BY DEF Skips
<1>3. LoopOK' /\ EnvOK' /\ phase' = phase
  BY <1>2, PartsKept, TypeParts DEF loopVars
<1>4. (Accept(n) \/ Refuse(n)) /\ (ok => Accept(n))
  BY <1>2, SettlesOne
<1>5. PoolOK' /\ batch' \subseteq batch /\ batch \ {n} \subseteq batch'
  BY <1>1, <1>2, <1>3, <1>4, SettleType DEF DagTypeOK
<1>6. RunsOK
  BY DEF DagTypeOK
<1>7. \A m \in Nodes, r \in Slots : run[m][r].live => m \in batch'
  BY <1>1, <1>5, <1>6 DEF RunsOK
<1>8. RunsOK'
  BY <1>2, <1>6, <1>7 DEF RunsOK
<1> QED BY <1>1, <1>2, <1>3, <1>4, <1>5, <1>8 DEF Accept

\* An invocation starts.
LEMMA WorkType ==
    ASSUME DagTypeOK, NEW n \in Nodes, NEW s \in Slots, Pulls(n, s), Started,
           NEW pc \in {"map", "escalate", "compile", "heavy"},
           NEW read \in SUBSET (Reach[n] \X Written), Works(n, s, pc, read)
    PROVE  /\ RunsOK' /\ PoolOK' /\ LoopOK' /\ EnvOK' /\ n \in batch
           /\ UNCHANGED <<poolVars, loopVars, envVars>>
           /\ run'[n][s] = [pc |-> pc, live |-> TRUE, read |-> read]
           /\ \A m \in Nodes, r \in Slots : m # n \/ r # s => run'[m][r] = run[m][r]
<1> DEFINE x == [pc |-> pc, live |-> TRUE, read |-> read]
<1>1. n \in batch /\ \A r \in Slots : ~run[n][r].live
  BY DEF Pulls, Waited
<1>2. UNCHANGED <<poolVars, loopVars, envVars>> /\ batch' = batch /\ phase' = phase
  BY DEF Started, poolVars, loopVars, envVars
<1>3. LoopOK' /\ EnvOK' /\ PoolOK'
  BY <1>2, PartsKept, TypeParts
<1>4. read \in Parts
  BY TextsOfNode
<1>5. /\ x \in [pc : {"idle", "map", "escalate", "compile", "heavy"}, live : BOOLEAN, read : Parts]
      /\ x.live /\ x.read = read
  BY <1>4
<1>6. run' = [run EXCEPT ![n][s] = x]
  BY DEF Works
<1> HIDE DEF x
<1>7. RunsOK
  BY DEF DagTypeOK
<1>8. run' \in [Nodes -> [Slots -> [pc : {"idle", "map", "escalate", "compile", "heavy"},
                                    live : BOOLEAN, read : Parts]]]
  BY <1>5, <1>6, <1>7 DEF RunsOK
<1>9. /\ run'[n][s] = x
      /\ \A m \in Nodes, r \in Slots : m # n \/ r # s => run'[m][r] = run[m][r]
  BY <1>6, <1>7 DEF RunsOK
<1>10. ASSUME NEW m \in Nodes, NEW r \in Slots
       PROVE  /\ run'[m][r].read \subseteq Reach[m] \X Written
              /\ run'[m][r].live => m \in batch'
              /\ run'[m][r].live => \/ m = n /\ r = s
                                    \/ m # n /\ run[m][r].live
  <2>1. CASE m = n /\ r = s
    BY <2>1, <1>9, <1>5, <1>1, <1>2
  <2>2. CASE m # n \/ r # s
    BY <2>2, <1>9, <1>1, <1>2, <1>7 DEF RunsOK
  <2> QED BY <2>1, <2>2
<1>11. \A m \in Nodes, r, k \in Slots : run'[m][r].live /\ run'[m][k].live => k = r
  <2> SUFFICES ASSUME NEW m \in Nodes, NEW r \in Slots, NEW k \in Slots,
                      run'[m][r].live, run'[m][k].live
               PROVE  k = r
    OBVIOUS
  <2>1. \/ m = n /\ r = s /\ k = s
        \/ m # n /\ run[m][r].live /\ run[m][k].live
    BY <1>10
  <2> QED BY <2>1, <1>7 DEF RunsOK
<1>12. RunsOK'
  BY <1>8, <1>10, <1>11 DEF RunsOK
<1>13. x = [pc |-> pc, live |-> TRUE, read |-> read]
  BY DEF x
<1> QED BY <1>1, <1>2, <1>3, <1>9, <1>12, <1>13

\* Chunks: started, ended, escalated.
LEMMA ChunkTypes ==
    ASSUME DagTypeOK, NEW c \in Chunks, NEW s \in Slots,
           StartMap(c, s) \/ EndMap(c, s) \/ StartEsc(c, s) \/ EndEsc(c, s)
    PROVE  DagTypeOK'
<1>0. /\ c \in Nodes /\ NodesOK /\ ChunkText(c) \in TextsOf(c)
      /\ {} \in SUBSET (Reach[c] \X Written)
  BY ChunkTextType DEF Nodes, DagTypeOK
<1>1. TextKept => OutOK'
  BY <1>0, NodesParts DEF TextKept, OutOK
<1>2. Writes(c, ChunkText(c)) => OutOK'
  BY <1>0, WriteType
<1>3. \A st \in Statuses : Marks(c, st) /\ OutOK' /\ UNCHANGED <<input, retries, weak>> => NodesOK'
  BY <1>0, MarkType
<1>4. \A ok \in BOOLEAN : /\ Pulls(c, s) /\ Skips(c, ok) => RunsOK' /\ PoolOK' /\ LoopOK' /\ EnvOK'
                          /\ Reports(c, s, ok) => RunsOK' /\ PoolOK' /\ LoopOK' /\ EnvOK'
  BY <1>0, SkipType, ReportType
<1>5. \A pc \in {"map", "escalate"} :
         Pulls(c, s) /\ Works(c, s, pc, {}) /\ Started => RunsOK' /\ PoolOK' /\ LoopOK' /\ EnvOK'
  BY <1>0, WorkType
<1>6. CASE StartMap(c, s)
  <2>1. /\ Pulls(c, s) /\ UNCHANGED <<input, retries, weak>>
        /\ \E st \in Statuses : Marks(c, st)
        /\ TextKept \/ Writes(c, ChunkText(c))
        /\ (\E ok \in BOOLEAN : Skips(c, ok)) \/ (Works(c, s, "map", {}) /\ Started)
    BY <1>6 DEF StartMap, Statuses
  <2> QED BY <2>1, <1>1, <1>2, <1>3, <1>4, <1>5, TypeParts
<1>7. CASE EndMap(c, s)
  <2>1. /\ UNCHANGED <<input, retries, weak>>
        /\ \E st \in Statuses : Marks(c, st)
        /\ TextKept \/ Writes(c, ChunkText(c))
        /\ \E ok \in BOOLEAN : Reports(c, s, ok)
    BY <1>7 DEF EndMap, Statuses
  <2> QED BY <2>1, <1>1, <1>2, <1>3, <1>4, TypeParts
<1>8. CASE StartEsc(c, s)
  <2>1. /\ Pulls(c, s) /\ UNCHANGED <<out, succeeded>> /\ UNCHANGED <<input, retries, weak>>
        /\ \E st \in Statuses : Marks(c, st)
        /\ (\E ok \in BOOLEAN : Skips(c, ok)) \/ (Works(c, s, "escalate", {}) /\ Started)
    BY <1>8 DEF StartEsc, Statuses
  <2>2. TextKept
    BY <2>1 DEF TextKept
  <2> QED BY <2>1, <2>2, <1>1, <1>3, <1>4, <1>5, TypeParts
<1>9. CASE EndEsc(c, s)
  <2>1. /\ UNCHANGED <<input, retries, weak>>
        /\ \E st \in Statuses : Marks(c, st)
        /\ TextKept \/ Writes(c, ChunkText(c))
        /\ \E ok \in BOOLEAN : Reports(c, s, ok)
    BY <1>9 DEF EndEsc, Statuses
  <2> QED BY <2>1, <1>1, <1>2, <1>3, <1>4, TypeParts
<1> QED BY <1>6, <1>7, <1>8, <1>9

\* A compile node is started.
LEMMA StartCompileType ==
    ASSUME DagTypeOK, NEW n \in Compiles, NEW s \in Slots, StartCompile(n, s)
    PROVE  DagTypeOK'
<1>0. n \in Nodes /\ NodesOK /\ Refreshed(n) \in SUBSET (Reach[n] \X Written)
  BY JoinedType DEF Nodes, DagTypeOK
<1>1. Pulls(n, s) /\ OutOK' /\ UNCHANGED <<retries, weak>> /\ retries' \in [Compiles -> Nat]
      /\ weak' \in Seq(Compiles)
  <2>1. Pulls(n, s) /\ UNCHANGED <<out, retries, weak, succeeded>>
    BY DEF StartCompile
  <2> QED BY <2>1, <1>0, NodesParts DEF OutOK, NodesOK
<1>2. CASE Marks(n, "failed") /\ Skips(n, FALSE) /\ UNCHANGED input
  <2>1. NodesOK'
    BY <1>0, <1>1, <1>2, MarkType DEF Statuses
  <2>2. RunsOK' /\ PoolOK' /\ LoopOK' /\ EnvOK'
    BY <1>0, <1>1, <1>2, SkipType
  <2> QED BY <2>1, <2>2, TypeParts
<1>3. CASE /\ Marks(n, "running") /\ input' = [input EXCEPT ![n] = Refreshed(n)]
           /\ Works(n, s, "compile", Refreshed(n)) /\ Started
  <2>1. status' \in [Nodes -> Statuses]
    BY <1>3, <1>0 DEF Marks, NodesOK, Statuses
  <2>2. /\ input' \in [Compiles -> Parts]
        /\ \A m \in Compiles : input'[m] \subseteq Reach[m] \X Written
    <3>1. Refreshed(n) \in Parts
      BY <1>0, TextsOfNode
    <3> QED BY <3>1, <1>0, <1>3 DEF NodesOK
  <2>3. NodesOK'
    BY <2>1, <2>2, <1>1, NodesParts
  <2>4. RunsOK' /\ PoolOK' /\ LoopOK' /\ EnvOK'
    BY <1>0, <1>1, <1>3, WorkType
  <2> QED BY <2>3, <2>4, TypeParts
<1> QED BY <1>2, <1>3 DEF StartCompile

\* It has a result.
LEMMA EndCompileType ==
    ASSUME DagTypeOK, NEW n \in Compiles, NEW s \in Slots, EndCompile(n, s)
    PROVE  DagTypeOK'
<1>0. n \in Nodes /\ NodesOK /\ run[n][s].read \in SUBSET (Reach[n] \X Written)
  BY DEF Nodes, DagTypeOK, RunsOK
<1>1. PICK t \in Compiled(n, run[n][s].read) : Writes(n, t) /\ (weak' = weak \/ weak' = Append(weak, n))
  BY DEF EndCompile
<1>2. t \in TextsOf(n)
  BY <1>0, TextTypes
<1>3. OutOK'
  BY <1>0, <1>1, <1>2, WriteType
<1>4. weak' \in Seq(Compiles)
  <2>1. weak \in Seq(Compiles)
    BY <1>0 DEF NodesOK
  <2> QED BY <2>1, <1>1
<1>5. Marks(n, "completed") /\ Reports(n, s, TRUE) /\ UNCHANGED <<input, retries>>
  BY DEF EndCompile
<1>6. status' \in [Nodes -> Statuses]
  BY <1>5, <1>0 DEF Marks, NodesOK, Statuses
<1>7. NodesOK'
  BY <1>0, <1>3, <1>4, <1>5, <1>6, NodesParts DEF NodesOK
<1>8. RunsOK' /\ PoolOK' /\ LoopOK' /\ EnvOK'
  BY <1>0, <1>5, ReportType
<1> QED BY <1>7, <1>8, TypeParts

\* It fails, and is tried once more or given up.
LEMMA FailCompileType ==
    ASSUME DagTypeOK, NEW n \in Compiles, NEW s \in Slots, FailCompile(n, s)
    PROVE  DagTypeOK'
<1>0. n \in Nodes /\ NodesOK /\ UNCHANGED <<out, input, weak, succeeded>>
  BY DEF Nodes, DagTypeOK, FailCompile
<1>1. OutOK'
  BY <1>0, NodesParts DEF OutOK
<1>2. retries' \in [Compiles -> Nat]
  <2>1. retries \in [Compiles -> Nat]
    BY <1>0 DEF NodesOK
  <2>2. retries' = retries \/ retries' = [retries EXCEPT ![n] = @ + 1]
    BY DEF FailCompile
  <2> QED BY <2>1, <2>2
<1>3. \E st \in Statuses : Marks(n, st)
  BY DEF FailCompile, Statuses
<1>4. status' \in [Nodes -> Statuses]
  BY <1>3, <1>0 DEF Marks, NodesOK, Statuses
<1>5. NodesOK'
  BY <1>0, <1>1, <1>2, <1>4, NodesParts DEF NodesOK
<1>6. CASE \E ok \in BOOLEAN : Reports(n, s, ok)
  BY <1>6, <1>0, <1>5, ReportType, TypeParts
<1>7. CASE /\ run' = [run EXCEPT ![n][s].pc = "heavy", ![n][s].read = input[n]]
           /\ Started
  <2> DEFINE x == [run[n][s] EXCEPT !.pc = "heavy", !.read = input[n]]
  <2>1. run' = [run EXCEPT ![n][s] = x]
    BY <1>7, <1>0 DEF DagTypeOK, RunsOK
  <2>2. /\ x \in [pc : {"idle", "map", "escalate", "compile", "heavy"}, live : BOOLEAN, read : Parts]
        /\ x.live = run[n][s].live /\ x.read \subseteq Reach[n] \X Written
    <3>1. run[n][s] \in [pc : {"idle", "map", "escalate", "compile", "heavy"}, live : BOOLEAN,
                         read : Parts]
      BY <1>0 DEF DagTypeOK, RunsOK
    <3>2. input[n] \in Parts /\ input[n] \subseteq Reach[n] \X Written
      BY <1>0 DEF NodesOK
    <3> QED BY <3>1, <3>2
  <2> HIDE DEF x
  <2>3. /\ run' \in [Nodes -> [Slots -> [pc : {"idle", "map", "escalate", "compile", "heavy"},
                                         live : BOOLEAN, read : Parts]]]
        /\ run'[n][s] = x
        /\ \A m \in Nodes, r \in Slots : m # n \/ r # s => run'[m][r] = run[m][r]
    BY <2>1, <2>2, <1>0 DEF DagTypeOK, RunsOK
  <2>4. UNCHANGED <<poolVars, loopVars, envVars>> /\ batch' = batch /\ phase' = phase
    BY <1>7 DEF Started, poolVars, loopVars, envVars
  <2>5. \A m \in Nodes, r \in Slots : /\ run'[m][r].live = run[m][r].live
                                      /\ run'[m][r].read \subseteq Reach[m] \X Written
    BY <2>2, <2>3 DEF DagTypeOK, RunsOK
  <2>6. RunsOK'
    BY <2>3, <2>4, <2>5 DEF DagTypeOK, RunsOK
  <2> QED BY <2>4, <2>6, <1>5, PartsKept, TypeParts
<1>8. \/ \E ok \in BOOLEAN : Reports(n, s, ok)
      \/ run' = [run EXCEPT ![n][s].pc = "heavy", ![n][s].read = input[n]] /\ Started
  BY DEF FailCompile
<1> QED BY <1>6, <1>7, <1>8

\* The second try has ended.
LEMMA EndHeavyType ==
    ASSUME DagTypeOK, NEW n \in Compiles, NEW s \in Slots, EndHeavy(n, s)
    PROVE  DagTypeOK'
<1>0. n \in Nodes /\ NodesOK /\ run[n][s].read \in SUBSET (Reach[n] \X Written)
  BY DEF Nodes, DagTypeOK, RunsOK
<1>1. OutOK'
  <2>1. CASE TextKept
    BY <2>1, <1>0, NodesParts DEF TextKept, OutOK
  <2>2. CASE \E t \in Compiled(n, run[n][s].read) : Writes(n, t)
    BY <2>2, <1>0, TextTypes, WriteType
  <2>3. TextKept \/ \E t \in Compiled(n, run[n][s].read) : Writes(n, t)
    BY DEF EndHeavy
  <2> QED BY <2>1, <2>2, <2>3
<1>2. /\ \E st \in Statuses : Marks(n, st)
      /\ \E ok \in BOOLEAN : Reports(n, s, ok)
      /\ UNCHANGED <<input, retries, weak>>
  BY DEF EndHeavy, Statuses
<1>3. NodesOK'
  BY <1>0, <1>1, <1>2, MarkType
<1> QED BY <1>0, <1>2, <1>3, ReportType, TypeParts

\* An invocation is abandoned.
LEMMA AbandonType ==
    ASSUME DagTypeOK, NEW n \in Nodes, NEW s \in Slots, Abandon(n, s)
    PROVE  /\ DagTypeOK' /\ abandoned' # 0 /\ batch' \subseteq batch
           /\ UNCHANGED <<nodeVars, loopVars>>
           /\ \A m \in Nodes, r \in Slots : run'[m][r].read = run[m][r].read
<1>0. /\ run[n][s].live /\ Troubles < Faults /\ abandoned' = abandoned + 1
      /\ run' = [run EXCEPT ![n][s].live = FALSE] /\ Refuse(n)
      /\ UNCHANGED <<nodeVars, wave, loopVars, late, cancelled>>
  BY DEF Abandon
<1>1. n \in batch /\ phase' = phase
  BY <1>0 DEF DagTypeOK, RunsOK, loopVars
<1>2. PoolOK' /\ batch' \subseteq batch /\ batch \ {n} \subseteq batch'
  BY <1>0, <1>1, SettleType DEF DagTypeOK
<1>3. EnvOK' /\ abandoned' # 0
  <2>1. IsFiniteSet(cancelled)
    BY DocumentDagAssumption, FS_Subset DEF DagTypeOK
  <2>2. Cardinality(cancelled) \in Nat
    BY <2>1, FS_CardinalityType
  <2> QED BY <2>2, <1>0, DocumentDagAssumption DEF DagTypeOK, EnvOK, Troubles
<1>4. NodesOK' /\ LoopOK'
  BY <1>0, PartsKept DEF DagTypeOK
<1> DEFINE x == [run[n][s] EXCEPT !.live = FALSE]
<1>5. run' = [run EXCEPT ![n][s] = x]
  BY <1>0 DEF DagTypeOK, RunsOK
<1>6. /\ x \in [pc : {"idle", "map", "escalate", "compile", "heavy"}, live : BOOLEAN, read : Parts]
      /\ x.live = FALSE /\ x.read = run[n][s].read
  <2>1. run[n][s] \in [pc : {"idle", "map", "escalate", "compile", "heavy"}, live : BOOLEAN,
                       read : Parts]
    BY DEF DagTypeOK, RunsOK
  <2> QED BY <2>1
<1> HIDE DEF x
<1>7. /\ run' \in [Nodes -> [Slots -> [pc : {"idle", "map", "escalate", "compile", "heavy"},
                                       live : BOOLEAN, read : Parts]]]
      /\ run'[n][s] = x
      /\ \A m \in Nodes, r \in Slots : m # n \/ r # s => run'[m][r] = run[m][r]
  BY <1>5, <1>6 DEF DagTypeOK, RunsOK
<1>8. \A m \in Nodes, r \in Slots :
         /\ run'[m][r].read = run[m][r].read
         /\ run'[m][r].live => run[m][r].live /\ (m = n => r # s)
  BY <1>6, <1>7
<1>9. \A m \in Nodes, r \in Slots : run'[m][r].live => m \in batch'
  <2> SUFFICES ASSUME NEW m \in Nodes, NEW r \in Slots, run'[m][r].live PROVE m \in batch'
    OBVIOUS
  <2>1. run[m][r].live /\ (m = n => r # s)
    BY <1>8
  <2>2. m \in batch /\ (m = n => r = s)
    BY <2>1, <1>0 DEF DagTypeOK, RunsOK
  <2> QED BY <2>1, <2>2, <1>2
<1>10. RunsOK'
  BY <1>7, <1>8, <1>9 DEF DagTypeOK, RunsOK
<1> QED BY <1>0, <1>2, <1>3, <1>4, <1>8, <1>10, TypeParts

\* While the pool has nothing left, no invocation is waited for.
LEMMA NoneWaited ==
    ASSUME DagTypeOK, batch = {}, run' = run
    PROVE  RunsOK' /\ \A n \in Nodes, s \in Slots : ~run[n][s].live
BY DEF DagTypeOK, RunsOK

\* The pool has returned: nothing is counted any more.
LEMMA ReturnsType ==
    ASSUME DagTypeOK, Returns, wave' = wave,
           phase' \notin {"map", "escalate", "wave"}
    PROVE  PoolOK'
BY DEF DagTypeOK, PoolOK, Returns

\* The pool is given nodes.
LEMMA OpensType ==
    ASSUME DagTypeOK, phase \notin {"map", "escalate", "wave"}, UNCHANGED tries,
           batch' = wave', wave' \subseteq Nodes,
           \/ phase' = "escalate" /\ wave' \subseteq Chunks
           \/ phase' = "wave" /\ wave' \subseteq Compiles
    PROVE  PoolOK'
<1>1. tries' = [n \in Nodes |-> 0]
  BY DEF DagTypeOK, PoolOK
<1>2. \A n \in Nodes : MaxTries(n) \in Nat /\ 0 < MaxTries(n)
  BY DocumentDagAssumption DEF MaxTries
<1> QED BY <1>1, <1>2 DEF PoolOK

\* The part of the calling thread before the waves.
LEMMA PlanningTypes ==
    ASSUME DagTypeOK, Heal \/ Escalate \/ Judge \/ Plan
    PROVE  DagTypeOK'
<1>0. NodesOK /\ Chunks \subseteq Nodes /\ Compiles \subseteq Nodes
  BY DEF DagTypeOK, Nodes
<1>1. CASE Heal
  <2>1. /\ phase = "map" /\ phase' = "judge" /\ Returns /\ batch' = batch /\ batch = {}
        /\ failed' \in SUBSET Chunks
        /\ UNCHANGED <<input, retries, weak, succeeded, wave, envVars, run, escs, laps,
                       repairVars, final>>
    BY <1>1 DEF Heal, Returns
  <2>2. /\ out' = [n \in Nodes |-> IF n \in Chunks /\ out[n] = NoText THEN ChunkText(n) ELSE out[n]]
        /\ status' = [n \in Nodes |-> IF n \in Chunks /\ out[n] = NoText THEN "completed"
                                      ELSE status[n]]
    BY <1>1 DEF Heal
  <2>3. \A n \in Nodes : out'[n] \in TextsOf(n)
    BY <2>2, <1>0, NodesTyped, ChunkTextType
  <2>4. OutOK'
    <3>1. out' = [n \in Nodes |-> out'[n]] /\ DOMAIN out' = Nodes
      BY <2>2
    <3> QED BY <3>1, <2>1, <2>3, <1>0, TextsType
  <2>5. status' \in [Nodes -> Statuses]
    BY <2>2, <1>0 DEF NodesOK, Statuses
  <2>6. NodesOK'
    BY <2>1, <2>4, <2>5, <1>0, NodesParts DEF NodesOK
  <2>7. RunsOK' /\ PoolOK'
    BY <2>1, NoneWaited, ReturnsType
  <2>8. LoopOK'
    BY <2>1 DEF DagTypeOK, LoopOK, laps, repairVars
  <2> QED BY <2>1, <2>6, <2>7, <2>8, TypeParts, PartsKept
<1>2. CASE Escalate
  <2>1. /\ phase = "judge" /\ phase' = "escalate" /\ escs < MaxEsc /\ escs' = escs + 1
        /\ UNCHANGED <<nodeVars, envVars, run, failed, laps, repairVars, final, tries>>
        /\ batch' = wave' /\ wave' \subseteq failed
    BY <1>2 DEF Escalate
  <2>2. wave' \subseteq Chunks /\ wave' \subseteq Nodes
    BY <2>1, <1>0 DEF DagTypeOK, LoopOK
  <2>3. PoolOK'
    BY <2>1, <2>2, OpensType
  <2>4. RunsOK'
    <3>1. batch = {}
      BY <2>1 DEF DagTypeOK, PoolOK
    <3> QED BY <3>1, <2>1, NoneWaited
  <2>5. LoopOK'
    BY <2>1, DocumentDagAssumption DEF DagTypeOK, LoopOK, laps, repairVars
  <2> QED BY <2>1, <2>3, <2>4, <2>5, TypeParts, PartsKept
<1>3. CASE Judge
  <2>1. /\ phase = "escalate" /\ phase' = "judge" /\ Returns /\ batch' = batch /\ batch = {}
        /\ failed' \subseteq wave
        /\ UNCHANGED <<nodeVars, wave, envVars, run, escs, laps, repairVars, final>>
    BY <1>3 DEF Judge, Returns
  <2>2. RunsOK' /\ PoolOK'
    BY <2>1, NoneWaited, ReturnsType
  <2>3. wave \subseteq Chunks
    BY <2>1 DEF DagTypeOK, PoolOK
  <2>4. LoopOK'
    BY <2>1, <2>3 DEF DagTypeOK, LoopOK, laps, repairVars
  <2> QED BY <2>1, <2>2, <2>4, TypeParts, PartsKept
<1>4. CASE Plan
  <2>1. /\ phase = "judge" /\ phase' = "waves" /\ failed' = {} /\ escs' = 0
        /\ UNCHANGED <<status, out, retries, weak, succeeded, poolVars, envVars, run, laps,
                       repairVars, final>>
        /\ input' = [n \in Compiles |-> IF n \in Blank THEN {}
                                        ELSE UNION {out[c].from : c \in Below(n)}]
    BY <1>4 DEF Plan
  <2>2. ASSUME NEW n \in Compiles PROVE input'[n] \subseteq Reach[n] \X Written
    <3>1. ASSUME NEW c \in Below(n) PROVE out[c].from \subseteq Reach[n] \X Written
      <4>1. n \in Nodes /\ c \in Nodes /\ c \in Reach[n]
        BY <1>0 DEF Below
      <4>2. Reach[c] \subseteq Reach[n]
        BY <4>1, ReachThrough
      <4> QED BY <4>1, <4>2, <1>0 DEF NodesOK
    <3> QED BY <3>1, <2>1
  <2>3. input' \in [Compiles -> Parts]
    <3>1. \A n \in Compiles : input'[n] \in Parts
      BY <2>2, <1>0, TextsOfNode
    <3> QED BY <3>1, <2>1
  <2>4. NodesOK'
    BY <2>1, <2>2, <2>3, <1>0, NodesParts DEF NodesOK, OutOK, Statuses
  <2>5. RunsOK' /\ PoolOK'
    BY <2>1 DEF DagTypeOK, RunsOK, PoolOK, poolVars
  <2>6. LoopOK'
    BY <2>1, DocumentDagAssumption DEF DagTypeOK, LoopOK, laps, repairVars
  <2> QED BY <2>1, <2>4, <2>5, <2>6, TypeParts, PartsKept
<1> QED BY <1>1, <1>2, <1>3, <1>4

\* The waves.
LEMMA WaveTypes ==
    ASSUME DagTypeOK, OpenWave \/ CloseWave \/ NextDepth \/ NextPass
    PROVE  DagTypeOK'
<1>0. NodesOK /\ Chunks \subseteq Nodes /\ Compiles \subseteq Nodes
  BY DEF DagTypeOK, Nodes
<1>1. CASE OpenWave
  <2>1. /\ phase = "waves" /\ phase' = "wave" /\ ReadyNow # {}
        /\ wave' = ReadyNow /\ batch' = ReadyNow /\ ran' = TRUE
        /\ UNCHANGED <<nodeVars, envVars, run, escVars, depth, pass, repairVars, final, tries>>
    BY <1>1 DEF OpenWave
  <2>2. ReadyNow \subseteq Compiles /\ depth <= MaxDepth
    BY <2>1, DocumentDagAssumption DEF ReadyNow
  <2>3. PoolOK'
    BY <2>1, <2>2, <1>0, OpensType
  <2>4. RunsOK'
    <3>1. batch = {}
      BY <2>1 DEF DagTypeOK, PoolOK
    <3> QED BY <3>1, <2>1, NoneWaited
  <2>5. LoopOK'
    BY <2>1, <2>2 DEF DagTypeOK, LoopOK, escVars, repairVars
  <2> QED BY <2>1, <2>3, <2>4, <2>5, TypeParts, PartsKept
<1>2. CASE CloseWave
  <2>1. /\ phase = "wave" /\ phase' = "waves" /\ Returns /\ batch' = batch /\ batch = {}
        /\ depth' = depth + 1
        /\ UNCHANGED <<input, retries, weak, succeeded, wave, envVars, run, escVars, pass, ran,
                       repairVars, final>>
    BY <1>2 DEF CloseWave, Returns
  <2>2. wave \subseteq Compiles
    BY <2>1 DEF DagTypeOK, PoolOK
  <2> DEFINE left == {n \in wave : status[n] # "pending"}
             lost == {n \in left : status[n] # "completed" \/ Empty(n)}
  <2>3. /\ out' = [n \in Nodes |-> IF n \in lost THEN Settled(n) ELSE out[n]]
        /\ status' = [n \in Nodes |-> IF n \in left THEN "completed" ELSE status[n]]
    BY <1>2 DEF CloseWave
  <2>4. \A n \in Nodes : out'[n] \in TextsOf(n)
    BY <2>2, <2>3, <1>0, NodesTyped, JoinedType
  <2>5. OutOK'
    <3>1. out' = [n \in Nodes |-> out'[n]] /\ DOMAIN out' = Nodes
      BY <2>3
    <3> QED BY <3>1, <2>1, <2>4, <1>0, TextsType
  <2>6. status' \in [Nodes -> Statuses]
    BY <2>3, <1>0 DEF NodesOK, Statuses
  <2>7. NodesOK'
    BY <2>1, <2>5, <2>6, <1>0, NodesParts DEF NodesOK
  <2>8. RunsOK' /\ PoolOK'
    BY <2>1, NoneWaited, ReturnsType
  <2>9. LoopOK'
    BY <2>1, DocumentDagAssumption DEF DagTypeOK, LoopOK, escVars, repairVars
  <2> QED BY <2>1, <2>7, <2>8, <2>9, TypeParts, PartsKept
<1>3. CASE NextDepth \/ NextPass
  <2>1. /\ phase = "waves" /\ phase' \in {"waves", "sweep"}
        /\ UNCHANGED <<nodeVars, poolVars, envVars, run, escVars, repairVars, final>>
    BY <1>3 DEF NextDepth, NextPass
  <2>2. /\ depth' \in 1..MaxDepth + 1 /\ pass' \in 1..MaxPasses /\ ran' \in BOOLEAN
    <3>1. /\ depth \in 1..MaxDepth + 1 /\ pass \in 1..MaxPasses /\ ran \in BOOLEAN
          /\ MaxDepth \in Nat \ {0} /\ MaxPasses \in Nat
      BY DocumentDagAssumption DEF DagTypeOK, LoopOK
    <3>2. CASE NextDepth
      <4>1. depth <= MaxDepth /\ depth' = depth + 1 /\ pass' = pass /\ ran' = ran
        BY <3>2 DEF NextDepth
      <4> QED BY <4>1, <3>1
    <3>3. CASE NextPass
      <4>1. \/ pass < MaxPasses /\ pass' = pass + 1 /\ depth' = 1 /\ ran' = FALSE
            \/ pass' = pass /\ depth' = depth /\ ran' = ran
        BY <3>3 DEF NextPass
      <4>2. ran' \in BOOLEAN
        BY <4>1, <3>1
      <4>3. pass' \in 1..MaxPasses /\ depth' \in 1..MaxDepth + 1
        BY <4>1, <3>1
      <4> QED BY <4>2, <4>3
    <3> QED BY <1>3, <3>2, <3>3
  <2>3. RunsOK' /\ PoolOK'
    BY <2>1 DEF DagTypeOK, RunsOK, PoolOK, poolVars
  <2>4. LoopOK'
    BY <2>1, <2>2 DEF DagTypeOK, LoopOK, escVars, repairVars
  <2> QED BY <2>1, <2>3, <2>4, TypeParts, PartsKept
<1> QED BY <1>1, <1>2, <1>3

\* What Sweep does to the nodes and to the repair tasks.
LEMMA SweepType ==
    ASSUME DagTypeOK, Sweep
    PROVE  DagTypeOK'
<1>0. NodesOK /\ Compiles \subseteq Nodes
  BY DEF DagTypeOK, Nodes
<1>1. /\ phase = "sweep" /\ phase' = "repair" /\ weak' = <<>>
      /\ UNCHANGED <<input, retries, succeeded, poolVars, envVars, run, escVars, laps, path,
                     mending, final>>
      /\ todo' \in {q \in [1..Cardinality(Firsts) -> Firsts] : RepairTasks(q)}
  BY DEF Sweep
<1> DEFINE lost == {n \in Compiles : ~Durable(out[n]) /\ status[n] # "completed" /\ Empty(n)}
<1>2. /\ out' = [n \in Nodes |-> IF n \in lost THEN Stitch(n, input[n]) ELSE out[n]]
      /\ status' = [n \in Nodes |-> IF n \in lost \/ (n \in Compiles /\ Durable(out[n]))
                                    THEN "completed" ELSE status[n]]
  BY DEF Sweep
<1>3. \A n \in Nodes : out'[n] \in TextsOf(n)
  BY <1>2, <1>0, NodesTyped, TextTypes
<1>4. OutOK'
  <2>1. out' = [n \in Nodes |-> out'[n]] /\ DOMAIN out' = Nodes
    BY <1>2
  <2> QED BY <2>1, <1>1, <1>3, <1>0, TextsType
<1>5. status' \in [Nodes -> Statuses]
  BY <1>2, <1>0 DEF NodesOK, Statuses
<1>6. NodesOK'
  <2>1. weak' \in Seq(Compiles)
    BY <1>1
  <2> QED BY <2>1, <1>1, <1>4, <1>5, <1>0, NodesParts DEF NodesOK
<1>7. todo' \in Seq(Compiles)
  <2>1. Firsts \subseteq Compiles
    <3>1. weak \in Seq(Compiles)
      BY <1>0 DEF NodesOK
    <3>2. MaxRepairs \in Nat /\ Len(weak) \in Nat
      BY <3>1, DocumentDagAssumption
    <3>3. \A i \in 1..IF Len(weak) < MaxRepairs THEN Len(weak) ELSE MaxRepairs : weak[i] \in Compiles
      BY <3>1, <3>2
    <3> QED BY <3>3 DEF Firsts
  <2>2. Cardinality(Firsts) \in Nat
    <3>1. IsFiniteSet(Firsts)
      BY <2>1, <1>0, DocumentDagAssumption, FS_Subset
    <3> QED BY <3>1, FS_CardinalityType
  <2>3. todo' \in [1..Cardinality(Firsts) -> Compiles]
    BY <1>1, <2>1
  <2> QED BY <2>2, <2>3
<1>8. RunsOK' /\ PoolOK'
  BY <1>1 DEF DagTypeOK, RunsOK, PoolOK, poolVars
<1>9. LoopOK'
  BY <1>1, <1>7 DEF DagTypeOK, LoopOK, escVars, laps
<1> QED BY <1>1, <1>6, <1>8, <1>9, TypeParts, PartsKept

\* A branch is cleared.
LEMMA ClearType ==
    ASSUME DagTypeOK, ClearBranch
    PROVE  DagTypeOK' /\ Head(todo) \in Compiles /\ path' = Branch(Head(todo))
<1>0. NodesOK /\ Compiles \subseteq Nodes
  BY DEF DagTypeOK, Nodes
<1>1. /\ phase = "repair" /\ phase' = phase /\ todo # <<>> /\ path' = Branch(Head(todo)) /\ todo' = Tail(todo)
      /\ UNCHANGED <<input, weak, succeeded, poolVars, envVars, run, escVars, laps, mending, final>>
      /\ status' = [n \in Nodes |-> IF n \in path' THEN "pending" ELSE status[n]]
      /\ out' = [n \in Nodes |-> IF n \in path' THEN NoText ELSE out[n]]
      /\ retries' = [n \in Compiles |-> IF n \in path' THEN 0 ELSE retries[n]]
  BY DEF ClearBranch
<1>2. todo \in Seq(Compiles)
  BY DEF DagTypeOK, LoopOK
<1>3. Head(todo) \in Compiles /\ todo' \in Seq(Compiles)
  BY <1>1, <1>2
<1>4. path' \subseteq Compiles
  BY <1>1, <1>3, BranchFacts
<1>5. \A n \in Nodes : out'[n] \in TextsOf(n)
  BY <1>1, <1>0, NodesTyped, TextTypes
<1>6. OutOK'
  <2>1. out' = [n \in Nodes |-> out'[n]] /\ DOMAIN out' = Nodes
    BY <1>1
  <2> QED BY <2>1, <1>1, <1>5, <1>0, TextsType
<1>7. status' \in [Nodes -> Statuses] /\ retries' \in [Compiles -> Nat]
  BY <1>1, <1>0 DEF NodesOK, Statuses
<1>8. NodesOK'
  BY <1>1, <1>6, <1>7, <1>0, NodesParts DEF NodesOK
<1>9. RunsOK' /\ PoolOK'
  BY <1>1 DEF DagTypeOK, RunsOK, PoolOK, poolVars
<1>10. LoopOK'
  BY <1>1, <1>3, <1>4 DEF DagTypeOK, LoopOK, escVars, laps
<1> QED BY <1>1, <1>3, <1>8, <1>9, <1>10, TypeParts, PartsKept

\* A node of the branch is recomputed.
LEMMA MendTypes ==
    ASSUME DagTypeOK, StartRepair \/ EndRepair
    PROVE  DagTypeOK'
<1>0. NodesOK /\ Compiles \subseteq Nodes
  BY DEF DagTypeOK, Nodes
<1>1. CASE StartRepair
  <2>1. PICK n \in path : /\ Deps[n] \cap path = {} /\ Marks(n, "running") /\ mending' = {n}
                          /\ input' = [input EXCEPT ![n] = Sources(n)]
    BY <1>1 DEF StartRepair
  <2>2. /\ phase = "repair" /\ phase' = "recompute"
        /\ UNCHANGED <<out, retries, weak, succeeded, poolVars, envVars, run, escVars, laps, todo,
                       path, final>>
    BY <1>1 DEF StartRepair
  <2>3. n \in Compiles /\ n \in Nodes
    BY <1>0 DEF DagTypeOK, LoopOK
  <2>4. Sources(n) \in Parts /\ Sources(n) \subseteq Reach[n] \X Written
    BY <2>3, <1>0, JoinedType, TextsOfNode
  <2>5. input' \in [Compiles -> Parts] /\ \A m \in Compiles : input'[m] \subseteq Reach[m] \X Written
    BY <2>1, <2>3, <2>4, <1>0 DEF NodesOK
  <2>6. status' \in [Nodes -> Statuses]
    BY <2>1, <1>0 DEF Marks, NodesOK, Statuses
  <2>7. NodesOK'
    BY <2>2, <2>5, <2>6, <1>0, NodesParts DEF NodesOK, OutOK
  <2>8. RunsOK' /\ PoolOK'
    BY <2>2 DEF DagTypeOK, RunsOK, PoolOK, poolVars
  <2>9. LoopOK'
    BY <2>1, <2>2 DEF DagTypeOK, LoopOK, escVars, laps
  <2> QED BY <2>2, <2>7, <2>8, <2>9, TypeParts, PartsKept
<1>2. CASE EndRepair
  <2>1. PICK n \in mending : /\ \/ \E t \in Compiled(n, input[n]) : Writes(n, t)
                                \/ Writes(n, Settled(n))
                             /\ Marks(n, "completed")
    BY <1>2 DEF EndRepair
  <2>2. /\ phase = "recompute" /\ phase' = "repair" /\ path' = path \ mending /\ mending' = {}
        /\ UNCHANGED <<input, retries, weak, poolVars, envVars, run, escVars, laps, todo, final>>
    BY <1>2 DEF EndRepair
  <2>3. n \in Compiles /\ n \in Nodes
    BY <2>1, <2>2, <1>0 DEF DagTypeOK, LoopOK
  <2>4. OutOK'
    <3>1. Compiled(n, input[n]) \subseteq TextsOf(n) /\ Settled(n) \in TextsOf(n)
      BY <2>3, <1>0, JoinedType, TextTypes, NodesTyped
    <3> QED BY <3>1, <2>1, <2>3, <1>0, WriteType
  <2>5. NodesOK'
    BY <2>1, <2>2, <2>3, <2>4, <1>0, MarkType DEF Statuses
  <2>6. RunsOK' /\ PoolOK'
    BY <2>2 DEF DagTypeOK, RunsOK, PoolOK, poolVars
  <2>7. LoopOK'
    BY <2>2 DEF DagTypeOK, LoopOK, escVars, laps
  <2> QED BY <2>2, <2>5, <2>6, <2>7, TypeParts, PartsKept
<1> QED BY <1>1, <1>2

\* The summary of the document is a text.
LEMMA SummaryType ==
    ASSUME NodesOK
    PROVE  Summary \subseteq [q : Qualities, from : Parts]
<1>0. \A n \in Nodes : out[n] \in [q : Qualities, from : Parts]
  BY DEF NodesOK
<1>1. Chunks \subseteq Nodes /\ Compiles \subseteq Nodes
  BY DEF Nodes
<1>2. FinalNodes \subseteq Nodes
  BY <1>1, DocumentDagAssumption DEF FinalNodes, Completed
<1>3. \A set \in SUBSET Nodes : FromAll(set) \in Parts
  BY <1>0 DEF FromAll, Parts
<1>4. UNION {out[c].from : c \in Chunks} \in Parts
  BY <1>0, <1>1 DEF Parts
<1>5. {"stitch", "good"} \subseteq Qualities
  BY DEF Qualities
<1> DEFINE durable == {n \in FinalNodes : Durable(out[n])}
<1>6. /\ \A n \in FinalNodes : out[n] \in [q : Qualities, from : Parts]
      /\ durable \in SUBSET Nodes /\ FinalNodes \in SUBSET Nodes
  BY <1>0, <1>2
<1>7. /\ [q |-> "good", from |-> FromAll(durable)] \in [q : Qualities, from : Parts]
      /\ [q |-> "stitch", from |-> FromAll(FinalNodes)] \in [q : Qualities, from : Parts]
      /\ \A q \in {"stitch", "good"} :
            [q |-> q, from |-> UNION {out[c].from : c \in Chunks}] \in [q : Qualities, from : Parts]
  BY <1>3, <1>4, <1>5, <1>6
<1>8. \/ Summary = {out[n] : n \in durable}
      \/ Summary = {out[n] : n \in FinalNodes}
      \/ Summary = {out[n] : n \in durable} \cup {[q |-> "good", from |-> FromAll(durable)]}
      \/ Summary = {[q |-> "stitch", from |-> FromAll(FinalNodes)]}
      \/ Summary = {[q |-> q, from |-> UNION {out[c].from : c \in Chunks}] : q \in {"stitch", "good"}}
  BY Zenon DEF Summary
<1>9. \A n \in durable : n \in FinalNodes
  OBVIOUS
<1> HIDE DEF durable
<1>10. {out[n] : n \in durable} \subseteq [q : Qualities, from : Parts]
  BY <1>6, <1>9
<1>11. {out[n] : n \in FinalNodes} \subseteq [q : Qualities, from : Parts]
  BY <1>6
<1>12. {[q |-> q, from |-> UNION {out[c].from : c \in Chunks}] : q \in {"stitch", "good"}}
          \subseteq [q : Qualities, from : Parts]
  BY <1>7
<1> QED BY <1>7, <1>8, <1>10, <1>11, <1>12

\* The summary is delivered.
LEMMA DeliverType ==
    ASSUME DagTypeOK, Deliver
    PROVE  DagTypeOK'
<1>1. /\ phase = "repair" /\ phase' = "done" /\ path = {} /\ final' \in Summary
      /\ UNCHANGED <<nodeVars, poolVars, envVars, run, escVars, laps, repairVars>>
  BY DEF Deliver
<1>2. final' \in [q : Qualities, from : Parts]
  BY <1>1, SummaryType DEF DagTypeOK
<1>3. RunsOK' /\ PoolOK'
  BY <1>1 DEF DagTypeOK, RunsOK, PoolOK, poolVars
<1>4. LoopOK'
  BY <1>1, <1>2 DEF DagTypeOK, LoopOK, escVars, laps, repairVars
<1> QED BY <1>1, <1>3, <1>4, TypeParts, PartsKept

\* Time passes, a node is cancelled, nothing happens.
LEMMA OutsideTypes ==
    ASSUME DagTypeOK, CeilingNears \/ (\E n \in Nodes : CancelNode(n)) \/ UNCHANGED vars
    PROVE  /\ DagTypeOK' /\ UNCHANGED <<nodeVars, poolVars, loopVars, run>>
           /\ abandoned' = abandoned
<1>1. UNCHANGED <<nodeVars, poolVars, loopVars, run>> /\ abandoned' = abandoned
  BY DEF CeilingNears, CancelNode, vars, envVars
<1>2. EnvOK'
  BY DEF CeilingNears, CancelNode, vars, envVars, EnvOK, DagTypeOK
<1>3. RunsOK' /\ PoolOK'
  BY <1>1 DEF DagTypeOK, RunsOK, PoolOK, poolVars, loopVars
<1> QED BY <1>1, <1>2, <1>3, TypeParts, PartsKept

\* Every step is one of the steps above.
LEMMA StepCases ==
    ASSUME [Next]_vars
    PROVE  \/ \E c \in Chunks, s \in Slots :
                 StartMap(c, s) \/ EndMap(c, s) \/ StartEsc(c, s) \/ EndEsc(c, s)
           \/ \E n \in Compiles, s \in Slots : StartCompile(n, s)
           \/ \E n \in Compiles, s \in Slots : EndCompile(n, s)
           \/ \E n \in Compiles, s \in Slots : FailCompile(n, s)
           \/ \E n \in Compiles, s \in Slots : EndHeavy(n, s)
           \/ \E n \in Nodes, s \in Slots : Abandon(n, s)
           \/ Heal \/ Escalate \/ Judge \/ Plan
           \/ OpenWave \/ CloseWave \/ NextDepth \/ NextPass
           \/ Sweep \/ ClearBranch \/ StartRepair \/ EndRepair \/ Deliver
           \/ CeilingNears \/ (\E n \in Nodes : CancelNode(n)) \/ UNCHANGED vars
<1>1. ASSUME NEW n \in Nodes, NEW s \in Slots, Begins(n, s)
      PROVE  \/ n \in Chunks /\ (StartMap(n, s) \/ StartEsc(n, s))
             \/ n \in Compiles /\ StartCompile(n, s)
  BY <1>1 DEF Begins, StartCompile
<1>2. ASSUME NEW n \in Nodes, NEW s \in Slots, Finishes(n, s)
      PROVE  \/ n \in Chunks /\ (EndMap(n, s) \/ EndEsc(n, s))
             \/ n \in Compiles /\ (EndCompile(n, s) \/ FailCompile(n, s) \/ EndHeavy(n, s))
  BY <1>2 DEF Finishes
<1> QED BY <1>1, <1>2 DEF Next, Scheduler, Stopped

\* The initial state has its types.
LEMMA InitTypes == Init => DagTypeOK
<1> SUFFICES ASSUME Init PROVE DagTypeOK
  OBVIOUS
<1>1. /\ NoText \in [q : Qualities, from : Parts] /\ NoText.from = {}
      /\ {} \in Parts
  BY DEF NoText, Qualities, Parts
<1>2. NodesOK
  BY <1>1 DEF Init, NodesOK
<1>3. /\ Idle \in [pc : {"idle", "map", "escalate", "compile", "heavy"},
                   live : BOOLEAN, read : Parts]
      /\ Idle.live = FALSE /\ Idle.read = {}
  BY <1>1 DEF Idle
<1>4. /\ run \in [Nodes -> [Slots -> [pc : {"idle", "map", "escalate", "compile", "heavy"},
                                      live : BOOLEAN, read : Parts]]]
      /\ \A n \in Nodes, s \in Slots : run[n][s] = Idle
  BY <1>3 DEF Init
<1>5. RunsOK
  BY <1>3, <1>4 DEF RunsOK
<1>6. PoolOK
  BY DocumentDagAssumption DEF Init, PoolOK, MaxTries, Nodes
<1>7. LoopOK
  <2>1. /\ phase = "map" /\ failed = {} /\ escs = 0 /\ depth = 1 /\ pass = 1 /\ ran = FALSE
        /\ todo = <<>> /\ path = {} /\ mending = {} /\ final = NoText
    BY DEF Init
  <2>2. 0 \in 0..MaxEsc /\ 1 \in 1..MaxDepth + 1 /\ 1 \in 1..MaxPasses
    BY DocumentDagAssumption
  <2>3. ran \in BOOLEAN
    BY <2>1
  <2>4. todo \in Seq(Compiles)
    BY <2>1
  <2> QED BY <1>1, <2>1, <2>2, <2>3, <2>4 DEF LoopOK
<1> QED BY <1>2, <1>5, <1>6, <1>7, DocumentDagAssumption DEF Init, DagTypeOK

\* Every step keeps the types.
LEMMA StepTypes == ASSUME DagTypeOK, [Next]_vars PROVE DagTypeOK'
BY StepCases, ChunkTypes, StartCompileType, EndCompileType, FailCompileType, EndHeavyType,
   AbandonType, PlanningTypes, WaveTypes, SweepType, ClearType, MendTypes, DeliverType,
   OutsideTypes

\* The variables keep their types: in particular no node is tried more often than it may
\* be, the pool waits for at most one invocation of a node and only while it has not
\* settled it, and a text is made of texts of what its node depends on.
THEOREM DagTypesCorrect == Spec => []DagTypeOK
BY InitTypes, StepTypes, PTL DEF Spec

-----------------------------------------------------------------------------
(* Nothing is dropped *)

\* What is said of a node is made of all chunks below it, or says that content is missing.
Covers(f, n) ==
    \/ \E m \in Nodes : <<m, "notice">> \in f
    \/ \A c \in Below(n) : \E q \in Qualities : <<c, q>> \in f

Repairing(p) == p \in {"repair", "recompute", "done"}

\* Every chunk has its text once the map is over.
ChunksTold == \A c \in Chunks : out[c] = ChunkText(c) \/ (phase = "map" /\ Empty(c))

\* No text, input or invocation of a compile node loses a part of what is below it.
TextsWhole ==
    \A n \in Compiles :
       /\ Empty(n) \/ Covers(out[n].from, n)
       /\ input[n] = {} \/ Covers(input[n], n)
       /\ \A s \in Slots : run[n][s].read = {} \/ Covers(run[n][s].read, n)

\* A completed node has a text; a node is compiled from nodes that have one; and after
\* the waves only a cleared branch has none.
TextsThere ==
    /\ \A n \in Compiles : status[n] = "completed" => ~Empty(n)
    /\ phase = "wave" => \A n \in batch : \A d \in Deps[n] : ~Empty(d)
    /\ Repairing(phase) => \A n \in Compiles : Empty(n) => n \in path

Coverage == ChunksTold /\ TextsWhole /\ TextsThere

\* A new text of a node covers it when what it is made of does, and it is a text.
LEMMA NewTextCovers ==
    ASSUME NEW n \in Compiles, NEW from, from = {} \/ Covers(from, n)
    PROVE  /\ \A t \in Compiled(n, from) : Covers(t.from, n) /\ t # NoText
           /\ Covers(Stitch(n, from).from, n) /\ Stitch(n, from) # NoText
<1>0. n \in Nodes
  BY DEF Nodes
<1>1. ASSUME NEW q \in {"stitch", "notice", "weak", "good"}, from # {} \/ q = "notice"
      PROVE  Covers(TextOf(n, q, from).from, n) /\ TextOf(n, q, from) # NoText
  <2>1. TextOf(n, q, from).from = from \cup {<<n, q>>} /\ TextOf(n, q, from).q = q
    BY DEF TextOf
  <2>2. TextOf(n, q, from) # NoText
    BY <2>1 DEF NoText
  <2>3. Covers(from \cup {<<n, q>>}, n)
    BY <1>0, <1>1 DEF Covers
  <2> QED BY <2>1, <2>2, <2>3
<1>2. Covers(Stitch(n, from).from, n) /\ Stitch(n, from) # NoText
  BY <1>1 DEF Stitch
<1>3. ASSUME NEW t \in Compiled(n, from) PROVE Covers(t.from, n) /\ t # NoText
  <2>1. PICK q \in IF from = {} THEN {"notice"} ELSE {"stitch", "weak", "good"} :
             t = TextOf(n, q, from)
    BY DEF Compiled
  <2>2. q \in {"stitch", "notice", "weak", "good"} /\ (from # {} \/ q = "notice")
    BY <2>1
  <2> QED BY <2>1, <2>2, <1>1
<1> QED BY <1>2, <1>3

\* What is joined from all dependencies of a node covers the node.
LEMMA JoinCovers ==
    ASSUME NEW n \in Compiles, NEW F,
           \A d \in Deps[n] : \/ d \in Chunks /\ <<d, "good">> \in F[d]
                              \/ d \in Compiles /\ Covers(F[d], d)
    PROVE  Covers(UNION {F[d] : d \in Deps[n]}, n)
<1> DEFINE all == UNION {F[d] : d \in Deps[n]}
<1>1. CASE \E d \in Deps[n], m \in Nodes : <<m, "notice">> \in F[d]
  BY <1>1 DEF Covers
<1>2. CASE ~ \E d \in Deps[n], m \in Nodes : <<m, "notice">> \in F[d]
  <2>1. ASSUME NEW c \in Below(n) PROVE \E q \in Qualities : <<c, q>> \in all
    <3>1. c \in Reach[n] /\ c \in Chunks /\ c # n
      BY DocumentDagAssumption DEF Below
    <3>2. PICK d \in Deps[n] : c \in Reach[d]
      BY <3>1, ReachStep
    <3>3. CASE d \in Chunks /\ <<d, "good">> \in F[d]
      <4>1. c = d
        BY <3>2, <3>3, ReachChunk
      <4> QED BY <4>1, <3>3 DEF Qualities
    <3>4. CASE d \in Compiles /\ Covers(F[d], d)
      <4>1. c \in Below(d)
        BY <3>1, <3>2 DEF Below
      <4>2. \E q \in Qualities : <<c, q>> \in F[d]
        BY <4>1, <3>4, <1>2 DEF Covers
      <4> QED BY <4>2
    <3> QED BY <3>3, <3>4
  <2> QED BY <2>1 DEF Covers
<1> QED BY <1>1, <1>2

\* A text that is there is one, and a chunk's text names the chunk.
LEMMA ThereCovers ==
    ASSUME Coverage, NEW d \in Nodes, ~Empty(d)
    PROVE  \/ d \in Chunks /\ out[d] = ChunkText(d) /\ <<d, "good">> \in out[d].from
           \/ d \in Compiles /\ Covers(out[d].from, d)
<1>1. d \in Chunks => <<d, "good">> \in ChunkText(d).from
  BY ChunkTextType
<1> QED BY <1>1 DEF Coverage, ChunksTold, TextsWhole, Nodes

\* So the refreshed input and the sources of a repair cover the node.
LEMMA InputsCover ==
    ASSUME Coverage, NEW n \in Compiles
    PROVE  /\ (\A d \in Deps[n] : ~Empty(d)) => Refreshed(n) = {} \/ Covers(Refreshed(n), n)
           /\ (\A d \in Deps[n] : ~Empty(d)) => Sources(n) = {} \/ Covers(Sources(n), n)
           /\ Covers(Settled(n).from, n) /\ Settled(n) # NoText
<1>1. ASSUME \A d \in Deps[n] : ~Empty(d)
      PROVE  Covers(Joined(n), n) /\ Sources(n) = Joined(n)
  <2> DEFINE F == [d \in Deps[n] |-> out[d].from]
  <2>1. \A d \in Deps[n] : \/ d \in Chunks /\ <<d, "good">> \in F[d]
                           \/ d \in Compiles /\ Covers(F[d], d)
    BY <1>1, ReachDirect, ThereCovers
  <2>2. UNION {F[d] : d \in Deps[n]} = Joined(n)
    BY DEF Joined
  <2>3. Covers(UNION {F[d] : d \in Deps[n]}, n)
    <3> HIDE DEF F
    <3> QED BY <2>1, JoinCovers
  <2>4. Sources(n) = Joined(n)
    BY <1>1 DEF Sources, Joined
  <2> QED BY <2>2, <2>3, <2>4
<1>2. input[n] = {} \/ Covers(input[n], n)
  BY DEF Coverage, TextsWhole
<1>3. Covers(Settled(n).from, n) /\ Settled(n) # NoText
  <2>1. Durable(out[n]) => ~Empty(n)
    BY DEF Durable, Empty, NoText
  <2>2. Durable(out[n]) => Covers(out[n].from, n) /\ out[n] # NoText
    BY <2>1 DEF Coverage, TextsWhole, Empty
  <2> QED BY <2>2, <1>2, NewTextCovers DEF Settled
<1> QED BY <1>1, <1>2, <1>3 DEF Refreshed

\* The step in which each text stays or is replaced by one that covers the node.
LEMMA CoverageKept ==
    ASSUME Coverage,
           \A n \in Nodes : \/ out'[n] = out[n]
                            \/ n \in Chunks /\ out'[n] = ChunkText(n)
                            \/ n \in Compiles /\ out'[n] # NoText /\ Covers(out'[n].from, n),
           \A n \in Compiles : \/ input'[n] = input[n] \/ input'[n] = {}
                               \/ Covers(input'[n], n),
           \A n \in Compiles, s \in Slots :
              \/ run'[n][s].read = run[n][s].read \/ run'[n][s].read = {}
              \/ Covers(run'[n][s].read, n),
           \A n \in Compiles : status'[n] = "completed" => status[n] = "completed" \/ out'[n] # NoText,
           phase' = "map" => phase = "map",
           phase = "map" => phase' = "map" \/ (\A c \in Chunks : out'[c] # NoText),
           phase' = "wave" => \/ phase = "wave" /\ batch' \subseteq batch
                              \/ \A n \in batch' : \A d \in Deps[n] : out'[d] # NoText,
           Repairing(phase') => \/ Repairing(phase) /\ path' = path
                                \/ \A n \in Compiles : out'[n] = NoText => n \in path',
           phase = "wave" => \A n \in batch : \A d \in Deps[n] : d \in Nodes
    PROVE  Coverage'
<1>1. /\ \A c \in Chunks : out[c] = ChunkText(c) \/ (phase = "map" /\ out[c] = NoText)
      /\ \A n \in Compiles :
            /\ out[n] = NoText \/ Covers(out[n].from, n)
            /\ input[n] = {} \/ Covers(input[n], n)
            /\ \A s \in Slots : run[n][s].read = {} \/ Covers(run[n][s].read, n)
            /\ status[n] = "completed" => out[n] # NoText
      /\ phase = "wave" => \A n \in batch : \A d \in Deps[n] : out[d] # NoText
      /\ Repairing(phase) => \A n \in Compiles : out[n] = NoText => n \in path
  BY DEF Coverage, ChunksTold, TextsWhole, TextsThere, Empty
<1>2. Chunks \subseteq Nodes /\ Compiles \subseteq Nodes /\ Chunks \cap Compiles = {}
  BY DocumentDagAssumption DEF Nodes
<1>3. \A c \in Chunks : ChunkText(c) # NoText
  BY ChunkTextType DEF NoText
<1>4. \A n \in Nodes : out'[n] = NoText => out[n] = NoText
  BY <1>3
<1>5. ChunksTold'
  <2>1. ASSUME NEW c \in Chunks
        PROVE  out'[c] = ChunkText(c) \/ (phase' = "map" /\ out'[c] = NoText)
    BY <1>1, <1>2
  <2> QED BY <2>1 DEF ChunksTold, Empty
<1>6. TextsWhole'
  <2>1. ASSUME NEW n \in Compiles
        PROVE  /\ out'[n] = NoText \/ Covers(out'[n].from, n)
               /\ input'[n] = {} \/ Covers(input'[n], n)
               /\ \A s \in Slots : run'[n][s].read = {} \/ Covers(run'[n][s].read, n)
    <3>1. out'[n] = NoText \/ Covers(out'[n].from, n)
      BY <1>1, <1>2
    <3>2. input'[n] = {} \/ Covers(input'[n], n)
      BY <1>1
    <3>3. \A s \in Slots : run'[n][s].read = {} \/ Covers(run'[n][s].read, n)
      BY <1>1
    <3> QED BY <3>1, <3>2, <3>3
  <2> QED BY <2>1 DEF TextsWhole, Empty, Covers
<1>7. TextsThere'
  <2>1. \A n \in Compiles : status'[n] = "completed" => out'[n] # NoText
    BY <1>1, <1>2, <1>4
  <2>2. phase' = "wave" => \A n \in batch' : \A d \in Deps[n] : out'[d] # NoText
    BY <1>1, <1>4
  <2>3. Repairing(phase') => \A n \in Compiles : out'[n] = NoText => n \in path'
    BY <1>1, <1>2, <1>4
  <2> QED BY <2>1, <2>2, <2>3 DEF TextsThere, Empty, Repairing
<1> QED BY <1>5, <1>6, <1>7 DEF Coverage

\* A node compiled in a wave depends on nodes.
LEMMA WaveDeps ==
    ASSUME DagTypeOK
    PROVE  phase = "wave" => \A n \in batch : n \in Compiles /\ \A d \in Deps[n] : d \in Nodes
BY ReachDirect DEF DagTypeOK, PoolOK

\* What an invocation that ends, or a node that is not started, does besides the texts.
LEMMA EndingEffect ==
    ASSUME DagTypeOK, NEW n \in Nodes, NEW s \in Slots, NEW ok \in BOOLEAN,
           Reports(n, s, ok) \/ (Pulls(n, s) /\ Skips(n, ok))
    PROVE  /\ batch' \subseteq batch /\ batch \ {n} \subseteq batch'
           /\ phase' = phase /\ path' = path /\ mending' = mending /\ final' = final
           /\ abandoned' = abandoned
           /\ \A m \in Nodes, r \in Slots :
                 /\ run'[m][r] = run[m][r] \/ run'[m][r] = Idle
                 /\ m # n => run'[m][r] = run[m][r]
           /\ n \in batch' => n \in batch
<1>1. run \in [Nodes -> [Slots -> [pc : {"idle", "map", "escalate", "compile", "heavy"},
                                   live : BOOLEAN, read : Parts]]]
  BY DEF DagTypeOK, RunsOK
<1>2. CASE Reports(n, s, ok)
  <2>1. /\ run' = [run EXCEPT ![n][s] = Idle] /\ batch' \subseteq batch /\ batch \ {n} \subseteq batch'
        /\ UNCHANGED <<wave, loopVars, envVars>>
    BY <1>2, ReportType
  <2>2. \A m \in Nodes, r \in Slots : /\ run'[m][r] = run[m][r] \/ run'[m][r] = Idle
                                      /\ m # n => run'[m][r] = run[m][r]
    BY <2>1, <1>1
  <2> QED BY <2>1, <2>2 DEF loopVars, repairVars, envVars
<1>3. CASE Pulls(n, s) /\ Skips(n, ok)
  <2>1. /\ run' = run /\ batch' \subseteq batch /\ batch \ {n} \subseteq batch'
        /\ UNCHANGED <<wave, loopVars, envVars>>
    BY <1>3, SkipType
  <2> QED BY <2>1 DEF loopVars, repairVars, envVars
<1> QED BY <1>2, <1>3

\* What an invocation that starts does besides the texts.
LEMMA StartingEffect ==
    ASSUME DagTypeOK, NEW n \in Nodes, NEW s \in Slots, Pulls(n, s), Started,
           NEW pc \in {"map", "escalate", "compile", "heavy"},
           NEW read \in SUBSET (Reach[n] \X Written), Works(n, s, pc, read)
    PROVE  /\ batch' = batch /\ n \in batch
           /\ phase' = phase /\ path' = path /\ mending' = mending /\ final' = final
           /\ abandoned' = abandoned
           /\ run'[n][s].read = read /\ run'[n][s].live
           /\ \A m \in Nodes, r \in Slots : m # n \/ r # s => run'[m][r] = run[m][r]
<1>1. /\ UNCHANGED <<poolVars, loopVars, envVars>> /\ n \in batch
      /\ run'[n][s] = [pc |-> pc, live |-> TRUE, read |-> read]
      /\ \A m \in Nodes, r \in Slots : m # n \/ r # s => run'[m][r] = run[m][r]
  BY WorkType
<1>2. run'[n][s].read = read /\ run'[n][s].live
  BY <1>1
<1>3. /\ batch' = batch /\ phase' = phase /\ path' = path /\ mending' = mending /\ final' = final
      /\ abandoned' = abandoned
  BY <1>1 DEF poolVars, loopVars, repairVars, envVars
<1> QED BY <1>1, <1>2, <1>3

\* A step of a chunk keeps the coverage.
LEMMA ChunkCoverage ==
    ASSUME DagTypeOK, Coverage, NEW c \in Chunks, NEW s \in Slots,
           StartMap(c, s) \/ EndMap(c, s) \/ StartEsc(c, s) \/ EndEsc(c, s)
    PROVE  Coverage'
<1>0. /\ c \in Nodes /\ Compiles \subseteq Nodes /\ c \notin Compiles
      /\ {} \in SUBSET (Reach[c] \X Written) /\ Idle.read = {}
  BY DocumentDagAssumption DEF Nodes, Idle
<1>1. /\ input' = input
      /\ \E st \in Statuses : Marks(c, st)
      /\ (out' = out) \/ Writes(c, ChunkText(c))
      /\ \/ \E ok \in BOOLEAN : Reports(c, s, ok) \/ (Pulls(c, s) /\ Skips(c, ok))
         \/ \E pc \in {"map", "escalate"} : Pulls(c, s) /\ Works(c, s, pc, {}) /\ Started
  BY DEF StartMap, EndMap, StartEsc, EndEsc, TextKept, Statuses
<1>2. /\ batch' \subseteq batch /\ phase' = phase /\ path' = path
      /\ \A m \in Nodes, r \in Slots : m # c => run'[m][r] = run[m][r]
  BY <1>0, <1>1, EndingEffect, StartingEffect
<1>3. \A n \in Nodes : out'[n] = out[n] \/ (n \in Chunks /\ out'[n] = ChunkText(n))
  BY <1>0, <1>1 DEF Writes, DagTypeOK, NodesOK
<1>4. \A n \in Compiles : status'[n] = status[n]
  BY <1>0, <1>1 DEF Marks, DagTypeOK, NodesOK
<1>5. \A n \in Compiles, r \in Slots : run'[n][r].read = run[n][r].read
  BY <1>0, <1>2
<1>6. phase = "wave" => \A n \in batch : \A d \in Deps[n] : d \in Nodes
  BY WaveDeps
<1> QED BY <1>1, <1>2, <1>3, <1>4, <1>5, <1>6, CoverageKept

\* A step of a compile node keeps it.
LEMMA CompileCoverage ==
    ASSUME DagTypeOK, Coverage, NEW n \in Compiles, NEW s \in Slots,
           StartCompile(n, s) \/ EndCompile(n, s) \/ FailCompile(n, s) \/ EndHeavy(n, s)
    PROVE  Coverage'
<1>0. /\ n \in Nodes /\ Compiles \subseteq Nodes /\ Idle.read = {} /\ NodesOK
      /\ Refreshed(n) \in SUBSET (Reach[n] \X Written)
  BY JoinedType DEF Nodes, Idle, DagTypeOK
<1>1. phase = "wave" => \A m \in batch : \A d \in Deps[m] : d \in Nodes
  BY WaveDeps
<1>2. \A ok \in BOOLEAN :
         Reports(n, s, ok) \/ (Pulls(n, s) /\ Skips(n, ok)) =>
            /\ batch' \subseteq batch /\ phase' = phase /\ path' = path
            /\ \A m \in Compiles, r \in Slots : run'[m][r].read = run[m][r].read \/ run'[m][r].read = {}
  BY <1>0, EndingEffect
<1>3. CASE StartCompile(n, s)
  <2>1. out' = out /\ Pulls(n, s) /\ phase = "wave"
    BY <1>3 DEF StartCompile
  <2>2. n \in batch
    BY <2>1 DEF Pulls
  <2>3. Refreshed(n) = {} \/ Covers(Refreshed(n), n)
    BY <2>1, <2>2, InputsCover DEF Coverage, TextsThere
  <2>4. CASE Marks(n, "failed") /\ Skips(n, FALSE) /\ UNCHANGED input
    <3>1. \A m \in Compiles : status'[m] = "completed" => status[m] = "completed"
      BY <2>4, <1>0 DEF Marks, NodesOK
    <3> QED BY <2>1, <2>4, <3>1, <1>1, <1>2, CoverageKept
  <2>5. CASE /\ Marks(n, "running") /\ input' = [input EXCEPT ![n] = Refreshed(n)]
             /\ Works(n, s, "compile", Refreshed(n)) /\ Started
    <3>1. \A m \in Compiles : status'[m] = "completed" => status[m] = "completed"
      BY <2>5, <1>0 DEF Marks, NodesOK
    <3>2. \A m \in Compiles : input'[m] = input[m] \/ input'[m] = {} \/ Covers(input'[m], m)
      BY <2>5, <2>3, <1>0 DEF NodesOK
    <3>3. /\ batch' = batch /\ phase' = phase /\ path' = path
          /\ run'[n][s].read = Refreshed(n)
          /\ \A m \in Nodes, r \in Slots : m # n \/ r # s => run'[m][r] = run[m][r]
      BY <2>1, <2>5, <1>0, StartingEffect
    <3>4. \A m \in Compiles, r \in Slots :
             \/ run'[m][r].read = run[m][r].read \/ run'[m][r].read = {}
             \/ Covers(run'[m][r].read, m)
      BY <3>3, <2>3, <1>0
    <3> QED BY <2>1, <3>1, <3>2, <3>3, <3>4, <1>1, CoverageKept
  <2> QED BY <1>3, <2>4, <2>5 DEF StartCompile
<1>4. \A t : Writes(n, t) => /\ out'[n] = t
                             /\ \A m \in Nodes \ {n} : out'[m] = out[m]
  BY <1>0 DEF Writes, NodesOK
<1>5. \A t \in Compiled(n, run[n][s].read) : Covers(t.from, n) /\ t # NoText
  BY NewTextCovers DEF Coverage, TextsWhole
<1>6. Durable(out[n]) => out[n] # NoText
  BY DEF Durable, NoText
<1>7. \A st \in Statuses : Marks(n, st) => /\ status'[n] = st
                                           /\ \A m \in Nodes \ {n} : status'[m] = status[m]
  BY <1>0 DEF Marks, NodesOK
<1>8. CASE EndCompile(n, s)
  <2>1. PICK t \in Compiled(n, run[n][s].read) : Writes(n, t)
    BY <1>8 DEF EndCompile
  <2>2. Marks(n, "completed") /\ Reports(n, s, TRUE) /\ input' = input
    BY <1>8 DEF EndCompile
  <2>3. \A m \in Nodes : \/ out'[m] = out[m]
                         \/ m \in Compiles /\ out'[m] # NoText /\ Covers(out'[m].from, m)
    BY <2>1, <1>4, <1>5
  <2>4. \A m \in Compiles : status'[m] = "completed" => status[m] = "completed" \/ out'[m] # NoText
    BY <2>1, <2>2, <1>0, <1>4, <1>5, <1>7 DEF Statuses
  <2> QED BY <2>2, <2>3, <2>4, <1>1, <1>2, CoverageKept
<1>9. CASE FailCompile(n, s)
  <2>1. out' = out /\ input' = input
    BY <1>9 DEF FailCompile
  <2>2. \/ Marks(n, "completed") /\ Durable(out[n]) /\ Reports(n, s, TRUE)
        \/ Marks(n, "failed") /\ Reports(n, s, FALSE)
        \/ /\ Marks(n, "retrying") /\ Started
           /\ run' = [run EXCEPT ![n][s].pc = "heavy", ![n][s].read = input[n]]
    BY <1>9 DEF FailCompile
  <2>3. \A m \in Compiles : status'[m] = "completed" => status[m] = "completed" \/ out'[m] # NoText
    BY <2>1, <2>2, <1>0, <1>6, <1>7 DEF Statuses
  <2>4. CASE \E ok \in BOOLEAN : Reports(n, s, ok)
    BY <2>4, <2>1, <2>3, <1>1, <1>2, CoverageKept
  <2>5. CASE Started /\ run' = [run EXCEPT ![n][s].pc = "heavy", ![n][s].read = input[n]]
    <3>1. batch' = batch /\ phase' = phase /\ path' = path
      BY <2>5 DEF Started, loopVars, repairVars
    <3>2. \A m \in Compiles, r \in Slots :
             run'[m][r].read = run[m][r].read \/ (m = n /\ run'[m][r].read = input[n])
      BY <2>5, <1>0 DEF DagTypeOK, RunsOK
    <3>3. \A m \in Compiles, r \in Slots :
             \/ run'[m][r].read = run[m][r].read \/ run'[m][r].read = {}
             \/ Covers(run'[m][r].read, m)
      BY <3>2 DEF Coverage, TextsWhole
    <3> QED BY <2>1, <2>3, <3>1, <3>3, <1>1, CoverageKept
  <2> QED BY <2>2, <2>4, <2>5
<1>10. CASE EndHeavy(n, s)
  <2>1. \/ Marks(n, "completed") /\ \E t \in Compiled(n, run[n][s].read) : Writes(n, t)
        \/ Marks(n, "failed") /\ out' = out
    BY <1>10 DEF EndHeavy, TextKept
  <2>2. input' = input /\ \E ok \in BOOLEAN : Reports(n, s, ok)
    BY <1>10 DEF EndHeavy
  <2>3. \A m \in Nodes : \/ out'[m] = out[m]
                         \/ m \in Compiles /\ out'[m] # NoText /\ Covers(out'[m].from, m)
    BY <2>1, <1>4, <1>5
  <2>4. \A m \in Compiles : status'[m] = "completed" => status[m] = "completed" \/ out'[m] # NoText
    BY <2>1, <1>0, <1>4, <1>5, <1>7 DEF Statuses
  <2> QED BY <2>2, <2>3, <2>4, <1>1, <1>2, CoverageKept
<1> QED BY <1>3, <1>8, <1>9, <1>10

\* The planning keeps it: every chunk has its text when the map is over.
LEMMA PlanningCoverage ==
    ASSUME DagTypeOK, Coverage, Heal \/ Escalate \/ Judge \/ Plan
    PROVE  Coverage'
<1>0. Chunks \subseteq Nodes /\ Compiles \subseteq Nodes /\ Chunks \cap Compiles = {}
  BY DocumentDagAssumption DEF Nodes
<1>1. phase = "wave" => \A n \in batch : \A d \in Deps[n] : d \in Nodes
  BY WaveDeps
<1>2. CASE Heal
  <2>1. /\ phase = "map" /\ phase' = "judge" /\ input' = input /\ run' = run
        /\ out' = [n \in Nodes |-> IF n \in {c \in Chunks : out[c] = NoText} THEN ChunkText(n)
                                   ELSE out[n]]
        /\ status' = [n \in Nodes |-> IF n \in {c \in Chunks : out[c] = NoText} THEN "completed"
                                      ELSE status[n]]
    BY <1>2 DEF Heal
  <2>2. \A n \in Nodes : out'[n] = out[n] \/ (n \in Chunks /\ out'[n] = ChunkText(n))
    BY <2>1
  <2>3. \A c \in Chunks : out'[c] # NoText
    <3>1. \A c \in Chunks : ChunkText(c) # NoText
      BY ChunkTextType DEF NoText
    <3> QED BY <2>1, <3>1, <1>0
  <2>4. \A n \in Compiles : status'[n] = status[n]
    BY <2>1, <1>0
  <2> QED BY <2>1, <2>2, <2>3, <2>4, <1>1, CoverageKept DEF Repairing
<1>3. CASE Escalate \/ Judge
  <2>1. /\ UNCHANGED nodeVars /\ run' = run /\ phase # "map" /\ phase' \in {"judge", "escalate"}
    BY <1>3 DEF Escalate, Judge
  <2>2. \A c \in Chunks : out[c] # NoText
    <3>1. \A c \in Chunks : ChunkText(c) # NoText
      BY ChunkTextType DEF NoText
    <3> QED BY <3>1, <2>1 DEF Coverage, ChunksTold
  <2> QED BY <2>1, <2>2, <1>1, CoverageKept DEF nodeVars, Repairing
<1>4. CASE Plan
  <2>1. /\ phase = "judge" /\ phase' = "waves" /\ UNCHANGED <<status, out, run>>
        /\ input' = [n \in Compiles |-> IF n \in Blank THEN {}
                                        ELSE UNION {out[c].from : c \in Below(n)}]
    BY <1>4 DEF Plan
  <2>2. ASSUME NEW n \in Compiles PROVE input'[n] = {} \/ Covers(input'[n], n)
    <3>1. ASSUME NEW c \in Below(n) PROVE <<c, "good">> \in out[c].from
      <4>1. c \in Chunks /\ out[c] = ChunkText(c)
        BY <2>1 DEF Below, Coverage, ChunksTold
      <4> QED BY <4>1, ChunkTextType
    <3>2. Covers(UNION {out[c].from : c \in Below(n)}, n)
      BY <3>1 DEF Covers, Qualities
    <3> QED BY <2>1, <3>2
  <2> QED BY <2>1, <2>2, <1>1, CoverageKept DEF Repairing
<1> QED BY <1>2, <1>3, <1>4

\* The waves keep it: a node is compiled from completed ones, and no node that failed is
\* left without a text.
LEMMA WaveCoverage ==
    ASSUME DagTypeOK, Coverage, OpenWave \/ CloseWave \/ NextDepth \/ NextPass
    PROVE  Coverage'
<1>0. Chunks \subseteq Nodes /\ Compiles \subseteq Nodes /\ Chunks \cap Compiles = {}
  BY DocumentDagAssumption DEF Nodes
<1>1. phase = "wave" => \A n \in batch : \A d \in Deps[n] : d \in Nodes
  BY WaveDeps
<1>2. phase \notin {"map"} => \A c \in Chunks : out[c] # NoText
  <2>1. \A c \in Chunks : ChunkText(c) # NoText
    BY ChunkTextType DEF NoText
  <2> QED BY <2>1 DEF Coverage, ChunksTold
<1>3. CASE OpenWave
  <2>1. /\ UNCHANGED nodeVars /\ run' = run /\ phase = "waves" /\ phase' = "wave"
        /\ batch' = ReadyNow
    BY <1>3 DEF OpenWave
  <2>2. ASSUME NEW n \in batch', NEW d \in Deps[n] PROVE out[d] # NoText
    <3>1. n \in Compiles /\ status[d] = "completed"
      BY <2>1 DEF ReadyNow, Ready
    <3>2. d \in Nodes
      BY <3>1, ReachDirect
    <3>3. CASE d \in Chunks
      BY <3>3, <1>2, <2>1
    <3>4. CASE d \in Compiles
      BY <3>1, <3>4 DEF Coverage, TextsThere, Empty
    <3> QED BY <3>2, <3>3, <3>4 DEF Nodes
  <2>3. \A n \in batch' : \A d \in Deps[n] : out'[d] # NoText
    BY <2>1, <2>2 DEF nodeVars
  <2> QED BY <2>1, <2>3, <1>1, CoverageKept DEF nodeVars, Repairing
<1>4. CASE NextDepth \/ NextPass
  <2>1. UNCHANGED nodeVars /\ run' = run /\ phase = "waves" /\ phase' \in {"waves", "sweep"}
    BY <1>4 DEF NextDepth, NextPass
  <2> QED BY <2>1, <1>1, CoverageKept DEF nodeVars, Repairing
<1>5. CASE CloseWave
  <2> DEFINE left == {n \in wave : status[n] # "pending"}
             lost == {n \in left : status[n] # "completed" \/ Empty(n)}
  <2>1. /\ phase = "wave" /\ phase' = "waves" /\ input' = input /\ run' = run
        /\ out' = [n \in Nodes |-> IF n \in lost THEN Settled(n) ELSE out[n]]
        /\ status' = [n \in Nodes |-> IF n \in left THEN "completed" ELSE status[n]]
    BY <1>5 DEF CloseWave
  <2>2. wave \subseteq Compiles
    BY <2>1 DEF DagTypeOK, PoolOK
  <2>3. ASSUME NEW n \in Nodes
        PROVE  \/ out'[n] = out[n]
               \/ n \in Compiles /\ out'[n] # NoText /\ Covers(out'[n].from, n)
    <3>1. CASE n \in lost
      <4>1. n \in Compiles /\ out'[n] = Settled(n)
        BY <3>1, <2>1, <2>2
      <4> QED BY <4>1, InputsCover
    <3>2. CASE n \notin lost
      BY <3>2, <2>1
    <3> QED BY <3>1, <3>2
  <2>4. ASSUME NEW n \in Compiles, status'[n] = "completed"
        PROVE  status[n] = "completed" \/ out'[n] # NoText
    <3>1. CASE n \in left /\ status[n] # "completed"
      <4>1. n \in lost /\ out'[n] = Settled(n)
        BY <3>1, <2>1, <1>0
      <4> QED BY <4>1, InputsCover
    <3>2. CASE n \notin left
      BY <3>2, <2>4, <2>1, <1>0
    <3> QED BY <3>1, <3>2
  <2> QED BY <2>1, <2>3, <2>4, <1>1, CoverageKept DEF Repairing
<1> QED BY <1>3, <1>4, <1>5

\* After the sweep every node has a text.
LEMMA SweepCoverage ==
    ASSUME DagTypeOK, Coverage, Sweep
    PROVE  Coverage'
<1>0. Chunks \subseteq Nodes /\ Compiles \subseteq Nodes /\ Chunks \cap Compiles = {}
  BY DocumentDagAssumption DEF Nodes
<1>1. phase = "wave" => \A n \in batch : \A d \in Deps[n] : d \in Nodes
  BY WaveDeps
<1> DEFINE lost == {n \in Compiles : ~Durable(out[n]) /\ status[n] # "completed" /\ Empty(n)}
<1>2. /\ phase = "sweep" /\ phase' = "repair" /\ input' = input /\ run' = run
      /\ out' = [n \in Nodes |-> IF n \in lost THEN Stitch(n, input[n]) ELSE out[n]]
      /\ status' = [n \in Nodes |-> IF n \in lost \/ (n \in Compiles /\ Durable(out[n]))
                                    THEN "completed" ELSE status[n]]
  BY DEF Sweep
<1>3. \A n \in Compiles : Covers(Stitch(n, input[n]).from, n) /\ Stitch(n, input[n]) # NoText
  BY NewTextCovers DEF Coverage, TextsWhole
<1>4. \A n \in Nodes : \/ out'[n] = out[n]
                       \/ n \in Compiles /\ out'[n] # NoText /\ Covers(out'[n].from, n)
  BY <1>2, <1>3
<1>5. \A n \in Nodes : ~Durable(NoText) /\ (Empty(n) <=> out[n] = NoText)
  BY DEF Durable, NoText, Empty
<1>6. \A n \in Compiles : out'[n] # NoText
  <2>1. \A n \in Compiles : status[n] = "completed" => out[n] # NoText
    BY DEF Coverage, TextsThere, Empty
  <2> QED BY <2>1, <1>0, <1>2, <1>3, <1>5
<1> QED BY <1>1, <1>2, <1>4, <1>6, CoverageKept DEF Repairing

\* The repairs keep it: what is cleared is recomputed, each node after those it depends on.
LEMMA RepairCoverage ==
    ASSUME DagTypeOK, Coverage, ClearBranch \/ StartRepair \/ EndRepair \/ Deliver
    PROVE  Coverage'
<1>0. Chunks \subseteq Nodes /\ Compiles \subseteq Nodes /\ Chunks \cap Compiles = {}
  BY DocumentDagAssumption DEF Nodes
<1>1. phase = "wave" => \A n \in batch : \A d \in Deps[n] : d \in Nodes
  BY WaveDeps
<1>2. CASE ClearBranch
  <2>1. /\ phase = "repair" /\ phase' = phase /\ path = {} /\ path' = Branch(Head(todo))
        /\ input' = input /\ run' = run
        /\ status' = [n \in Nodes |-> IF n \in path' THEN "pending" ELSE status[n]]
        /\ out' = [n \in Nodes |-> IF n \in path' THEN NoText ELSE out[n]]
    BY <1>2 DEF ClearBranch
  <2>2. path' \subseteq Compiles
    BY <1>2, ClearType, BranchFacts
  <2>3. ChunksTold'
    <3>1. \A c \in Chunks : out'[c] = ChunkText(c)
      BY <2>1, <2>2, <1>0 DEF Coverage, ChunksTold
    <3> QED BY <3>1 DEF ChunksTold
  <2>4. TextsWhole'
    <3>1. \A n \in Compiles : out'[n] = NoText \/ out'[n] = out[n]
      BY <2>1, <1>0
    <3> QED BY <3>1, <2>1 DEF Coverage, TextsWhole, Empty, Covers
  <2>5. TextsThere'
    <3>1. \A n \in Compiles : out[n] # NoText
      BY <2>1 DEF Coverage, TextsThere, Empty, Repairing
    <3>2. \A n \in Compiles : /\ n \in path' => status'[n] = "pending"
                              /\ n \notin path' => out'[n] = out[n]
      BY <2>1, <1>0
    <3> QED BY <3>1, <3>2, <2>1 DEF TextsThere, Empty
  <2> QED BY <2>3, <2>4, <2>5 DEF Coverage
<1>3. CASE StartRepair
  <2>1. PICK n \in path : /\ Deps[n] \cap path = {} /\ Marks(n, "running")
                          /\ input' = [input EXCEPT ![n] = Sources(n)]
    BY <1>3 DEF StartRepair
  <2>2. phase = "repair" /\ phase' = "recompute" /\ UNCHANGED <<out, run, path>>
    BY <1>3 DEF StartRepair
  <2>3. n \in Compiles
    BY DEF DagTypeOK, LoopOK
  <2>4. \A d \in Deps[n] : ~Empty(d)
    <3>1. \A c \in Chunks : ChunkText(c) # NoText /\ out[c] = ChunkText(c)
      BY <2>2, ChunkTextType DEF NoText, Coverage, ChunksTold
    <3>2. \A d \in Deps[n] : d \in Nodes /\ d \notin path
      BY <2>1, <2>3, ReachDirect
    <3> QED BY <3>1, <3>2, <2>2 DEF Coverage, TextsThere, Empty, Repairing, Nodes
  <2>5. Sources(n) = {} \/ Covers(Sources(n), n)
    BY <2>3, <2>4, InputsCover
  <2>6. \A m \in Compiles : input'[m] = input[m] \/ input'[m] = {} \/ Covers(input'[m], m)
    BY <2>1, <2>5 DEF DagTypeOK, NodesOK
  <2>7. \A m \in Compiles : status'[m] = "completed" => status[m] = "completed"
    BY <2>1, <2>3, <1>0 DEF Marks, DagTypeOK, NodesOK
  <2> QED BY <2>2, <2>6, <2>7, <1>1, CoverageKept DEF Repairing
<1>4. CASE EndRepair
  <2>1. PICK n \in mending : /\ \/ \E t \in Compiled(n, input[n]) : Writes(n, t)
                                \/ Writes(n, Settled(n))
                             /\ Marks(n, "completed")
    BY <1>4 DEF EndRepair
  <2>2. /\ phase = "recompute" /\ phase' = "repair" /\ path' = path \ mending
        /\ UNCHANGED <<input, run>>
    BY <1>4 DEF EndRepair
  <2>3. n \in Compiles /\ n \in Nodes /\ mending = {n}
    BY <2>1, <2>2, <1>0 DEF DagTypeOK, LoopOK
  <2>4. PICK t : Writes(n, t) /\ Covers(t.from, n) /\ t # NoText
    <3>1. input[n] = {} \/ Covers(input[n], n)
      BY <2>3 DEF Coverage, TextsWhole
    <3> QED BY <3>1, <2>1, <2>3, NewTextCovers, InputsCover
  <2>5. out'[n] = t /\ \A m \in Nodes \ {n} : out'[m] = out[m]
    BY <2>3, <2>4 DEF Writes, DagTypeOK, NodesOK
  <2>6. \A m \in Nodes : \/ out'[m] = out[m]
                         \/ m \in Compiles /\ out'[m] # NoText /\ Covers(out'[m].from, m)
    BY <2>3, <2>4, <2>5
  <2>7. \A m \in Compiles : status'[m] = "completed" => status[m] = "completed" \/ out'[m] # NoText
    BY <2>1, <2>3, <2>4, <2>5, <1>0 DEF Marks, DagTypeOK, NodesOK
  <2>8. \A m \in Compiles : out'[m] = NoText => m \in path'
    BY <2>2, <2>3, <2>4, <2>5, <1>0 DEF Coverage, TextsThere, Empty, Repairing
  <2> QED BY <2>2, <2>6, <2>7, <2>8, <1>1, CoverageKept DEF Repairing
<1>5. CASE Deliver
  <2>1. /\ phase = "repair" /\ phase' = "done" /\ UNCHANGED nodeVars /\ run' = run
        /\ path' = path
    BY <1>5 DEF Deliver, repairVars
  <2> QED BY <2>1, <1>1, CoverageKept DEF Repairing, nodeVars
<1> QED BY <1>2, <1>3, <1>4, <1>5

\* Initially there is no text.
LEMMA InitCoverage == Init => Coverage
<1> SUFFICES ASSUME Init PROVE Coverage
  OBVIOUS
<1>1. /\ phase = "map" /\ \A n \in Nodes : out[n] = NoText /\ status[n] = "pending"
      /\ \A n \in Compiles : input[n] = {}
      /\ \A n \in Nodes, s \in Slots : run[n][s].read = {}
  BY DEF Init, Nodes, Idle
<1> QED BY <1>1 DEF Coverage, ChunksTold, TextsWhole, TextsThere, Empty, Nodes, Repairing

\* Every step keeps the coverage.
LEMMA StepCoverage == ASSUME DagTypeOK, Coverage, [Next]_vars PROVE Coverage'
<1>1. ASSUME \E n \in Nodes, s \in Slots : Abandon(n, s) PROVE Coverage'
  <2>1. PICK n \in Nodes, s \in Slots : Abandon(n, s)
    BY <1>1
  <2>2. /\ UNCHANGED <<nodeVars, loopVars>> /\ batch' \subseteq batch
        /\ \A m \in Nodes, r \in Slots : run'[m][r].read = run[m][r].read
    BY <2>1, AbandonType
  <2>3. phase = "wave" => \A m \in batch : \A d \in Deps[m] : d \in Nodes
    BY WaveDeps
  <2> QED BY <2>2, <2>3, CoverageKept DEF nodeVars, loopVars, repairVars, Nodes
<1>2. ASSUME CeilingNears \/ (\E n \in Nodes : CancelNode(n)) \/ UNCHANGED vars PROVE Coverage'
  <2>1. UNCHANGED <<nodeVars, poolVars, loopVars, run>>
    BY <1>2, OutsideTypes
  <2>2. phase = "wave" => \A m \in batch : \A d \in Deps[m] : d \in Nodes
    BY WaveDeps
  <2> QED BY <2>1, <2>2, CoverageKept DEF nodeVars, poolVars, loopVars, repairVars
<1> QED BY <1>1, <1>2, StepCases, ChunkCoverage, CompileCoverage, PlanningCoverage, WaveCoverage,
           SweepCoverage, RepairCoverage

\* The types and the coverage always hold.
LEMMA CoverageAlways == Spec => [](DagTypeOK /\ Coverage)
<1>1. Init => DagTypeOK /\ Coverage
  BY InitTypes, InitCoverage
<1>2. DagTypeOK /\ Coverage /\ [Next]_vars => (DagTypeOK /\ Coverage)'
  BY StepTypes, StepCoverage
<1> QED BY <1>1, <1>2, PTL DEF Spec

\* The text of every node of a document that is done is made of all chunks below the node,
\* or says that content is missing.
EveryTextWhole ==
    phase = "done" => \A n \in Compiles : HasNotice(out[n]) \/ Below(n) \subseteq Content(out[n])

\* What covers a node is its content, or a notice.
LEMMA CoversContent ==
    ASSUME NEW t, NEW n \in Compiles, Covers(t.from, n)
    PROVE  HasNotice(t) \/ Below(n) \subseteq Content(t)
BY DEF Covers, HasNotice, Content, Below

\* Whatever fails, is cancelled, abandoned or repaired, no node's text loses a part of what
\* is below it, in a graph of any shape.
THEOREM TextsAreWhole == Spec => []EveryTextWhole
<1>1. DagTypeOK /\ Coverage => EveryTextWhole
  <2> SUFFICES ASSUME DagTypeOK, Coverage, phase = "done", NEW n \in Compiles
               PROVE  HasNotice(out[n]) \/ Below(n) \subseteq Content(out[n])
    BY DEF EveryTextWhole
  <2>1. path = {}
    BY DEF DagTypeOK, LoopOK
  <2>2. ~Empty(n)
    BY <2>1 DEF Coverage, TextsThere, Repairing
  <2>3. Covers(out[n].from, n)
    BY <2>2 DEF Coverage, TextsWhole
  <2> QED BY <2>3, CoversContent
<1> QED BY <1>1, CoverageAlways, PTL

\* With one executive the summary is its text, or is made of all chunks.
LEMMA SummaryOfOne ==
    ASSUME DagTypeOK, Coverage, OneTop, phase = "repair", path = {}, NEW t \in Summary
    PROVE  HasNotice(t) \/ Content(t) = Chunks
<1>1. PICK e \in Compiles : /\ Finals = {e} /\ Below(e) = Chunks
                            /\ \A n \in Compiles : Depth[n] = MaxDepth => n = e
  BY DEF OneTop
<1>2. HasNotice(out[e]) \/ Content(out[e]) = Chunks
  <2>1. ~Empty(e)
    BY DEF Coverage, TextsThere, Repairing
  <2>2. Covers(out[e].from, e)
    BY <2>1 DEF Coverage, TextsWhole
  <2>3. HasNotice(out[e]) \/ Below(e) \subseteq Content(out[e])
    BY <2>2, CoversContent
  <2> QED BY <2>3, <1>1 DEF Content
<1>3. FinalNodes = {e} \/ FinalNodes = {}
  BY <1>1 DEF FinalNodes, Completed
<1> DEFINE durable == {n \in FinalNodes : Durable(out[n])}
           all == UNION {out[c].from : c \in Chunks}
<1>4. Cardinality({e}) = 1 /\ Cardinality({}) = 0
  BY FS_Singleton, FS_EmptySet
<1>5. CASE FinalNodes = {e}
  <2>1. durable = {e} \/ durable = {}
    BY <1>5
  <2>2. {out[n] : n \in {e}} = {out[e]}
    OBVIOUS
  <2>3. Summary = IF Cardinality(durable) = 1 THEN {out[n] : n \in durable}
                  ELSE IF Cardinality(FinalNodes) = 1 THEN {out[n] : n \in FinalNodes}
                  ELSE IF durable # {}
                    THEN {out[n] : n \in durable} \cup {[q |-> "good", from |-> FromAll(durable)]}
                  ELSE IF FinalNodes # {} THEN {[q |-> "stitch", from |-> FromAll(FinalNodes)]}
                  ELSE {[q |-> q, from |-> all] : q \in {"stitch", "good"}}
    BY Zenon DEF Summary
  <2> HIDE DEF durable, all
  <2>4. Summary = {out[e]}
    <3>1. CASE durable = {e}
      BY <3>1, <2>2, <2>3, <1>4
    <3>2. CASE durable = {}
      BY <3>2, <2>2, <2>3, <1>4, <1>5
    <3> QED BY <3>1, <3>2, <2>1
  <2> QED BY <2>4, <1>2
<1>6. CASE FinalNodes = {}
  <2>1. durable = {}
    BY <1>6
  <2>2. Summary = IF Cardinality(durable) = 1 THEN {out[n] : n \in durable}
                  ELSE IF Cardinality(FinalNodes) = 1 THEN {out[n] : n \in FinalNodes}
                  ELSE IF durable # {}
                    THEN {out[n] : n \in durable} \cup {[q |-> "good", from |-> FromAll(durable)]}
                  ELSE IF FinalNodes # {} THEN {[q |-> "stitch", from |-> FromAll(FinalNodes)]}
                  ELSE {[q |-> q, from |-> all] : q \in {"stitch", "good"}}
    BY Zenon DEF Summary
  <2>3. t.from = all
    <3> HIDE DEF durable, all
    <3>1. Summary = {[q |-> q, from |-> all] : q \in {"stitch", "good"}}
      BY <2>1, <2>2, <1>4, <1>6
    <3> QED BY <3>1
  <2>4. \A c \in Chunks : <<c, "good">> \in all
    <3>1. \A c \in Chunks : out[c] = ChunkText(c) /\ <<c, "good">> \in ChunkText(c).from
      BY ChunkTextType DEF Coverage, ChunksTold
    <3> QED BY <3>1
  <2> QED BY <2>3, <2>4 DEF Content, Qualities
<1> QED BY <1>3, <1>5, <1>6

\* Only Deliver ends the execution or changes the summary.
LEMMA OnlyDeliver ==
    ASSUME DagTypeOK, [Next]_vars, phase' = "done"
    PROVE  Deliver \/ (phase = "done" /\ final' = final)
<1>1. ASSUME NEW n \in Nodes, NEW s \in Slots, Begins(n, s) \/ Finishes(n, s) \/ Abandon(n, s)
      PROVE  UNCHANGED loopVars
  BY <1>1 DEF Begins, Finishes, StartMap, EndMap, StartEsc, EndEsc, StartCompile, EndCompile,
              FailCompile, EndHeavy, Abandon, Skips, Reports, Started
<1>2. ASSUME CeilingNears \/ (\E n \in Nodes : CancelNode(n)) \/ Stopped \/ UNCHANGED vars
      PROVE  UNCHANGED loopVars
  BY <1>2 DEF CeilingNears, CancelNode, Stopped, vars
<1>3. UNCHANGED loopVars => phase' = phase /\ final' = final
  BY DEF loopVars
<1>4. ASSUME Scheduler PROVE Deliver
  BY <1>4 DEF Scheduler, Heal, Escalate, Judge, Plan, OpenWave, CloseWave, NextDepth, NextPass,
              Sweep, ClearBranch, StartRepair, EndRepair
<1> QED BY <1>1, <1>2, <1>3, <1>4 DEF Next

\* Whatever fails, is cancelled, abandoned or repaired, the summary of a document with one
\* executive is made of every chunk, or says that content is missing.
THEOREM SummaryIsWhole == ASSUME OneTop PROVE Spec => []NothingDropped
<1>1. Init => NothingDropped
  BY DEF Init, NothingDropped
<1>2. DagTypeOK /\ Coverage /\ NothingDropped /\ [Next]_vars => NothingDropped'
  <2> SUFFICES ASSUME DagTypeOK, Coverage, NothingDropped, [Next]_vars, phase' = "done"
               PROVE  HasNotice(final') \/ Content(final') = Chunks
    BY DEF NothingDropped, HasNotice, Content
  <2>1. CASE Deliver
    <3>1. final' \in Summary /\ phase = "repair" /\ path = {}
      BY <2>1 DEF Deliver
    <3> QED BY <3>1, SummaryOfOne
  <2>2. CASE phase = "done" /\ final' = final
    BY <2>2 DEF NothingDropped
  <2> QED BY <2>1, <2>2, OnlyDeliver
<1> QED BY <1>1, <1>2, CoverageAlways, PTL DEF Spec

-----------------------------------------------------------------------------
(* Nothing is stale *)

\* Each text in f is the one its node has.
Now(f) == \A p \in f : out[p[1]].q = p[2]

\* A node whose text will not change before the repairs.
Done(n) == status[n] = "completed" /\ n \notin batch

\* Each text in f is the one its node has, and will not change before the repairs.
Solid(f) == \A p \in f : out[p[1]].q = p[2] /\ (p[1] \in Compiles => Done(p[1]))

\* Before the repairs a node has no text or is done, and all is made of texts of done nodes.
WavesFresh ==
    \A n \in Compiles :
       /\ Empty(n) \/ Done(n)
       /\ Solid(out[n].from) /\ Solid(input[n])
       /\ \A s \in Slots : Solid(run[n][s].read)

\* During the repairs what is left of a branch has no text, and nothing outside of it is
\* made of it.
RepairFresh ==
    /\ \A n \in Compiles : Now(out[n].from)
    /\ \A n \in path : Empty(n) /\ Branch(n) \subseteq path
    /\ \A n \in mending : /\ Deps[n] \cap path = {}
                          /\ \A p \in input[n] : out[p[1]].q = p[2] /\ p[1] \notin path
    /\ phase = "done" => Now(final.from)

\* Unless an invocation was abandoned, all of them are waited for and no text is stale.
Freshness ==
    abandoned = 0 =>
       /\ \A n \in Nodes, s \in Slots : run[n][s].live \/ Free(n, s)
       /\ IF Repairing(phase) THEN RepairFresh ELSE WavesFresh

\* A text of a chunk is always the one the chunk has.
LEMMA ChunkNow ==
    ASSUME Coverage, NEW c \in Chunks
    PROVE  Solid(out[c].from)
<1>1. c \notin Compiles
  BY DocumentDagAssumption
<1>2. /\ ChunkText(c).from = {<<c, "good">>} /\ ChunkText(c).q = "good"
      /\ NoText.from = {}
  BY ChunkTextType DEF NoText
<1>3. out[c] = ChunkText(c) \/ out[c] = NoText
  BY DEF Coverage, ChunksTold, Empty
<1>4. CASE out[c] = NoText
  BY <1>2, <1>4 DEF Solid
<1>5. CASE out[c] = ChunkText(c)
  <2>1. \A p \in out[c].from : p[1] = c /\ p[2] = "good"
    BY <1>2, <1>5
  <2> QED BY <2>1, <1>1, <1>2, <1>5 DEF Solid
<1> QED BY <1>3, <1>4, <1>5

\* Nothing that is made of texts of done nodes becomes stale in a step that changes neither
\* a chunk's text nor a done node.
LEMMA SolidKept ==
    ASSUME NEW f \in SUBSET (Nodes \X Written), Solid(f),
           \A c \in Chunks : out[c] = NoText \/ out'[c] = out[c],
           \A n \in Compiles : Done(n) => Done(n)' /\ out'[n] = out[n]
    PROVE  /\ Solid(f)'
           /\ \A p \in f : out'[p[1]].q = p[2] /\ (p[1] \in Compiles => Done(p[1])')
<1>1. ASSUME NEW p \in f PROVE out'[p[1]].q = p[2] /\ (p[1] \in Compiles => Done(p[1])')
  <2>1. p[1] \in Nodes /\ p[2] # "none"
    BY DEF Written
  <2>2. out[p[1]].q = p[2] /\ (p[1] \in Compiles => Done(p[1]))
    BY DEF Solid
  <2>3. CASE p[1] \in Chunks
    <3>1. out[p[1]] # NoText
      BY <2>1, <2>2 DEF NoText
    <3>2. p[1] \notin Compiles
      BY <2>3, DocumentDagAssumption
    <3> QED BY <2>2, <2>3, <3>1, <3>2
  <2>4. CASE p[1] \in Compiles
    BY <2>2, <2>4
  <2> QED BY <2>1, <2>3, <2>4 DEF Nodes
<1>2. Solid(f)'
  BY <1>1 DEF Solid
<1> QED BY <1>1, <1>2

\* Everything a compile node's text, input or invocation is made of is a text of a node.
LEMMA MadeOfTexts ==
    ASSUME DagTypeOK, NEW n \in Nodes
    PROVE  /\ out[n].from \in SUBSET (Nodes \X Written)
           /\ n \in Compiles => input[n] \in SUBSET (Nodes \X Written)
           /\ \A s \in Slots : run[n][s].read \in SUBSET (Nodes \X Written)
BY DEF DagTypeOK, NodesOK, RunsOK, Parts

\* The refreshed input of a node is made of texts of done nodes.
LEMMA RefreshedSolid ==
    ASSUME DagTypeOK, Coverage, WavesFresh, NEW n \in Compiles
    PROVE  Solid(Refreshed(n))
<1>1. ASSUME NEW d \in Deps[n] PROVE Solid(out[d].from)
  <2>1. d \in Nodes
    BY ReachDirect
  <2> QED BY <2>1, ChunkNow DEF WavesFresh, Nodes
<1>2. Solid(Joined(n))
  BY <1>1 DEF Joined, Solid
<1>3. Solid(input[n])
  BY DEF WavesFresh
<1> QED BY <1>2, <1>3 DEF Refreshed

\* A step before the repairs that keeps the done nodes and the chunks' texts, and whose new
\* texts are made of texts of done nodes, keeps the texts fresh.
LEMMA WavesKept ==
    ASSUME DagTypeOK, Coverage, WavesFresh,
           \A c \in Chunks : out[c] = NoText \/ out'[c] = out[c],
           \A n \in Compiles : Done(n) => Done(n)' /\ out'[n] = out[n],
           \A n \in Compiles :
              \/ out'[n] = out[n]
              \/ Done(n)' /\ \E q, f : Solid(f) /\ f \in SUBSET (Nodes \X Written)
                                       /\ out'[n] = TextOf(n, q, f),
           \A n \in Compiles :
              \/ input'[n] = input[n]
              \/ Solid(input'[n]) /\ input'[n] \in SUBSET (Nodes \X Written),
           \A n \in Compiles, s \in Slots :
              \/ run'[n][s].read = run[n][s].read
              \/ Solid(run'[n][s].read) /\ run'[n][s].read \in SUBSET (Nodes \X Written)
    PROVE  WavesFresh'
<1>1. ASSUME NEW f \in SUBSET (Nodes \X Written), Solid(f)
      PROVE  /\ Solid(f)'
             /\ \A p \in f : out'[p[1]].q = p[2] /\ (p[1] \in Compiles => Done(p[1])')
  BY <1>1, SolidKept
<1>2. ASSUME NEW n \in Compiles
      PROVE  /\ out'[n] = NoText \/ Done(n)'
             /\ \A p \in out'[n].from : out'[p[1]].q = p[2] /\ (p[1] \in Compiles => Done(p[1])')
  <2>0. n \in Nodes /\ (out[n] = NoText \/ Done(n)) /\ Solid(out[n].from)
        /\ out[n].from \in SUBSET (Nodes \X Written)
    BY MadeOfTexts DEF WavesFresh, Empty, Nodes
  <2>1. CASE out'[n] = out[n]
    BY <2>0, <2>1, <1>1
  <2>2. CASE Done(n)' /\ \E q, f : Solid(f) /\ f \in SUBSET (Nodes \X Written)
                                   /\ out'[n] = TextOf(n, q, f)
    <3>1. PICK q, f : Solid(f) /\ f \in SUBSET (Nodes \X Written) /\ out'[n] = TextOf(n, q, f)
      BY <2>2
    <3>2. out'[n].q = q /\ out'[n].from = f \cup {<<n, q>>}
      BY <3>1 DEF TextOf
    <3>3. \A p \in f : out'[p[1]].q = p[2] /\ (p[1] \in Compiles => Done(p[1])')
      BY <3>1, <1>1
    <3>4. \A p \in {<<n, q>>} : p[1] = n /\ p[2] = q
      OBVIOUS
    <3> QED BY <2>2, <3>2, <3>3, <3>4
  <2> QED BY <2>1, <2>2
<1>3. ASSUME NEW n \in Compiles
      PROVE  \A p \in input'[n] : out'[p[1]].q = p[2] /\ (p[1] \in Compiles => Done(p[1])')
  <2>1. Solid(input[n]) /\ input[n] \in SUBSET (Nodes \X Written)
    BY MadeOfTexts DEF WavesFresh, Nodes
  <2>2. Solid(input'[n]) /\ input'[n] \in SUBSET (Nodes \X Written)
    BY <2>1
  <2> QED BY <2>2, <1>1
<1>4. ASSUME NEW n \in Compiles, NEW s \in Slots
      PROVE  \A p \in run'[n][s].read : out'[p[1]].q = p[2] /\ (p[1] \in Compiles => Done(p[1])')
  <2>1. Solid(run[n][s].read) /\ run[n][s].read \in SUBSET (Nodes \X Written)
    BY MadeOfTexts DEF WavesFresh, Nodes
  <2>2. Solid(run'[n][s].read) /\ run'[n][s].read \in SUBSET (Nodes \X Written)
    BY <2>1
  <2> QED BY <2>2, <1>1
<1> QED BY <1>2, <1>3, <1>4 DEF WavesFresh, Solid, Empty, Done

\* An invocation that is at work is waited for when none was abandoned.
LEMMA AtWork ==
    ASSUME DagTypeOK, Freshness, abandoned = 0, NEW n \in Nodes, NEW s \in Slots,
           run[n][s].pc # "idle"
    PROVE  run[n][s].live /\ n \in batch /\ ~Repairing(phase) /\ WavesFresh
<1>1. run[n][s].live
  BY DEF Freshness, Free, Idle
<1>2. n \in batch
  BY <1>1 DEF DagTypeOK, RunsOK
<1>3. ~Repairing(phase)
  BY <1>2 DEF DagTypeOK, PoolOK, Repairing
<1> QED BY <1>1, <1>2, <1>3 DEF Freshness

\* Before the repairs the freshness is that of the waves.
LEMMA BeforeRepairs ==
    ASSUME abandoned' = 0, ~Repairing(phase'), WavesFresh',
           \A n \in Nodes, s \in Slots : run'[n][s].live \/ run'[n][s] = Idle
    PROVE  Freshness'
BY DEF Freshness, Free, Repairing

\* Chunks.
LEMMA ChunkFresh ==
    ASSUME DagTypeOK, Coverage, Freshness, NEW c \in Chunks, NEW s \in Slots,
           StartMap(c, s) \/ EndMap(c, s) \/ StartEsc(c, s) \/ EndEsc(c, s)
    PROVE  Freshness'
<1>0. /\ c \in Nodes /\ Compiles \subseteq Nodes /\ c \notin Compiles
      /\ {} \in SUBSET (Reach[c] \X Written)
  BY DocumentDagAssumption DEF Nodes
<1>1. /\ input' = input
      /\ \E st \in Statuses : Marks(c, st)
      /\ (out' = out) \/ Writes(c, ChunkText(c))
      /\ \/ \E ok \in BOOLEAN : Reports(c, s, ok) \/ (Pulls(c, s) /\ Skips(c, ok))
         \/ \E pc \in {"map", "escalate"} : Pulls(c, s) /\ Works(c, s, pc, {}) /\ Started
      /\ run[c][s].pc # "idle" \/ phase \in {"map", "escalate"}
  BY DEF StartMap, EndMap, StartEsc, EndEsc, TextKept, Statuses
<1>2. /\ batch' \subseteq batch /\ phase' = phase /\ abandoned' = abandoned
      /\ \A m \in Nodes, r \in Slots : m # c => run'[m][r] = run[m][r]
      /\ \A r \in Slots : run'[c][r] = run[c][r] \/ run'[c][r] = Idle \/ run'[c][r].live
  BY <1>0, <1>1, EndingEffect, StartingEffect
<1> SUFFICES ASSUME abandoned' = 0 PROVE Freshness'
  BY DEF Freshness
<1>3. ~Repairing(phase) /\ WavesFresh
  BY <1>0, <1>1, <1>2, AtWork DEF Freshness, Repairing
<1>4. \A k \in Chunks : out[k] = NoText \/ out'[k] = out[k]
  <2>1. \A k \in Chunks : out[k] = ChunkText(k) \/ out[k] = NoText
    BY DEF Coverage, ChunksTold, Empty
  <2>2. \A k \in Chunks : out'[k] = out[k] \/ out'[k] = ChunkText(k)
    BY <1>0, <1>1 DEF Writes, DagTypeOK, NodesOK, Nodes
  <2> QED BY <2>1, <2>2
<1>5. \A n \in Compiles : out'[n] = out[n] /\ status'[n] = status[n]
  BY <1>0, <1>1 DEF Writes, Marks, DagTypeOK, NodesOK
<1>6. \A n \in Compiles : Done(n) => Done(n)' /\ out'[n] = out[n]
  BY <1>2, <1>5 DEF Done
<1>7. \A n \in Compiles, r \in Slots : run'[n][r].read = run[n][r].read
  BY <1>0, <1>2
<1>8. WavesFresh'
  BY <1>1, <1>3, <1>4, <1>5, <1>6, <1>7, WavesKept
<1>9. \A n \in Nodes, r \in Slots : run'[n][r].live \/ run'[n][r] = Idle
  BY <1>2 DEF Freshness, Free
<1> QED BY <1>2, <1>3, <1>8, <1>9, BeforeRepairs

\* A compile node that is not done is started.
LEMMA StartCompileFresh ==
    ASSUME DagTypeOK, Coverage, Freshness, NEW n \in Compiles, NEW s \in Slots, StartCompile(n, s)
    PROVE  Freshness'
<1>0. /\ n \in Nodes /\ Compiles \subseteq Nodes /\ Chunks \subseteq Nodes
      /\ Refreshed(n) \in SUBSET (Reach[n] \X Written) /\ Refreshed(n) \in SUBSET (Nodes \X Written)
  BY JoinedType, ReachSelf DEF Nodes, DagTypeOK
<1>1. out' = out /\ Pulls(n, s) /\ phase = "wave"
  BY DEF StartCompile
<1>2. n \in batch
  BY <1>1 DEF Pulls
<1>3. \/ Marks(n, "failed") /\ Skips(n, FALSE) /\ input' = input
      \/ /\ Marks(n, "running") /\ input' = [input EXCEPT ![n] = Refreshed(n)]
         /\ Works(n, s, "compile", Refreshed(n)) /\ Started
  BY DEF StartCompile
<1>4. /\ batch' \subseteq batch /\ phase' = phase /\ abandoned' = abandoned
      /\ \A m \in Nodes, r \in Slots :
            \/ run'[m][r] = run[m][r] \/ run'[m][r] = Idle
            \/ m = n /\ run'[m][r].live /\ run'[m][r].read = Refreshed(n)
  <2>1. CASE Skips(n, FALSE)
    BY <2>1, <1>0, <1>1, EndingEffect
  <2>2. CASE Works(n, s, "compile", Refreshed(n)) /\ Started
    <3>1. /\ batch' = batch /\ phase' = phase /\ abandoned' = abandoned
          /\ run'[n][s].read = Refreshed(n) /\ run'[n][s].live
          /\ \A m \in Nodes, r \in Slots : m # n \/ r # s => run'[m][r] = run[m][r]
      BY <2>2, <1>0, <1>1, StartingEffect
    <3> QED BY <3>1
  <2> QED BY <2>1, <2>2, <1>3
<1> SUFFICES ASSUME abandoned' = 0 PROVE Freshness'
  BY DEF Freshness
<1>5. WavesFresh /\ ~Repairing(phase)
  BY <1>1, <1>4 DEF Freshness, Repairing
<1>6. Solid(Refreshed(n))
  BY <1>5, RefreshedSolid
<1>7. \A m \in Compiles : Done(m) => Done(m)' /\ out'[m] = out[m]
  <2>1. \A m \in Compiles : m # n => status'[m] = status[m]
    BY <1>0, <1>3 DEF Marks, DagTypeOK, NodesOK
  <2> QED BY <2>1, <1>1, <1>2, <1>4 DEF Done
<1>8. \A m \in Compiles : \/ input'[m] = input[m]
                          \/ Solid(input'[m]) /\ input'[m] \in SUBSET (Nodes \X Written)
  BY <1>0, <1>3, <1>6 DEF DagTypeOK, NodesOK
<1>9. Solid({}) /\ Idle.read = {}
  BY DEF Solid, Idle
<1>10. \A m \in Compiles, r \in Slots :
          \/ run'[m][r].read = run[m][r].read
          \/ Solid(run'[m][r].read) /\ run'[m][r].read \in SUBSET (Nodes \X Written)
  BY <1>0, <1>4, <1>6, <1>9
<1>11. WavesFresh'
  BY <1>1, <1>5, <1>7, <1>8, <1>10, WavesKept
<1>12. \A m \in Nodes, r \in Slots : run'[m][r].live \/ run'[m][r] = Idle
  BY <1>4 DEF Freshness, Free
<1> QED BY <1>4, <1>5, <1>11, <1>12, BeforeRepairs

\* A compile node that is not done gets a text, or fails; while none was abandoned it had no text.
LEMMA EndCompileFresh ==
    ASSUME DagTypeOK, Coverage, Freshness, NEW n \in Compiles, NEW s \in Slots,
           EndCompile(n, s) \/ EndHeavy(n, s)
    PROVE  Freshness'
<1>0. n \in Nodes /\ Compiles \subseteq Nodes /\ Chunks \subseteq Nodes /\ n \notin Chunks
  BY DocumentDagAssumption DEF Nodes
<1>1. /\ run[n][s].pc # "idle" /\ input' = input
      /\ \/ /\ Marks(n, "completed") /\ Reports(n, s, TRUE)
            /\ \E t \in Compiled(n, run[n][s].read) : Writes(n, t)
         \/ Marks(n, "failed") /\ Reports(n, s, FALSE) /\ out' = out
  BY DEF EndCompile, EndHeavy, TextKept
<1>2. \E ok \in BOOLEAN : Reports(n, s, ok)
  BY <1>1
<1>3. /\ batch' \subseteq batch /\ phase' = phase /\ abandoned' = abandoned
      /\ \A m \in Nodes, r \in Slots : run'[m][r] = run[m][r] \/ run'[m][r] = Idle
  BY <1>0, <1>2, EndingEffect
<1> SUFFICES ASSUME abandoned' = 0 PROVE Freshness'
  BY DEF Freshness
<1>4. run[n][s].live /\ n \in batch /\ ~Repairing(phase) /\ WavesFresh
  BY <1>0, <1>1, <1>3, AtWork
<1>5. \A m \in Nodes \ {n} : out'[m] = out[m] /\ status'[m] = status[m]
  BY <1>0, <1>1 DEF Writes, Marks, DagTypeOK, NodesOK
<1>6. \A m \in Compiles : Done(m) => Done(m)' /\ out'[m] = out[m]
  BY <1>0, <1>3, <1>4, <1>5 DEF Done
<1>7. \/ out'[n] = out[n]
      \/ Done(n)' /\ \E q, f : Solid(f) /\ f \in SUBSET (Nodes \X Written)
                               /\ out'[n] = TextOf(n, q, f)
  <2>1. CASE out' = out
    BY <2>1
  <2>2. CASE /\ Marks(n, "completed") /\ Reports(n, s, TRUE)
             /\ \E t \in Compiled(n, run[n][s].read) : Writes(n, t)
    <3>1. PICK t \in Compiled(n, run[n][s].read) : Writes(n, t)
      BY <2>2
    <3>2. out'[n] = t
      BY <3>1, <1>0 DEF Writes, DagTypeOK, NodesOK
    <3>3. \E q : t = TextOf(n, q, run[n][s].read)
      BY <3>1 DEF Compiled
    <3>4. Solid(run[n][s].read) /\ run[n][s].read \in SUBSET (Nodes \X Written)
      BY <1>0, <1>4, MadeOfTexts DEF WavesFresh
    <3>5. n \notin batch'
      BY <2>2, <1>0, <1>4, ReportType
    <3>6. Done(n)'
      BY <2>2, <3>5, <1>0 DEF Done, Marks, DagTypeOK, NodesOK
    <3> QED BY <3>2, <3>3, <3>4, <3>6
  <2> QED BY <2>1, <2>2, <1>1
<1>8. \A c \in Chunks : out[c] = NoText \/ out'[c] = out[c]
  BY <1>0, <1>5
<1>9. Solid({}) /\ Idle.read = {}
  BY DEF Solid, Idle
<1>10. \A m \in Compiles, r \in Slots :
          \/ run'[m][r].read = run[m][r].read
          \/ Solid(run'[m][r].read) /\ run'[m][r].read \in SUBSET (Nodes \X Written)
  BY <1>0, <1>3, <1>9
<1>11. \A m \in Compiles :
          \/ out'[m] = out[m]
          \/ Done(m)' /\ \E q, f : Solid(f) /\ f \in SUBSET (Nodes \X Written)
                                   /\ out'[m] = TextOf(m, q, f)
  BY <1>0, <1>5, <1>7
<1>12. WavesFresh'
  BY <1>1, <1>4, <1>6, <1>8, <1>10, <1>11, WavesKept
<1>13. \A m \in Nodes, r \in Slots : run'[m][r].live \/ run'[m][r] = Idle
  BY <1>3 DEF Freshness, Free
<1> QED BY <1>3, <1>4, <1>12, <1>13, BeforeRepairs

\* A node that failed is tried once more with the same input.
LEMMA FailCompileFresh ==
    ASSUME DagTypeOK, Coverage, Freshness, NEW n \in Compiles, NEW s \in Slots, FailCompile(n, s)
    PROVE  Freshness'
<1>0. n \in Nodes /\ Compiles \subseteq Nodes /\ Chunks \subseteq Nodes /\ n \notin Chunks
  BY DocumentDagAssumption DEF Nodes
<1>1. /\ run[n][s].pc # "idle" /\ input' = input /\ out' = out
      /\ \E st \in Statuses : Marks(n, st)
      /\ \/ \E ok \in BOOLEAN : Reports(n, s, ok)
         \/ /\ run' = [run EXCEPT ![n][s].pc = "heavy", ![n][s].read = input[n]]
            /\ Started
  BY DEF FailCompile, Statuses
<1>2. CASE \E ok \in BOOLEAN : Reports(n, s, ok)
  <2>1. /\ batch' \subseteq batch /\ phase' = phase /\ abandoned' = abandoned
        /\ \A m \in Nodes, r \in Slots : run'[m][r] = run[m][r] \/ run'[m][r] = Idle
    BY <1>0, <1>2, EndingEffect
  <2> SUFFICES ASSUME abandoned' = 0 PROVE Freshness'
    BY DEF Freshness
  <2>2. n \in batch /\ ~Repairing(phase) /\ WavesFresh
    BY <1>0, <1>1, <2>1, AtWork
  <2>3. \A m \in Compiles : Done(m) => Done(m)' /\ out'[m] = out[m]
    <3>1. \A m \in Nodes \ {n} : status'[m] = status[m]
      BY <1>0, <1>1 DEF Marks, DagTypeOK, NodesOK
    <3> QED BY <3>1, <1>0, <1>1, <2>1, <2>2 DEF Done
  <2>4. Solid({}) /\ Idle.read = {}
    BY DEF Solid, Idle
  <2>5. \A m \in Compiles, r \in Slots :
           \/ run'[m][r].read = run[m][r].read
           \/ Solid(run'[m][r].read) /\ run'[m][r].read \in SUBSET (Nodes \X Written)
    BY <1>0, <2>1, <2>4
  <2>6. WavesFresh'
    BY <1>1, <2>2, <2>3, <2>5, WavesKept
  <2>7. \A m \in Nodes, r \in Slots : run'[m][r].live \/ run'[m][r] = Idle
    BY <2>1 DEF Freshness, Free
  <2> QED BY <2>1, <2>2, <2>6, <2>7, BeforeRepairs
<1>3. CASE /\ run' = [run EXCEPT ![n][s].pc = "heavy", ![n][s].read = input[n]]
           /\ Started
  <2>1. batch' = batch /\ phase' = phase /\ abandoned' = abandoned
    BY <1>3 DEF Started, loopVars, envVars
  <2> SUFFICES ASSUME abandoned' = 0 PROVE Freshness'
    BY DEF Freshness
  <2>2. run[n][s].live /\ n \in batch /\ ~Repairing(phase) /\ WavesFresh
    BY <1>0, <1>1, <2>1, AtWork
  <2>3. \A m \in Compiles : Done(m) => Done(m)' /\ out'[m] = out[m]
    <3>1. \A m \in Nodes \ {n} : status'[m] = status[m]
      BY <1>0, <1>1 DEF Marks, DagTypeOK, NodesOK
    <3> QED BY <3>1, <1>0, <1>1, <2>1, <2>2 DEF Done
  <2>4. \A m \in Nodes, r \in Slots :
           \/ run'[m][r] = run[m][r]
           \/ m = n /\ r = s /\ run'[m][r].read = input[n] /\ run'[m][r].live = run[n][s].live
    BY <1>0, <1>3 DEF DagTypeOK, RunsOK
  <2>5. Solid(input[n]) /\ input[n] \in SUBSET (Nodes \X Written)
    BY <1>0, <2>2, MadeOfTexts DEF WavesFresh
  <2>6. \A m \in Compiles, r \in Slots :
           \/ run'[m][r].read = run[m][r].read
           \/ Solid(run'[m][r].read) /\ run'[m][r].read \in SUBSET (Nodes \X Written)
    BY <1>0, <2>4, <2>5
  <2>7. WavesFresh'
    BY <1>1, <2>2, <2>3, <2>6, WavesKept
  <2>8. \A m \in Nodes, r \in Slots : run'[m][r].live \/ run'[m][r] = Idle
    BY <2>1, <2>2, <2>4 DEF Freshness, Free
  <2> QED BY <2>1, <2>2, <2>7, <2>8, BeforeRepairs
<1> QED BY <1>1, <1>2, <1>3

\* The planning and the waves: the calling thread works on nodes that are not done.
LEMMA WavesStepFresh ==
    ASSUME DagTypeOK, Coverage, Freshness,
           Heal \/ Escalate \/ Judge \/ Plan \/ OpenWave \/ CloseWave \/ NextDepth \/ NextPass
    PROVE  Freshness'
<1>0. Compiles \subseteq Nodes /\ Chunks \subseteq Nodes /\ Chunks \cap Compiles = {}
  BY DocumentDagAssumption DEF Nodes
<1>1. /\ run' = run /\ abandoned' = abandoned /\ ~Repairing(phase) /\ ~Repairing(phase')
  BY DEF Heal, Escalate, Judge, Plan, OpenWave, CloseWave, NextDepth, NextPass, envVars, Repairing
<1> SUFFICES ASSUME abandoned' = 0 PROVE Freshness'
  BY DEF Freshness
<1>2. WavesFresh /\ \A m \in Nodes, r \in Slots : run'[m][r].live \/ run'[m][r] = Idle
  BY <1>1 DEF Freshness, Free
<1>3. \A m \in Compiles, r \in Slots : run'[m][r].read = run[m][r].read
  BY <1>1
<1>4. CASE Heal
  <2>1. /\ input' = input /\ batch' = batch
        /\ out' = [n \in Nodes |-> IF n \in {c \in Chunks : out[c] = NoText} THEN ChunkText(n)
                                   ELSE out[n]]
        /\ status' = [n \in Nodes |-> IF n \in {c \in Chunks : out[c] = NoText} THEN "completed"
                                      ELSE status[n]]
    BY <1>4 DEF Heal, Returns
  <2>2. \A n \in Compiles : out'[n] = out[n] /\ status'[n] = status[n]
    BY <2>1, <1>0
  <2>3. \A c \in Chunks : out[c] = NoText \/ out'[c] = out[c]
    BY <2>1, <1>0
  <2>4. \A n \in Compiles : Done(n) => Done(n)' /\ out'[n] = out[n]
    BY <2>1, <2>2 DEF Done
  <2>5. WavesFresh'
    BY <2>1, <2>2, <2>3, <2>4, <1>2, <1>3, WavesKept
  <2> QED BY <2>5, <1>1, <1>2, BeforeRepairs
<1>5. CASE Escalate \/ Judge \/ OpenWave \/ NextDepth \/ NextPass
  <2>1. /\ UNCHANGED nodeVars
        /\ \A n \in Compiles : n \in batch' => n \in batch \/ status[n] # "completed"
    <3>1. CASE Escalate
      <4>1. batch' \subseteq failed /\ UNCHANGED nodeVars
        BY <3>1 DEF Escalate
      <4>2. failed \subseteq Chunks
        BY DEF DagTypeOK, LoopOK
      <4> QED BY <4>1, <4>2, <1>0
    <3>2. CASE OpenWave
      BY <3>2 DEF OpenWave, ReadyNow, Ready
    <3>3. CASE Judge \/ NextDepth \/ NextPass
      BY <3>3 DEF Judge, NextDepth, NextPass, Returns, poolVars
    <3> QED BY <1>5, <3>1, <3>2, <3>3
  <2>2. /\ out' = out /\ input' = input /\ status' = status
    BY <2>1 DEF nodeVars
  <2>3. \A n \in Compiles : Done(n) => Done(n)' /\ out'[n] = out[n]
    BY <2>1, <2>2 DEF Done
  <2>4. WavesFresh'
    BY <2>2, <2>3, <1>2, <1>3, WavesKept
  <2> QED BY <2>4, <1>1, <1>2, BeforeRepairs
<1>6. CASE Plan
  <2>1. /\ UNCHANGED <<status, out>> /\ batch' = batch
        /\ input' = [n \in Compiles |-> IF n \in Blank THEN {}
                                        ELSE UNION {out[c].from : c \in Below(n)}]
    BY <1>6 DEF Plan, poolVars
  <2>2. ASSUME NEW n \in Compiles
        PROVE  Solid(input'[n]) /\ input'[n] \in SUBSET (Nodes \X Written)
    <3>1. \A c \in Below(n) : Solid(out[c].from) /\ out[c].from \in SUBSET (Nodes \X Written)
      BY <1>0, ChunkNow, MadeOfTexts DEF Below
    <3>2. Solid(UNION {out[c].from : c \in Below(n)}) /\ Solid({})
      BY <3>1 DEF Solid
    <3>3. UNION {out[c].from : c \in Below(n)} \in SUBSET (Nodes \X Written)
      BY <3>1
    <3> QED BY <2>1, <3>2, <3>3
  <2>3. \A n \in Compiles : Done(n) => Done(n)' /\ out'[n] = out[n]
    BY <2>1 DEF Done
  <2>4. WavesFresh'
    BY <2>1, <2>2, <2>3, <1>2, <1>3, WavesKept
  <2> QED BY <2>4, <1>1, <1>2, BeforeRepairs
<1>7. CASE CloseWave
  <2> DEFINE left == {n \in wave : status[n] # "pending"}
             lost == {n \in left : status[n] # "completed" \/ Empty(n)}
  <2>1. /\ input' = input /\ batch' = batch /\ batch = {} /\ phase = "wave"
        /\ out' = [n \in Nodes |-> IF n \in lost THEN Settled(n) ELSE out[n]]
        /\ status' = [n \in Nodes |-> IF n \in left THEN "completed" ELSE status[n]]
    BY <1>7 DEF CloseWave, Returns
  <2>2. wave \subseteq Compiles
    BY <2>1 DEF DagTypeOK, PoolOK
  <2>3. \A n \in Compiles : /\ status[n] = "completed" => out[n] # NoText
                            /\ out[n] = NoText \/ Done(n)
    BY <1>2 DEF Coverage, TextsThere, Empty, WavesFresh
  <2>4. \A n \in lost : n \in Compiles /\ status[n] # "completed" /\ out[n] = NoText
    BY <2>2, <2>3 DEF Empty, Done
  <2>5. \A n \in Compiles : Done(n) => Done(n)' /\ out'[n] = out[n]
    BY <2>1, <2>4, <1>0 DEF Done
  <2>6. \A c \in Chunks : out'[c] = out[c]
    BY <2>1, <2>4, <1>0
  <2>7. ASSUME NEW n \in Compiles
        PROVE  \/ out'[n] = out[n]
               \/ Done(n)' /\ \E q, f : Solid(f) /\ f \in SUBSET (Nodes \X Written)
                                        /\ out'[n] = TextOf(n, q, f)
    <3>1. CASE n \in lost
      <4>1. out'[n] = Stitch(n, input[n])
        BY <3>1, <2>1, <2>4, <1>0 DEF Settled, Durable, NoText
      <4>2. \E q : out'[n] = TextOf(n, q, input[n])
        BY <4>1 DEF Stitch
      <4>3. Done(n)'
        BY <3>1, <2>1, <1>0 DEF Done
      <4>4. Solid(input[n]) /\ input[n] \in SUBSET (Nodes \X Written)
        BY <1>0, <1>2, MadeOfTexts DEF WavesFresh
      <4> QED BY <4>2, <4>3, <4>4
    <3>2. CASE n \notin lost
      BY <3>2, <2>1, <1>0
    <3> QED BY <3>1, <3>2
  <2>8. WavesFresh'
    BY <2>1, <2>5, <2>6, <2>7, <1>2, <1>3, WavesKept
  <2> QED BY <2>8, <1>1, <1>2, BeforeRepairs
<1> QED BY <1>4, <1>5, <1>6, <1>7

\* With no node in the pool and none abandoned, no invocation is at work.
LEMMA NoneAtWork ==
    ASSUME DagTypeOK, Freshness, abandoned = 0, batch = {}, run' = run
    PROVE  \A n \in Nodes, s \in Slots : run'[n][s] = Idle
BY DEF Freshness, Free, DagTypeOK, RunsOK

\* During the repairs the freshness is that of the repairs.
LEMMA DuringRepairs ==
    ASSUME abandoned' = 0, Repairing(phase'), RepairFresh',
           \A n \in Nodes, s \in Slots : run'[n][s] = Idle
    PROVE  Freshness'
BY DEF Freshness, Free, Repairing

\* The sweep stitches only nodes without a text.
LEMMA SweepFresh ==
    ASSUME DagTypeOK, Coverage, Freshness, Sweep
    PROVE  Freshness'
<1>0. Compiles \subseteq Nodes /\ Chunks \subseteq Nodes /\ Chunks \cap Compiles = {}
  BY DocumentDagAssumption DEF Nodes
<1> DEFINE lost == {n \in Compiles : ~Durable(out[n]) /\ status[n] # "completed" /\ Empty(n)}
<1>1. /\ phase = "sweep" /\ phase' = "repair" /\ input' = input /\ run' = run
      /\ path' = path /\ mending' = mending /\ abandoned' = abandoned
      /\ out' = [n \in Nodes |-> IF n \in lost THEN Stitch(n, input[n]) ELSE out[n]]
  BY DEF Sweep, envVars
<1> SUFFICES ASSUME abandoned' = 0 PROVE Freshness'
  BY DEF Freshness
<1>2. WavesFresh
  BY <1>1 DEF Freshness, Repairing
<1>3. path = {} /\ mending = {} /\ batch = {}
  BY <1>1 DEF DagTypeOK, LoopOK, PoolOK
<1>4. \A n \in Compiles : Done(n) => out'[n] = out[n]
  BY <1>0, <1>1 DEF Done
<1>5. \A c \in Chunks : out'[c] = out[c]
  BY <1>0, <1>1
<1>6. ASSUME NEW f \in SUBSET (Nodes \X Written), Solid(f)
      PROVE  \A p \in f : out'[p[1]].q = p[2]
  <2>1. ASSUME NEW p \in f PROVE out'[p[1]].q = p[2]
    <3>1. p[1] \in Nodes /\ out[p[1]].q = p[2] /\ (p[1] \in Compiles => Done(p[1]))
      BY <1>6 DEF Solid
    <3> QED BY <3>1, <1>4, <1>5 DEF Nodes
  <2> QED BY <2>1
<1>7. ASSUME NEW n \in Compiles PROVE \A p \in out'[n].from : out'[p[1]].q = p[2]
  <2>1. /\ Solid(out[n].from) /\ Solid(input[n])
        /\ out[n].from \in SUBSET (Nodes \X Written) /\ input[n] \in SUBSET (Nodes \X Written)
    BY <1>0, <1>2, MadeOfTexts DEF WavesFresh
  <2>2. CASE n \in lost
    <3>1. out'[n] = Stitch(n, input[n])
      BY <2>2, <1>0, <1>1
    <3>2. PICK q : out'[n] = TextOf(n, q, input[n])
      BY <3>1 DEF Stitch
    <3>3. out'[n].q = q /\ out'[n].from = input[n] \cup {<<n, q>>}
      BY <3>2 DEF TextOf
    <3>4. \A p \in {<<n, q>>} : p[1] = n /\ p[2] = q
      OBVIOUS
    <3> QED BY <2>1, <3>3, <3>4, <1>6
  <2>3. CASE n \notin lost
    <3>1. out'[n] = out[n]
      BY <2>3, <1>0, <1>1
    <3> QED BY <3>1, <2>1, <1>6
  <2> QED BY <2>2, <2>3
<1>8. RepairFresh'
  BY <1>1, <1>3, <1>7 DEF RepairFresh, Now
<1>9. \A n \in Nodes, s \in Slots : run'[n][s] = Idle
  BY <1>1, <1>3, NoneAtWork
<1> QED BY <1>1, <1>8, <1>9, DuringRepairs DEF Repairing

\* What the repairs start from.
LEMMA RepairStart ==
    ASSUME DagTypeOK, Coverage, Freshness, abandoned = 0, phase \in {"repair", "recompute"},
           run' = run
    PROVE  /\ RepairFresh /\ \A n \in Nodes, s \in Slots : run'[n][s] = Idle
           /\ \A n \in Nodes : Now(out[n].from)
<1>1. RepairFresh /\ batch = {}
  BY DEF Freshness, Repairing, DagTypeOK, PoolOK
<1>2. \A n \in Nodes, s \in Slots : run'[n][s] = Idle
  BY <1>1, NoneAtWork
<1>3. \A n \in Nodes : Now(out[n].from)
  <2>1. \A c \in Chunks : Now(out[c].from)
    BY ChunkNow DEF Now, Solid
  <2> QED BY <2>1, <1>1 DEF RepairFresh, Nodes
<1> QED BY <1>1, <1>2, <1>3

\* A text names only what its node depends on.
LEMMA NamesBelow ==
    ASSUME DagTypeOK, NEW n \in Nodes, NEW p \in out[n].from
    PROVE  p[1] \in Reach[n] /\ p[1] \in Nodes /\ (n \in Chunks => p[1] = n)
<1>1. out[n].from \subseteq Reach[n] \X Written
  BY DEF DagTypeOK, NodesOK
<1>2. p[1] \in Reach[n]
  BY <1>1
<1> QED BY <1>2, ReachSelf, ReachChunk

\* Clearing a branch clears all that was made of it.
LEMMA ClearFresh ==
    ASSUME DagTypeOK, Coverage, Freshness, ClearBranch
    PROVE  Freshness'
<1>0. Compiles \subseteq Nodes /\ Chunks \subseteq Nodes /\ Chunks \cap Compiles = {}
  BY DocumentDagAssumption DEF Nodes
<1>1. /\ phase = "repair" /\ phase' = phase /\ run' = run /\ abandoned' = abandoned
      /\ mending' = mending
      /\ out' = [n \in Nodes |-> IF n \in path' THEN NoText ELSE out[n]]
  BY DEF ClearBranch, envVars
<1> SUFFICES ASSUME abandoned' = 0 PROVE Freshness'
  BY DEF Freshness
<1>2. /\ RepairFresh /\ \A n \in Nodes, s \in Slots : run'[n][s] = Idle
      /\ \A n \in Nodes : Now(out[n].from)
  BY <1>1, RepairStart
<1>3. /\ path' \subseteq Compiles /\ mending = {}
      /\ \A m \in path', k \in Compiles : m \in Reach[k] => k \in path'
  BY <1>1, ClearType, BranchFacts DEF DagTypeOK, LoopOK
<1>4. ASSUME NEW n \in Compiles PROVE \A p \in out'[n].from : out'[p[1]].q = p[2]
  <2>1. CASE n \in path'
    BY <2>1, <1>0, <1>1 DEF NoText
  <2>2. CASE n \notin path'
    <3> SUFFICES ASSUME NEW p \in out'[n].from PROVE out'[p[1]].q = p[2]
      OBVIOUS
    <3>1. out'[n] = out[n] /\ n \in Nodes
      BY <2>2, <1>0, <1>1
    <3>2. p[1] \in Reach[n] /\ p[1] \in Nodes /\ out[p[1]].q = p[2]
      BY <3>1, <1>2, NamesBelow DEF Now
    <3>3. p[1] \notin path'
      BY <3>2, <2>2, <1>3
    <3> QED BY <3>2, <3>3, <1>1
  <2> QED BY <2>1, <2>2
<1>5. \A n \in path' : out'[n] = NoText /\ Branch(n) \subseteq path'
  BY <1>0, <1>1, <1>3 DEF Branch
<1>6. RepairFresh'
  BY <1>1, <1>3, <1>4, <1>5 DEF RepairFresh, Now, Empty, Branch
<1> QED BY <1>1, <1>2, <1>6, DuringRepairs DEF Repairing

\* The node at the bottom of a branch is recomputed from texts outside of it.
LEMMA StartRepairFresh ==
    ASSUME DagTypeOK, Coverage, Freshness, StartRepair
    PROVE  Freshness'
<1>0. Compiles \subseteq Nodes /\ Chunks \subseteq Nodes /\ Chunks \cap Compiles = {}
  BY DocumentDagAssumption DEF Nodes
<1>1. PICK n \in path : /\ Deps[n] \cap path = {} /\ mending' = {n}
                        /\ input' = [input EXCEPT ![n] = Sources(n)]
  BY DEF StartRepair
<1>2. /\ phase = "repair" /\ phase' = "recompute" /\ run' = run /\ abandoned' = abandoned
      /\ out' = out /\ path' = path
  BY DEF StartRepair, envVars
<1> SUFFICES ASSUME abandoned' = 0 PROVE Freshness'
  BY DEF Freshness
<1>3. /\ RepairFresh /\ \A m \in Nodes, s \in Slots : run'[m][s] = Idle
      /\ \A m \in Nodes : Now(out[m].from)
  BY <1>2, RepairStart
<1>4. n \in Compiles /\ path \subseteq Compiles
  BY DEF DagTypeOK, LoopOK
<1>5. input'[n] = Sources(n)
  BY <1>1, <1>4 DEF DagTypeOK, NodesOK
<1>6. ASSUME NEW p \in Sources(n) PROVE out[p[1]].q = p[2] /\ p[1] \notin path
  <2>1. PICK d \in Deps[n] : p \in IF d \in Compiles /\ Empty(d) THEN input[d] ELSE out[d].from
    BY DEF Sources
  <2>2. d \in Nodes /\ d \notin path
    BY <1>1, <1>4, ReachDirect
  <2>3. p \in out[d].from
    BY <1>2, <2>1, <2>2 DEF Coverage, TextsThere, Repairing
  <2>4. out[p[1]].q = p[2] /\ p[1] \in Reach[d] /\ (d \in Chunks => p[1] = d)
    BY <2>2, <2>3, <1>3, NamesBelow DEF Now
  <2>5. ASSUME p[1] \in path PROVE FALSE
    <3>1. d \in Compiles
      BY <2>2, <2>4, <2>5 DEF Nodes
    <3>2. Branch(p[1]) \subseteq path
      BY <2>5, <1>3 DEF RepairFresh
    <3> QED BY <3>1, <3>2, <2>2, <2>4 DEF Branch
  <2> QED BY <2>4, <2>5
<1>7. \A m \in mending' : /\ Deps[m] \cap path' = {}
                          /\ \A p \in input'[m] : out'[p[1]].q = p[2] /\ p[1] \notin path'
  BY <1>1, <1>2, <1>5, <1>6
<1>8. RepairFresh'
  <2>1. \A m \in Compiles : \A p \in out'[m].from : out'[p[1]].q = p[2]
    BY <1>2, <1>3 DEF RepairFresh, Now
  <2>2. \A m \in path' : out'[m] = NoText /\ Branch(m) \subseteq path'
    BY <1>2, <1>3 DEF RepairFresh, Empty
  <2> QED BY <2>1, <2>2, <1>2, <1>7 DEF RepairFresh, Now, Empty, Branch
<1> QED BY <1>2, <1>3, <1>8, DuringRepairs DEF Repairing

\* The recomputed node leaves the branch; what is above it is still without a text.
LEMMA EndRepairFresh ==
    ASSUME DagTypeOK, Coverage, Freshness, EndRepair
    PROVE  Freshness'
<1>0. Compiles \subseteq Nodes /\ Chunks \subseteq Nodes /\ Chunks \cap Compiles = {}
  BY DocumentDagAssumption DEF Nodes
<1>1. PICK n \in mending : \/ \E t \in Compiled(n, input[n]) : Writes(n, t)
                           \/ Writes(n, Settled(n))
  BY DEF EndRepair
<1>2. /\ phase = "recompute" /\ phase' = "repair" /\ run' = run /\ abandoned' = abandoned
      /\ path' = path \ mending /\ mending' = {} /\ input' = input
  BY DEF EndRepair, envVars
<1> SUFFICES ASSUME abandoned' = 0 PROVE Freshness'
  BY DEF Freshness
<1>3. /\ RepairFresh /\ \A m \in Nodes, s \in Slots : run'[m][s] = Idle
      /\ \A m \in Nodes : Now(out[m].from)
  BY <1>2, RepairStart
<1>4. n \in path /\ mending = {n} /\ path \subseteq Compiles /\ n \in Compiles
  BY <1>1, <1>2 DEF DagTypeOK, LoopOK
<1>5. /\ out[n] = NoText /\ Branch(n) \subseteq path /\ Deps[n] \cap path = {}
      /\ \A p \in input[n] : out[p[1]].q = p[2] /\ p[1] \notin path
  BY <1>3, <1>4 DEF RepairFresh, Empty
<1>6. PICK q : Writes(n, TextOf(n, q, input[n]))
  <2>1. ~Durable(out[n])
    BY <1>5 DEF Durable, NoText
  <2>2. Settled(n) = Stitch(n, input[n])
    BY <2>1 DEF Settled
  <2> QED BY <1>1, <2>2 DEF Stitch, Compiled
<1>7. /\ out'[n] = TextOf(n, q, input[n])
      /\ \A m \in Nodes \ {n} : out'[m] = out[m]
  BY <1>0, <1>4, <1>6 DEF Writes, DagTypeOK, NodesOK
<1>8. out'[n].q = q /\ out'[n].from = input[n] \cup {<<n, q>>}
  BY <1>7 DEF TextOf
<1>9. ASSUME NEW m \in Compiles PROVE \A p \in out'[m].from : out'[p[1]].q = p[2]
  <2> SUFFICES ASSUME NEW p \in out'[m].from PROVE out'[p[1]].q = p[2]
    OBVIOUS
  <2>1. CASE m = n
    <3>1. CASE p \in input[n]
      <4>1. p[1] \in Nodes
        BY <3>1, <1>0, <1>4, MadeOfTexts
      <4>2. p[1] # n /\ out[p[1]].q = p[2]
        BY <3>1, <1>4, <1>5
      <4> QED BY <4>1, <4>2, <1>7
    <3>2. CASE p = <<n, q>>
      BY <3>2, <1>8
    <3> QED BY <2>1, <3>1, <3>2, <1>8
  <2>2. CASE m # n
    <3>1. out'[m] = out[m] /\ m \in Nodes
      BY <2>2, <1>0, <1>7
    <3>2. out[p[1]].q = p[2] /\ p[1] \in Reach[m] /\ p[1] \in Nodes
      BY <3>1, <1>3, NamesBelow DEF Now
    <3>3. p[1] # n
      <4>1. ASSUME p[1] = n PROVE FALSE
        <5>1. m \in path
          BY <4>1, <3>2, <1>5 DEF Branch
        <5>2. out[m].from = {}
          BY <5>1, <1>3 DEF RepairFresh, Empty, NoText
        <5> QED BY <5>2, <3>1
      <4> QED BY <4>1
    <3> QED BY <3>2, <3>3, <1>7
  <2> QED BY <2>1, <2>2
<1>10. ASSUME NEW m \in path' PROVE out'[m] = NoText /\ Branch(m) \subseteq path'
  <2>1. m \in path /\ m # n /\ m \in Compiles /\ m \in Nodes
    BY <1>0, <1>2, <1>4
  <2>2. out[m] = NoText /\ Branch(m) \subseteq path
    BY <2>1, <1>3 DEF RepairFresh, Empty
  <2>3. n \notin Branch(m)
    <3>1. ASSUME m \in Reach[n] PROVE FALSE
      <4>1. PICK d \in Deps[n] : m \in Reach[d]
        BY <3>1, <2>1, <1>4, ReachStep
      <4>2. d \in Nodes
        BY <1>4, ReachDirect
      <4>3. d \in Compiles
        BY <4>1, <4>2, <2>1, <1>0, ReachChunk DEF Nodes
      <4>4. d \in path
        BY <4>1, <4>3, <2>2 DEF Branch
      <4> QED BY <4>4, <1>5
    <3> QED BY <3>1 DEF Branch
  <2> QED BY <2>1, <2>2, <2>3, <1>2, <1>4, <1>7
<1>11. RepairFresh'
  BY <1>2, <1>9, <1>10 DEF RepairFresh, Now, Empty, Branch
<1> QED BY <1>2, <1>3, <1>11, DuringRepairs DEF Repairing

\* The summary is made of the texts the nodes have.
LEMMA DeliverFresh ==
    ASSUME DagTypeOK, Coverage, Freshness, Deliver
    PROVE  Freshness'
<1>0. Compiles \subseteq Nodes /\ Chunks \subseteq Nodes
  BY DEF Nodes
<1>1. /\ phase = "repair" /\ phase' = "done" /\ final' \in Summary /\ UNCHANGED nodeVars
      /\ run' = run /\ abandoned' = abandoned /\ path' = path /\ mending' = mending
  BY DEF Deliver, envVars, repairVars
<1> SUFFICES ASSUME abandoned' = 0 PROVE Freshness'
  BY DEF Freshness
<1>2. /\ RepairFresh /\ \A m \in Nodes, s \in Slots : run'[m][s] = Idle
      /\ \A m \in Nodes : Now(out[m].from)
  BY <1>1, RepairStart
<1>3. FinalNodes \subseteq Nodes
  BY <1>0, DocumentDagAssumption DEF FinalNodes, Completed
<1> DEFINE durable == {n \in FinalNodes : Durable(out[n])}
           all == UNION {out[c].from : c \in Chunks}
<1>4. Now(all) /\ \A set \in SUBSET Nodes : Now(FromAll(set))
  BY <1>0, <1>2 DEF Now, FromAll
<1>5. \/ Summary = {out[n] : n \in durable}
      \/ Summary = {out[n] : n \in FinalNodes}
      \/ Summary = {out[n] : n \in durable} \cup {[q |-> "good", from |-> FromAll(durable)]}
      \/ Summary = {[q |-> "stitch", from |-> FromAll(FinalNodes)]}
      \/ Summary = {[q |-> q, from |-> all] : q \in {"stitch", "good"}}
  BY Zenon DEF Summary
<1>6. durable \in SUBSET Nodes /\ FinalNodes \in SUBSET Nodes
  BY <1>3
<1> HIDE DEF durable, all
<1>7. \/ \E n \in Nodes : final' = out[n]
      \/ final'.from \in {FromAll(durable), FromAll(FinalNodes), all}
  <2>1. CASE Summary = {out[n] : n \in durable}
    BY <2>1, <1>1, <1>6
  <2>2. CASE Summary = {out[n] : n \in FinalNodes}
    BY <2>2, <1>1, <1>6
  <2>3. CASE Summary = {out[n] : n \in durable} \cup {[q |-> "good", from |-> FromAll(durable)]}
    BY <2>3, <1>1, <1>6
  <2>4. CASE Summary = {[q |-> "stitch", from |-> FromAll(FinalNodes)]}
    BY <2>4, <1>1
  <2>5. CASE Summary = {[q |-> q, from |-> all] : q \in {"stitch", "good"}}
    BY <2>5, <1>1
  <2> QED BY <1>5, <2>1, <2>2, <2>3, <2>4, <2>5
<1>8. Now(final'.from)
  BY <1>2, <1>4, <1>6, <1>7
<1>9. RepairFresh'
  BY <1>1, <1>2, <1>8 DEF RepairFresh, Now, Empty, Branch, nodeVars
<1> QED BY <1>1, <1>2, <1>9, DuringRepairs DEF Repairing

\* Initially nothing is stale.
LEMMA InitFresh == Init => Freshness
<1> SUFFICES ASSUME Init PROVE Freshness
  OBVIOUS
<1>1. /\ phase = "map" /\ \A n \in Nodes : out[n] = NoText /\ out[n].from = {}
      /\ \A n \in Compiles : input[n] = {}
      /\ \A n \in Nodes, s \in Slots : run[n][s] = Idle /\ run[n][s].read = {}
  BY DEF Init, Nodes, Idle, NoText
<1>2. WavesFresh
  BY <1>1 DEF WavesFresh, Empty, Solid, Nodes
<1> QED BY <1>1, <1>2 DEF Freshness, Free, Repairing

\* Every step keeps the freshness.
LEMMA StepFresh == ASSUME DagTypeOK, Coverage, Freshness, [Next]_vars PROVE Freshness'
<1>1. ASSUME \E n \in Nodes, s \in Slots : Abandon(n, s) PROVE Freshness'
  <2>1. abandoned' # 0
    BY <1>1, AbandonType
  <2> QED BY <2>1 DEF Freshness
<1>2. ASSUME CeilingNears \/ (\E n \in Nodes : CancelNode(n)) \/ UNCHANGED vars PROVE Freshness'
  <2>1. /\ UNCHANGED <<nodeVars, poolVars, loopVars, run>> /\ abandoned' = abandoned
    BY <1>2, OutsideTypes
  <2>2. /\ UNCHANGED <<status, out, input, batch, phase, path, mending, final, run, abandoned>>
    BY <2>1 DEF nodeVars, poolVars, loopVars, repairVars
  <2>3. RepairFresh => RepairFresh'
    BY <2>2 DEF RepairFresh, Now, Empty, Branch
  <2>4. WavesFresh => WavesFresh'
    BY <2>2 DEF WavesFresh, Solid, Done, Empty
  <2> QED BY <2>2, <2>3, <2>4 DEF Freshness, Free, Repairing
<1> QED BY <1>1, <1>2, StepCases, ChunkFresh, StartCompileFresh, EndCompileFresh, FailCompileFresh,
           WavesStepFresh, SweepFresh, ClearFresh, StartRepairFresh, EndRepairFresh, DeliverFresh

\* The inductive invariant of the module.
DagInv == DagTypeOK /\ Coverage /\ Freshness

\* The invariant always holds.
LEMMA InvariantHolds == Spec => []DagInv
<1>1. Init => DagInv
  BY InitTypes, InitCoverage, InitFresh DEF DagInv
<1>2. DagInv /\ [Next]_vars => DagInv'
  BY StepTypes, StepCoverage, StepFresh DEF DagInv
<1> QED BY <1>1, <1>2, PTL DEF Spec

\* Unless an invocation was abandoned, no summary of a document that is done is stale: each
\* text that went into a node's summary, or into the document's, is the text its node has.
THEOREM SummariesAreFresh == Spec => []Fresh
<1>1. DagInv => Fresh
  <2> SUFFICES ASSUME DagInv, phase = "done", abandoned = 0,
                      NEW t \in {final} \cup {out[n] : n \in Compiles}
               PROVE  \A p \in t.from : out[p[1]].q = p[2]
    BY DEF Fresh
  <2>1. RepairFresh
    BY DEF DagInv, Freshness, Repairing
  <2>2. Now(final.from) /\ \A n \in Compiles : Now(out[n].from)
    BY <2>1 DEF RepairFresh
  <2>3. Now(t.from)
    BY <2>2
  <2> QED BY <2>3 DEF Now
<1> QED BY <1>1, InvariantHolds, PTL

-----------------------------------------------------------------------------
(* What a model has written is kept *)

\* A step that takes a durable text from a node is a repair, or the end of an invocation
\* that runs beside an abandoned one.
LEMMA StepKeepsText ==
    ASSUME DagInv, [Next]_vars, NEW n \in Compiles, Durable(out[n]), ~Durable(out'[n])
    PROVE  \/ phase \in {"repair", "recompute"}
           \/ abandoned > 0 /\ \E s \in Slots : run[n][s].pc # "idle" /\ run'[n][s].pc = "idle"
<1>0. /\ n \in Nodes /\ n \notin Chunks /\ DagTypeOK /\ Coverage /\ Freshness /\ NodesOK
      /\ out'[n] # out[n]
  BY DocumentDagAssumption DEF Nodes, DagInv, DagTypeOK
<1>1. ASSUME NEW c \in Chunks, NEW s \in Slots,
             StartMap(c, s) \/ EndMap(c, s) \/ StartEsc(c, s) \/ EndEsc(c, s)
      PROVE  FALSE
  <2>1. out' = out \/ out' = [out EXCEPT ![c] = ChunkText(c)]
    BY <1>1 DEF StartMap, EndMap, StartEsc, EndEsc, TextKept, Writes
  <2> QED BY <2>1, <1>0 DEF NodesOK
<1>2. ASSUME NEW m \in Compiles, NEW s \in Slots, StartCompile(m, s) \/ FailCompile(m, s)
      PROVE  FALSE
  BY <1>2, <1>0 DEF StartCompile, FailCompile
<1>3. ASSUME NEW m \in Compiles, NEW s \in Slots, EndHeavy(m, s) PROVE FALSE
  <2>1. out' = out \/ \E t : Durable(t) /\ out' = [out EXCEPT ![m] = t]
    BY <1>3 DEF EndHeavy, TextKept, Writes
  <2> QED BY <2>1, <1>0 DEF NodesOK
<1>4. ASSUME NEW m \in Compiles, NEW s \in Slots, EndCompile(m, s)
      PROVE  abandoned > 0 /\ run[n][s].pc # "idle" /\ run'[n][s].pc = "idle"
  <2>1. m = n
    <3>1. \E t : out' = [out EXCEPT ![m] = t]
      BY <1>4 DEF EndCompile, Writes
    <3> QED BY <3>1, <1>0 DEF NodesOK
  <2>2. run[n][s].pc = "compile" /\ run' = [run EXCEPT ![n][s] = Idle]
    BY <1>4, <2>1 DEF EndCompile, Reports, Ends
  <2>3. run'[n][s].pc = "idle"
    BY <2>2, <1>0 DEF DagTypeOK, RunsOK, Idle
  <2>4. abandoned # 0
    <3>1. ASSUME abandoned = 0 PROVE FALSE
      <4>1. n \in batch /\ WavesFresh
        BY <3>1, <2>2, <1>0, AtWork
      <4>2. out[n] = NoText
        BY <4>1 DEF WavesFresh, Done, Empty
      <4> QED BY <4>2 DEF Durable, NoText
    <3> QED BY <3>1
  <2>5. abandoned \in Nat
    BY <1>0, DocumentDagAssumption DEF DagTypeOK
  <2> QED BY <2>2, <2>3, <2>4, <2>5
<1>5. ASSUME (\E m \in Nodes, s \in Slots : Abandon(m, s))
             \/ CeilingNears \/ (\E m \in Nodes : CancelNode(m)) \/ UNCHANGED vars
      PROVE  FALSE
  BY <1>5, <1>0, AbandonType, OutsideTypes DEF nodeVars
<1>6. ASSUME Heal PROVE FALSE
  BY <1>6, <1>0 DEF Heal
<1>7. ASSUME Escalate \/ Judge \/ Plan \/ OpenWave \/ NextDepth \/ NextPass PROVE FALSE
  BY <1>7, <1>0 DEF Escalate, Judge, Plan, OpenWave, NextDepth, NextPass, nodeVars
<1>8. ASSUME CloseWave PROVE FALSE
  <2>1. out'[n] = out[n] \/ out'[n] = Settled(n)
    BY <1>8, <1>0 DEF CloseWave
  <2> QED BY <2>1, <1>0 DEF Settled
<1>9. ASSUME Sweep PROVE FALSE
  BY <1>9, <1>0 DEF Sweep
<1>10. ASSUME ClearBranch \/ StartRepair \/ EndRepair \/ Deliver
       PROVE  phase \in {"repair", "recompute"}
  BY <1>10 DEF ClearBranch, StartRepair, EndRepair, Deliver
<1> QED BY <1>1, <1>2, <1>3, <1>4, <1>5, <1>6, <1>7, <1>8, <1>9, <1>10, StepCases

\* What a model has written for a node is not lost to a fallback before the repairs, unless
\* an invocation that runs beside an abandoned one of the same node writes over it.
THEOREM ModelTextsKept == Spec => ModelTextKept
<1>1. DagInv /\ [Next]_vars =>
        [\A n \in Compiles :
           Durable(out[n]) /\ ~Durable(out'[n]) =>
              \/ phase \in {"repair", "recompute"}
              \/ abandoned > 0 /\ \E s \in Slots : run[n][s].pc # "idle" /\ run'[n][s].pc = "idle"]_vars
  BY StepKeepsText
<1> QED BY <1>1, InvariantHolds, PTL DEF Spec, ModelTextKept

=============================================================================

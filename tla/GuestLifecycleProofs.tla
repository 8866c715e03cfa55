------------------------ MODULE GuestLifecycleProofs ------------------------
(***************************************************************************)
(* Proofs about a guest session: types, what each kind of step does, the     *)
(* inductive invariant GuestInv, and the three safety properties of the      *)
(* clean-up that follow from it.                                             *)
(***************************************************************************)
EXTENDS GuestLifecycle, TLAPS

\* What a job record can be: Absent is told apart by its status.
LEMMA RecordFacts ==
    /\ Absent \in JobRecords
    /\ \A x \in JobRecords :
        /\ x.owner \in Owners
        /\ x = Absent <=> x.status = "absent"
        /\ x = Absent => x.owner = "nobody"
        /\ x # Absent => x.status \in Statuses \cup {"none"}
        /\ x # Absent => x \in [owner : Owners, status : Statuses \cup {"none"}]
    /\ [owner : Owners, status : Statuses \cup {"none"}] \subseteq JobRecords
    /\ \A x \in [owner : Owners, status : Statuses \cup {"none"}] : x # Absent
BY DEF JobRecords, Absent, Owners, Statuses, InFlight, Ended

\* What get_job sees of a job, and what upsert_job leaves of it.
LEMMA SeenRecord ==
    ASSUME GuestTypeOK, NEW j \in Jobs
    PROVE  /\ Fetched(j) \in JobRecords
           /\ Seen(j) \in [owner : Owners, status : Statuses \cup {"none"}]
           /\ Cached(j) \in [owner : Owners, status : Statuses \cup {"none"}]
<1>1. row[j] \in JobRecords /\ cache[j] \in JobRecords
  BY DEF GuestTypeOK, TablesOK
<1>2. [owner |-> "nobody", status |-> "none"] \in [owner : Owners, status : Statuses \cup {"none"}]
  BY DEF Owners
<1> QED BY <1>1, <1>2, RecordFacts DEF Fetched, Seen, Cached

\* What upsert_job leaves of a job: the owner stays when the record written has none, and
\* a finished job is not processing again.
LEMMA UpsertEffect ==
    ASSUME GuestTypeOK, NEW j \in Jobs, NEW st \in Statuses \cup {"none"},
           NEW seen \in [owner : Owners, status : Statuses \cup {"none"}],
           Upsert(j, seen, st)
    PROVE  LET to == IF st = "none" THEN seen.status ELSE st IN
           /\ row' \in [Jobs -> JobRecords] /\ cache' \in [Jobs -> JobRecords]
           /\ \A k \in Jobs \ {j} : row'[k] = row[k] /\ cache'[k] = cache[k]
           /\ row'[j] # Absent /\ cache'[j] # Absent
           /\ cache'[j].owner = seen.owner /\ cache'[j].status = to
           /\ row'[j].owner = IF seen.owner = "nobody" THEN row[j].owner ELSE seen.owner
           /\ to # "none" =>
                row'[j].status = IF row[j].status \in Ended /\ to = "processing"
                                 THEN row[j].status ELSE to
<1> DEFINE to == IF st = "none" THEN seen.status ELSE st
           new == IF st = "none" THEN seen ELSE [seen EXCEPT !.status = st]
<1>1. /\ new \in [owner : Owners, status : Statuses \cup {"none"}]
      /\ new.owner = seen.owner /\ new.status = to
  OBVIOUS
<1>2. row[j] \in JobRecords /\ row \in [Jobs -> JobRecords] /\ cache \in [Jobs -> JobRecords]
  BY DEF GuestTypeOK, TablesOK
<1>3. /\ Persisted(row[j], new) \in [owner : Owners, status : Statuses \cup {"none"}]
      /\ Persisted(row[j], new).owner = IF new.owner = "nobody" THEN row[j].owner ELSE new.owner
      /\ to # "none" => Persisted(row[j], new).status =
            IF row[j].status \in Ended /\ to = "processing" THEN row[j].status ELSE to
  <2> HIDE DEF new, to
  <2>1. CASE row[j] = Absent
    <3>1. Persisted(row[j], new) = [new EXCEPT !.status = IF new.status = "none" THEN "pending" ELSE new.status]
      BY <2>1 DEF Persisted
    <3>2. row[j].owner = "nobody" /\ row[j].status \notin Ended
      BY <2>1 DEF Absent, Ended
    <3>3. "pending" \in Statuses
      BY DEF Statuses, InFlight
    <3> QED BY <1>1, <3>1, <3>2, <3>3
  <2>2. CASE row[j] # Absent
    <3>1. row[j] \in [owner : Owners, status : Statuses \cup {"none"}]
      BY <1>2, <2>2, RecordFacts
    <3>2. Persisted(row[j], new) =
            [owner  |-> IF new.owner = "nobody" THEN row[j].owner ELSE new.owner,
             status |-> IF new.status = "none" \/ (row[j].status \in Ended /\ new.status = "processing")
                        THEN row[j].status ELSE new.status]
      BY <2>2 DEF Persisted
    <3> QED BY <1>1, <3>1, <3>2
  <2> QED BY <2>1, <2>2
<1>4. /\ cache' = [cache EXCEPT ![j] = new]
      /\ row' = [row EXCEPT ![j] = Persisted(row[j], new)]
  BY DEF Upsert
<1> HIDE DEF new
<1> QED BY <1>1, <1>2, <1>3, <1>4, RecordFacts

-----------------------------------------------------------------------------
(* Types *)

\* A request that takes a step keeps the types of the requests.
LEMMA RequestMoves ==
    ASSUME RequestsOK, NEW r \in Requests, NEW x \in RequestRecords,
           x.pc \in OnJob => x.job \in Jobs,
           x.pc = "retaining" => x.todo \subseteq Jobs,
           x.pc \in {"answering", "appending"} => x.todo \subseteq Convs,
           req' = [req EXCEPT ![r] = x]
    PROVE  RequestsOK'
BY DEF RequestsOK

\* So does one that is answered ...
LEMMA RequestRests ==
    ASSUME RequestsOK, NEW r \in Requests, Answer(r)
    PROVE  RequestsOK'
<1>1. /\ Idle \in RequestRecords
      /\ Idle.pc \notin OnJob /\ Idle.pc \notin {"retaining", "answering", "appending"}
  BY DEF Idle, RequestRecords, OnJob
<1> HIDE DEF Idle
<1> QED BY <1>1, RequestMoves DEF Answer

\* ... and one that goes on with what it has.
LEMMA RequestGoes ==
    ASSUME RequestsOK, NEW r \in Requests,
           NEW pc \in {"upload", "chat", "transfer", "commit"} \cup OnJob, Goes(r, pc),
           pc \in OnJob => req[r].job \in Jobs,
           pc = "retaining" => req[r].todo \subseteq Jobs,
           pc \in {"answering", "appending"} => req[r].todo \subseteq Convs
    PROVE  RequestsOK'
<1> DEFINE x == [req[r] EXCEPT !.pc = pc]
<1>1. req[r] \in RequestRecords
  BY DEF RequestsOK
<1>2. x \in RequestRecords /\ x.pc = pc /\ x.job = req[r].job /\ x.todo = req[r].todo
  BY <1>1 DEF RequestRecords
<1>3. req' = [req EXCEPT ![r] = x]
  BY DEF Goes
<1> HIDE DEF x
<1> QED BY <1>2, <1>3, RequestMoves

\* Every step of a request keeps the types.
LEMMA RequestTypes ==
    ASSUME GuestTypeOK, NEW r \in Requests, RequestStep(r)
    PROVE  GuestTypeOK'
<1> USE DEF GuestTypeOK
<1>1. CASE Ingest(r)
  <2>1. SessionOK'
    BY <1>1 DEF SessionOK, RequestsOK, RequestRecords, Ingest, Stamped, Owners
  <2>2. TablesOK'
    BY <1>1, RecordFacts DEF TablesOK, SessionOK, RequestsOK, OnJob, Ingest, Stamped, Owners
  <2>3. RequestsOK'
    <3>1. PICK j \in Jobs : req' = [req EXCEPT ![r].pc = "enqueue", ![r].job = j]
      BY <1>1 DEF Ingest
    <3> DEFINE x == [req[r] EXCEPT !.pc = "enqueue", !.job = j]
    <3>2. x \in RequestRecords /\ x.pc = "enqueue" /\ x.job = j
      BY DEF RequestsOK, RequestRecords, OnJob
    <3>3. req' = [req EXCEPT ![r] = x]
      BY <3>1
    <3> HIDE DEF x
    <3> QED BY <3>2, <3>3, RequestMoves
  <2>4. ThreadsOK'
    BY <1>1 DEF ThreadsOK, Ingest, Stamped, Owners
  <2> QED BY <2>1, <2>2, <2>3, <2>4
<1>2. CASE Enqueue(r)
  <2>1. SessionOK'
    BY <1>2 DEF SessionOK, RequestsOK, RequestRecords, Enqueue
  <2>2. TablesOK'
    <3>1. /\ req[r].job \in Jobs /\ "pending" \in Statuses \cup {"none"}
          /\ [owner |-> "guest", status |-> "pending"]
                \in [owner : Owners, status : Statuses \cup {"none"}]
          /\ Upsert(req[r].job, [owner |-> "guest", status |-> "pending"], "pending")
          /\ UNCHANGED <<doc, conv>>
      BY <1>2 DEF RequestsOK, OnJob, Enqueue, Owners, Statuses, InFlight
    <3> QED BY <3>1, UpsertEffect DEF TablesOK
  <2>3. RequestsOK'
    BY <1>2, RequestGoes, RequestRests DEF RequestsOK, OnJob, Enqueue
  <2>4. ThreadsOK'
    BY <1>2 DEF ThreadsOK, Enqueue
  <2> QED BY <2>1, <2>2, <2>3, <2>4
<1>3. CASE RetainList(r)
  <2>1. SessionOK'
    BY <1>3 DEF SessionOK, RequestsOK, RequestRecords, RetainList
  <2>2. TablesOK'
    BY <1>3, RecordFacts DEF TablesOK, SessionOK, RequestsOK, OnJob, RetainList
  <2>3. RequestsOK'
    <3> DEFINE x == [req[r] EXCEPT !.pc = "retaining", !.todo = Guests \ {req[r].job}]
    <3>1. x \in RequestRecords /\ x.pc = "retaining" /\ x.job = req[r].job /\ x.todo \subseteq Jobs
      BY DEF RequestsOK, RequestRecords, OnJob, Guests
    <3>2. req[r].job \in Jobs /\ req' = [req EXCEPT ![r] = x]
      BY <1>3 DEF RetainList, RequestsOK, OnJob
    <3> HIDE DEF x
    <3> QED BY <3>1, <3>2, RequestMoves
  <2>4. ThreadsOK'
    BY <1>3 DEF ThreadsOK, RetainList
  <2> QED BY <2>1, <2>2, <2>3, <2>4
<1>4. CASE RetainPurge(r)
  <2>1. SessionOK'
    BY <1>4 DEF SessionOK, RequestsOK, RequestRecords, RetainPurge, Purged
  <2>2. TablesOK'
    BY <1>4, RecordFacts DEF TablesOK, SessionOK, RequestsOK, OnJob, RetainPurge, Purged
  <2>3. RequestsOK'
    <3>1. PICK j \in req[r].todo : req' = [req EXCEPT ![r].todo = @ \ {j}]
      BY <1>4 DEF RetainPurge
    <3>2. req[r].pc = "retaining" /\ req[r].todo \subseteq Jobs /\ req[r].job \in Jobs
      BY <1>4 DEF RetainPurge, RequestsOK, OnJob
    <3> DEFINE x == [req[r] EXCEPT !.todo = @ \ {j}]
    <3>3. x \in RequestRecords /\ x.pc = "retaining" /\ x.job = req[r].job /\ x.todo \subseteq Jobs
      BY <3>2 DEF RequestsOK, RequestRecords
    <3>4. req' = [req EXCEPT ![r] = x]
      BY <3>1
    <3> HIDE DEF x
    <3> QED BY <3>2, <3>3, <3>4, RequestMoves
  <2>4. ThreadsOK'
    BY <1>4 DEF ThreadsOK, RetainPurge, Purged
  <2> QED BY <2>1, <2>2, <2>3, <2>4
<1>5. CASE RetainDone(r)
  <2>1. SessionOK'
    BY <1>5 DEF SessionOK, RequestsOK, RequestRecords, RetainDone
  <2>2. TablesOK'
    BY <1>5, RecordFacts DEF TablesOK, SessionOK, RequestsOK, OnJob, RetainDone
  <2>3. RequestsOK'
    BY <1>5, RequestGoes, RequestRests DEF RequestsOK, OnJob, RetainDone
  <2>4. ThreadsOK'
    BY <1>5 DEF ThreadsOK, RetainDone
  <2> QED BY <2>1, <2>2, <2>3, <2>4
<1>6. CASE ChatOpen(r)
  <2>1. SessionOK'
    BY <1>6 DEF SessionOK, RequestsOK, RequestRecords, ChatOpen
  <2>2. TablesOK'
    <3>1. \A j \in Jobs : Fetched(j) \in JobRecords
      BY SeenRecord
    <3> QED BY <1>6, <3>1 DEF TablesOK, SessionOK, ChatOpen
  <2>3. RequestsOK'
    <3>1. PICK j \in Jobs : \/ req' = [req EXCEPT ![r].pc = "counting", ![r].job = j]
                            \/ Answer(r)
      BY <1>6 DEF ChatOpen, SessionOK
    <3>2. CASE req' = [req EXCEPT ![r].pc = "counting", ![r].job = j]
      <4> DEFINE x == [req[r] EXCEPT !.pc = "counting", !.job = j]
      <4>1. x \in RequestRecords /\ x.pc = "counting" /\ x.job = j
        BY DEF RequestsOK, RequestRecords, OnJob
      <4>2. req' = [req EXCEPT ![r] = x]
        BY <3>2
      <4> HIDE DEF x
      <4> QED BY <4>1, <4>2, RequestMoves
    <3> QED BY <3>1, <3>2, RequestRests
  <2>4. ThreadsOK'
    BY <1>6 DEF ThreadsOK, ChatOpen
  <2> QED BY <2>1, <2>2, <2>3, <2>4
<1>7. CASE ChatCount(r)
  <2>1. SessionOK'
    BY <1>7 DEF SessionOK, RequestsOK, RequestRecords, ChatCount
  <2>2. TablesOK'
    BY <1>7, RecordFacts DEF TablesOK, SessionOK, RequestsOK, OnJob, ChatCount
  <2>3. RequestsOK'
    <3> DEFINE x == [req[r] EXCEPT !.pc = "counted", !.count = chats]
    <3>1. x \in RequestRecords /\ x.pc = "counted" /\ x.job = req[r].job
      BY DEF RequestsOK, RequestRecords, OnJob, SessionOK
    <3>2. req[r].job \in Jobs /\ req' = [req EXCEPT ![r] = x]
      BY <1>7 DEF ChatCount, RequestsOK, OnJob
    <3> HIDE DEF x
    <3> QED BY <3>1, <3>2, RequestMoves
  <2>4. ThreadsOK'
    BY <1>7 DEF ThreadsOK, ChatCount
  <2> QED BY <2>1, <2>2, <2>3, <2>4
<1>8. CASE ChatCounted(r)
  <2>1. SessionOK'
    BY <1>8 DEF SessionOK, RequestsOK, RequestRecords, ChatCounted
  <2>2. TablesOK'
    BY <1>8, RecordFacts DEF TablesOK, SessionOK, RequestsOK, OnJob, ChatCounted
  <2>3. RequestsOK'
    BY <1>8, RequestGoes, RequestRests DEF RequestsOK, OnJob, ChatCounted
  <2>4. ThreadsOK'
    BY <1>8 DEF ThreadsOK, ChatCounted
  <2> QED BY <2>1, <2>2, <2>3, <2>4
<1>9. CASE ChatStart(r)
  <2>1. SessionOK'
    BY <1>9 DEF SessionOK, RequestsOK, RequestRecords, ChatStart, Saved, Owners
  <2>2. TablesOK'
    BY <1>9, RecordFacts DEF TablesOK, SessionOK, RequestsOK, OnJob, ChatStart, Saved, Owners
  <2>3. RequestsOK'
    <3>1. PICK c \in Convs : \/ req' = [req EXCEPT ![r].pc = "answering", ![r].todo = {c}]
                             \/ Answer(r)
      BY <1>9 DEF ChatStart
    <3>2. CASE req' = [req EXCEPT ![r].pc = "answering", ![r].todo = {c}]
      <4> DEFINE x == [req[r] EXCEPT !.pc = "answering", !.todo = {c}]
      <4>1. x \in RequestRecords /\ x.pc = "answering" /\ x.job = req[r].job /\ x.todo = {c}
        BY DEF RequestsOK, RequestRecords, OnJob
      <4>2. req[r].job \in Jobs /\ req' = [req EXCEPT ![r] = x]
        BY <1>9, <3>2 DEF ChatStart, RequestsOK, OnJob
      <4> HIDE DEF x
      <4> QED BY <4>1, <4>2, RequestMoves
    <3> QED BY <3>1, <3>2, RequestRests
  <2>4. ThreadsOK'
    BY <1>9 DEF ThreadsOK, ChatStart, Saved, Owners
  <2> QED BY <2>1, <2>2, <2>3, <2>4
<1>10. CASE ChatAppend(r)
  <2>1. SessionOK'
    BY <1>10 DEF SessionOK, RequestsOK, RequestRecords, ChatAppend
  <2>2. TablesOK'
    BY <1>10, RecordFacts DEF TablesOK, SessionOK, RequestsOK, OnJob, ChatAppend
  <2>3. RequestsOK'
    BY <1>10, RequestGoes, RequestRests DEF RequestsOK, OnJob, ChatAppend
  <2>4. ThreadsOK'
    BY <1>10 DEF ThreadsOK, ChatAppend
  <2> QED BY <2>1, <2>2, <2>3, <2>4
<1>11. CASE ChatSave(r)
  <2>1. SessionOK'
    BY <1>11 DEF SessionOK, RequestsOK, RequestRecords, ChatSave, Saved, Owners
  <2>2. TablesOK'
    BY <1>11, RecordFacts DEF TablesOK, SessionOK, RequestsOK, OnJob, ChatSave, Saved, Owners
  <2>3. RequestsOK'
    BY <1>11, RequestGoes, RequestRests DEF RequestsOK, OnJob, ChatSave, Saved, Owners
  <2>4. ThreadsOK'
    BY <1>11 DEF ThreadsOK, ChatSave, Saved, Owners
  <2> QED BY <2>1, <2>2, <2>3, <2>4
<1>12. CASE Transfer(r)
  <2>1. SessionOK'
    BY <1>12 DEF SessionOK, RequestsOK, RequestRecords, Transfer
  <2>2. TablesOK'
    BY <1>12, RecordFacts DEF TablesOK, SessionOK, RequestsOK, OnJob, Transfer
  <2>3. RequestsOK'
    BY <1>12, RequestGoes, RequestRests DEF RequestsOK, OnJob, Transfer
  <2>4. ThreadsOK'
    BY <1>12 DEF ThreadsOK, Transfer
  <2> QED BY <2>1, <2>2, <2>3, <2>4
<1>13. CASE TransferCommit(r)
  <2>1. SessionOK'
    BY <1>13 DEF SessionOK, RequestsOK, RequestRecords, TransferCommit, Transferred, ToUser
  <2>2. TablesOK'
    <3>1. ASSUME NEW x \in JobRecords PROVE [x EXCEPT !.owner = ToUser(@)] \in JobRecords
      BY DEF JobRecords, Absent, Owners, ToUser
    <3>2. ASSUME NEW x \in [owner : Owners, doc : Jobs]
          PROVE  [x EXCEPT !.owner = ToUser(@)] \in [owner : Owners, doc : Jobs]
      BY DEF Owners, ToUser
    <3>3. /\ row' = [j \in Jobs |-> [row[j] EXCEPT !.owner = ToUser(@)]]
          /\ doc' = [j \in Jobs |-> ToUser(doc[j])] /\ UNCHANGED cache
          /\ conv' = [c \in Convs |-> IF conv[c] = NoOne THEN NoOne
                                      ELSE [conv[c] EXCEPT !.owner = ToUser(@)]]
      BY <1>13 DEF TransferCommit, Transferred
    <3>4. row' \in [Jobs -> JobRecords] /\ cache' \in [Jobs -> JobRecords]
      BY <3>1, <3>3 DEF TablesOK
    <3>5. doc' \in [Jobs -> Owners \cup {"absent"}]
      BY <3>3 DEF TablesOK, Owners, ToUser
    <3>6. conv' \in [Convs -> [owner : Owners, doc : Jobs] \cup {NoOne}]
      BY <3>2, <3>3 DEF TablesOK
    <3> QED BY <3>4, <3>5, <3>6 DEF TablesOK
  <2>3. RequestsOK'
    BY <1>13, RequestGoes, RequestRests DEF RequestsOK, OnJob, TransferCommit, Transferred, ToUser
  <2>4. ThreadsOK'
    BY <1>13 DEF ThreadsOK, TransferCommit
  <2> QED BY <2>1, <2>2, <2>3, <2>4
<1> QED BY <1>1, <1>2, <1>3, <1>4, <1>5, <1>6, <1>7, <1>8, <1>9, <1>10, <1>11, <1>12, <1>13 DEF RequestStep

\* So does taking a request in ...
LEMMA AdmissionTypes ==
    ASSUME GuestTypeOK, NEW r \in Requests,
           (\E kind \in {"upload", "chat"} : Admit(r, kind)) \/ Upgrade(r)
    PROVE  GuestTypeOK'
<1>1. ASSUME NEW kind \in {"upload", "chat"}, Admit(r, kind) PROVE GuestTypeOK'
  <2>1. SessionOK'
    BY <1>1 DEF Admit, Touched, GuestTypeOK, SessionOK
  <2>2. RequestsOK'
    BY <1>1, RequestGoes DEF Admit, GuestTypeOK, RequestsOK, OnJob
  <2> QED BY <1>1, <2>1, <2>2 DEF Admit, GuestTypeOK, TablesOK, ThreadsOK
<1>2. CASE Upgrade(r)
  <2>1. SessionOK'
    BY <1>2 DEF Upgrade, GuestTypeOK, SessionOK
  <2>2. RequestsOK'
    BY <1>2, RequestGoes DEF Upgrade, GuestTypeOK, RequestsOK, OnJob
  <2> QED BY <1>2, <2>1, <2>2 DEF Upgrade, GuestTypeOK, TablesOK, ThreadsOK
<1> QED BY <1>1, <1>2

\* ... a poll or a step of the worker ...
LEMMA WorkerTypes ==
    ASSUME GuestTypeOK, NEW j \in Jobs, Poll(j) \/ Progress(j) \/ WorkerStep(j)
    PROVE  GuestTypeOK'
<1>1. /\ Fetched(j) \in JobRecords
      /\ Seen(j) \in [owner : Owners, status : Statuses \cup {"none"}]
      /\ Cached(j) \in [owner : Owners, status : Statuses \cup {"none"}]
      /\ row[j] \in JobRecords /\ worker[j].owner \in Owners /\ worker[j].tries \in Nat
  BY SeenRecord DEF GuestTypeOK, TablesOK, ThreadsOK
<1>2. {"pending", "processing", "complete", "error", "none"} \subseteq Statuses \cup {"none"}
  BY DEF Statuses, InFlight, Ended
<1>3. CASE Poll(j)
  <2>1. SessionOK' /\ RequestsOK'
    BY <1>3 DEF GuestTypeOK, SessionOK, RequestsOK, WorkerOnly, Poll
  <2>2. TablesOK'
    BY <1>1, <1>2, <1>3, UpsertEffect DEF GuestTypeOK, TablesOK, WorkerOnly, Poll
  <2>3. ThreadsOK'
    BY <1>1, <1>3 DEF GuestTypeOK, ThreadsOK, WorkerOnly, Runs, Poll
  <2> QED BY <2>1, <2>2, <2>3 DEF GuestTypeOK
<1>4. CASE Progress(j)
  <2>1. SessionOK' /\ RequestsOK'
    BY <1>4 DEF GuestTypeOK, SessionOK, RequestsOK, WorkerOnly, Progress
  <2>2. TablesOK'
    BY <1>1, <1>2, <1>4, UpsertEffect DEF GuestTypeOK, TablesOK, WorkerOnly, Progress
  <2>3. ThreadsOK'
    BY <1>1, <1>4 DEF GuestTypeOK, ThreadsOK, WorkerOnly, Runs, Progress
  <2> QED BY <2>1, <2>2, <2>3 DEF GuestTypeOK
<1>5. CASE Claim(j)
  <2>1. SessionOK' /\ RequestsOK'
    BY <1>5 DEF GuestTypeOK, SessionOK, RequestsOK, WorkerOnly, Claim
  <2>2. TablesOK'
    <3> DEFINE x == [row[j] EXCEPT !.status = "processing"]
    <3>1. x \in JobRecords
      <4>1. row[j] # Absent
        BY <1>5 DEF Claim, Absent
      <4> QED BY <1>1, <1>2, <4>1, RecordFacts
    <3>2. row' = [row EXCEPT ![j] = x] /\ cache' = [cache EXCEPT ![j] = row'[j]]
          /\ UNCHANGED <<doc, conv>>
      BY <1>5 DEF Claim, WorkerOnly
    <3> HIDE DEF x
    <3> QED BY <3>1, <3>2 DEF GuestTypeOK, TablesOK
  <2>3. ThreadsOK'
    <3>1. worker' = [worker EXCEPT ![j] =
                       [pc |-> "claimed", owner |-> row[j].owner, tries |-> worker[j].tries + 1]]
          /\ UNCHANGED cleaner
      BY <1>5 DEF Claim, WorkerOnly
    <3>2. row[j].owner \in Owners
      BY <1>1, RecordFacts
    <3> QED BY <1>1, <3>1, <3>2 DEF GuestTypeOK, ThreadsOK
  <2> QED BY <2>1, <2>2, <2>3 DEF GuestTypeOK
<1>6. CASE Begin(j)
  <2>1. SessionOK' /\ RequestsOK'
    BY <1>6 DEF GuestTypeOK, SessionOK, RequestsOK, WorkerOnly, Begin
  <2>2. TablesOK'
    BY <1>1, <1>2, <1>6, UpsertEffect DEF GuestTypeOK, TablesOK, WorkerOnly, Begin, Stamped
  <2>3. ThreadsOK'
    BY <1>1, <1>6 DEF GuestTypeOK, ThreadsOK, WorkerOnly, Runs, Begin
  <2> QED BY <2>1, <2>2, <2>3 DEF GuestTypeOK
<1>7. CASE RunFails(j)
  <2>1. SessionOK' /\ RequestsOK'
    BY <1>7 DEF GuestTypeOK, SessionOK, RequestsOK, WorkerOnly, RunFails
  <2>2. TablesOK'
    BY <1>1, <1>2, <1>7, UpsertEffect DEF GuestTypeOK, TablesOK, WorkerOnly, RunFails, FailTo
  <2>3. ThreadsOK'
    BY <1>1, <1>7 DEF GuestTypeOK, ThreadsOK, WorkerOnly, Runs, RunFails
  <2> QED BY <2>1, <2>2, <2>3 DEF GuestTypeOK
<1>8. CASE Deliver(j)
  <2>1. SessionOK' /\ RequestsOK'
    BY <1>8 DEF GuestTypeOK, SessionOK, RequestsOK, WorkerOnly, Deliver
  <2>2. TablesOK'
    BY <1>1, <1>2, <1>8, UpsertEffect DEF GuestTypeOK, TablesOK, WorkerOnly, Deliver
  <2>3. ThreadsOK'
    BY <1>1, <1>8 DEF GuestTypeOK, ThreadsOK, WorkerOnly, Runs, Deliver
  <2> QED BY <2>1, <2>2, <2>3 DEF GuestTypeOK
<1>9. CASE Store(j)
  <2>1. SessionOK' /\ RequestsOK'
    BY <1>9 DEF GuestTypeOK, SessionOK, RequestsOK, WorkerOnly, Store
  <2>2. TablesOK'
    BY <1>1, <1>2, <1>9, UpsertEffect DEF GuestTypeOK, TablesOK, WorkerOnly, Store, Stamped
  <2>3. ThreadsOK'
    BY <1>1, <1>9 DEF GuestTypeOK, ThreadsOK, WorkerOnly, Runs, Store
  <2> QED BY <2>1, <2>2, <2>3 DEF GuestTypeOK
<1>10. CASE Finalize(j)
  <2>1. SessionOK' /\ RequestsOK'
    BY <1>10 DEF GuestTypeOK, SessionOK, RequestsOK, WorkerOnly, Finalize
  <2>2. TablesOK'
    BY <1>1, <1>2, <1>10, UpsertEffect DEF GuestTypeOK, TablesOK, WorkerOnly, Finalize, Stamped
  <2>3. ThreadsOK'
    BY <1>1, <1>10 DEF GuestTypeOK, ThreadsOK, WorkerOnly, Runs, Finalize
  <2> QED BY <2>1, <2>2, <2>3 DEF GuestTypeOK
<1>11. CASE Patch(j)
  <2>1. SessionOK' /\ RequestsOK'
    BY <1>11 DEF GuestTypeOK, SessionOK, RequestsOK, WorkerOnly, Patch
  <2>2. TablesOK'
    BY <1>1, <1>2, <1>11, UpsertEffect DEF GuestTypeOK, TablesOK, WorkerOnly, Patch
  <2>3. ThreadsOK'
    BY <1>1, <1>11 DEF GuestTypeOK, ThreadsOK, WorkerOnly, Runs, Patch
  <2> QED BY <2>1, <2>2, <2>3 DEF GuestTypeOK
<1> QED BY <1>3, <1>4, <1>5, <1>6, <1>7, <1>8, <1>9, <1>10, <1>11 DEF WorkerStep

\* ... and the end of a session.
LEMMA CleanerTypes ==
    ASSUME GuestTypeOK, RunsOut \/ CleanerStep
    PROVE  GuestTypeOK'
<1>1. CASE RunsOut
  <2>1. SessionOK' /\ RequestsOK'
    BY <1>1 DEF GuestTypeOK, SessionOK, RequestsOK, CleanerOnly, RunsOut
  <2>2. TablesOK'
    BY <1>1, RecordFacts DEF GuestTypeOK, TablesOK, CleanerOnly, RunsOut
  <2>3. ThreadsOK'
    BY <1>1 DEF GuestTypeOK, ThreadsOK, CleanerOnly, RunsOut
  <2> QED BY <2>1, <2>2, <2>3 DEF GuestTypeOK
<1>2. CASE ListExpired
  <2>1. SessionOK' /\ RequestsOK'
    BY <1>2 DEF GuestTypeOK, SessionOK, RequestsOK, CleanerOnly, ListExpired, Marked
  <2>2. TablesOK'
    BY <1>2, RecordFacts DEF GuestTypeOK, TablesOK, CleanerOnly, ListExpired, Marked
  <2>3. ThreadsOK'
    BY <1>2 DEF GuestTypeOK, ThreadsOK, CleanerOnly, ListExpired, Marked
  <2> QED BY <2>1, <2>2, <2>3 DEF GuestTypeOK
<1>3. CASE Recheck
  <2>1. SessionOK' /\ RequestsOK'
    BY <1>3 DEF GuestTypeOK, SessionOK, RequestsOK, CleanerOnly, Recheck, Resting
  <2>2. TablesOK'
    BY <1>3, RecordFacts DEF GuestTypeOK, TablesOK, CleanerOnly, Recheck, Resting
  <2>3. ThreadsOK'
    BY <1>3 DEF GuestTypeOK, ThreadsOK, CleanerOnly, Recheck, Resting
  <2> QED BY <2>1, <2>2, <2>3 DEF GuestTypeOK
<1>4. CASE Collect
  <2>1. SessionOK' /\ RequestsOK'
    BY <1>4 DEF GuestTypeOK, SessionOK, RequestsOK, CleanerOnly, Collect, Guests, GuestDocs, GuestConvs
  <2>2. TablesOK'
    BY <1>4, RecordFacts DEF GuestTypeOK, TablesOK, CleanerOnly, Collect, Guests, GuestDocs, GuestConvs
  <2>3. ThreadsOK'
    BY <1>4 DEF GuestTypeOK, ThreadsOK, CleanerOnly, Collect, Guests, GuestDocs, GuestConvs
  <2> QED BY <2>1, <2>2, <2>3 DEF GuestTypeOK
<1>5. CASE Finish
  <2>1. SessionOK' /\ RequestsOK'
    BY <1>5 DEF GuestTypeOK, SessionOK, RequestsOK, CleanerOnly, Finish, Resting
  <2>2. TablesOK'
    BY <1>5, RecordFacts DEF GuestTypeOK, TablesOK, CleanerOnly, Finish, Resting
  <2>3. ThreadsOK'
    BY <1>5 DEF GuestTypeOK, ThreadsOK, CleanerOnly, Finish, Resting
  <2> QED BY <2>1, <2>2, <2>3 DEF GuestTypeOK
<1>6. ASSUME NEW j \in Jobs, PurgeJob(j) PROVE GuestTypeOK'
  <2>1. SessionOK' /\ RequestsOK'
    BY <1>6 DEF GuestTypeOK, SessionOK, RequestsOK, CleanerOnly, PurgeJob, Purged
  <2>2. TablesOK'
    BY <1>6, RecordFacts DEF GuestTypeOK, TablesOK, CleanerOnly, PurgeJob, Purged
  <2>3. ThreadsOK'
    BY <1>6 DEF GuestTypeOK, ThreadsOK, CleanerOnly, PurgeJob, Purged
  <2> QED BY <2>1, <2>2, <2>3 DEF GuestTypeOK
<1>7. ASSUME NEW d \in Jobs, PurgeDoc(d) PROVE GuestTypeOK'
  <2>1. SessionOK' /\ RequestsOK'
    BY <1>7 DEF GuestTypeOK, SessionOK, RequestsOK, CleanerOnly, PurgeDoc
  <2>2. TablesOK'
    BY <1>7, RecordFacts DEF GuestTypeOK, TablesOK, CleanerOnly, PurgeDoc
  <2>3. ThreadsOK'
    BY <1>7 DEF GuestTypeOK, ThreadsOK, CleanerOnly, PurgeDoc
  <2> QED BY <2>1, <2>2, <2>3 DEF GuestTypeOK
<1>8. ASSUME NEW c \in Convs, PurgeConv(c) PROVE GuestTypeOK'
  <2>1. SessionOK' /\ RequestsOK'
    BY <1>8 DEF GuestTypeOK, SessionOK, RequestsOK, CleanerOnly, PurgeConv
  <2>2. TablesOK'
    BY <1>8, RecordFacts DEF GuestTypeOK, TablesOK, CleanerOnly, PurgeConv
  <2>3. ThreadsOK'
    BY <1>8 DEF GuestTypeOK, ThreadsOK, CleanerOnly, PurgeConv
  <2> QED BY <2>1, <2>2, <2>3 DEF GuestTypeOK
<1> QED BY <1>1, <1>2, <1>3, <1>4, <1>5, <1>6, <1>7, <1>8 DEF CleanerStep

-----------------------------------------------------------------------------
(* What the invariants rest on. *)

\* The cache holds no job the table has not, and agrees with it on the status.
CacheOK ==
    \A j \in Jobs :
        /\ row[j].status # "none"
        /\ cache[j] # Absent => row[j] # Absent /\ cache[j].status = row[j].status

\* A job that is claimed or runs is marked processing, or its row is gone.
AtWork ==
    \A j \in Jobs : worker[j].pc \in {"claimed", "running"} =>
        row[j] = Absent \/ row[j].status = "processing"

\* A job that no row, no cached record and no worker knows.
Unused(j) == row[j] = Absent /\ cache[j] = Absent /\ worker[j].pc = "idle"

\* What a step of the worker, or a poll, does to job j: owners are handed on and none
\* is invented, a finished job stays finished, and the document is stamped with the
\* owner of the claim or of the job's record.
JobStep(j) ==
    /\ UNCHANGED <<session, chats, conv, req, made, issued, cleaner, failed>>
    /\ \A k \in Jobs \ {j} : /\ row'[k] = row[k] /\ cache'[k] = cache[k]
                             /\ doc'[k] = doc[k] /\ worker'[k] = worker[k]
    /\ row'[j].status # "none"
    /\ cache'[j] # Absent => row'[j] # Absent /\ cache'[j].status = row'[j].status
    /\ worker'[j].pc \in {"claimed", "running"} =>
          row'[j] = Absent \/ row'[j].status = "processing"
    /\ row'[j].owner # row[j].owner =>
          /\ row[j].status = "processing"
          /\ row'[j].owner = cache[j].owner /\ row'[j].owner # "nobody"
    /\ cache'[j].owner \in {"nobody", row[j].owner, cache[j].owner}
    /\ cache'[j].owner # "nobody" =>
          \/ row'[j].owner = cache'[j].owner
          \/ row'[j] = row[j] /\ cache'[j] = cache[j]
    /\ row[j].status \in Ended => row'[j].status \in Ended
    /\ worker'[j].owner \in {worker[j].owner, row[j].owner}
    /\ worker'[j].pc = "claimed" =>
          \/ row'[j].status = "processing" /\ row'[j].owner = worker'[j].owner
          \/ row'[j] = row[j] /\ worker'[j] = worker[j]
    /\ \/ doc'[j] \in {doc[j], "nobody"}
       \/ worker[j].pc = "claimed" /\ doc'[j] = worker[j].owner
       \/ doc'[j] = row[j].owner

\* Every poll and every step of the worker is such a step.
LEMMA JobSteps ==
    ASSUME GuestTypeOK, CacheOK, AtWork, NEW j \in Jobs,
           Poll(j) \/ Progress(j) \/ WorkerStep(j)
    PROVE  JobStep(j)
<1>1. /\ row[j] \in JobRecords /\ cache[j] \in JobRecords /\ Fetched(j) \in JobRecords
      /\ Seen(j) \in [owner : Owners, status : Statuses \cup {"none"}]
      /\ Cached(j) \in [owner : Owners, status : Statuses \cup {"none"}]
      /\ worker \in [Jobs -> [pc : {"idle", "claimed", "running", "storing", "finalizing",
                                    "patching"}, owner : Owners, tries : Nat]]
      /\ row \in [Jobs -> JobRecords] /\ cache \in [Jobs -> JobRecords]
      /\ doc \in [Jobs -> Owners \cup {"absent"}]
  BY SeenRecord DEF GuestTypeOK, TablesOK, ThreadsOK
<1>2. /\ row[j] = Absent => cache[j] = Absent
      /\ row[j].status # "none" /\ cache[j].status # "none"
      /\ cache[j] # Absent => cache[j].status = row[j].status
      /\ worker[j].pc \in {"claimed", "running"} => row[j] = Absent \/ row[j].status = "processing"
  <2>1. Absent.status # "none"
    BY DEF Absent
  <2> QED BY <1>1, <2>1 DEF CacheOK, AtWork
<1>3. /\ Seen(j).owner = row[j].owner
      /\ Seen(j).status = IF row[j] = Absent THEN "none" ELSE row[j].status
      /\ Fetched(j) = row[j]
      /\ Cached(j).owner = cache[j].owner
      /\ Cached(j).status = IF cache[j] = Absent THEN "none" ELSE row[j].status
  BY <1>1, <1>2, RecordFacts DEF Seen, Fetched, Cached
<1>4. {"pending", "processing", "complete", "error", "none"} \subseteq Statuses \cup {"none"}
  BY DEF Statuses, InFlight, Ended
<1>5. /\ "complete" \in Ended /\ "error" \in Ended /\ "cancelled" \in Ended
      /\ {"processing", "pending", "none", "absent"} \cap Ended = {}
  BY DEF Ended
<1>6. /\ row[j] = Absent => row[j].owner = "nobody" /\ row[j].status = "absent"
      /\ cache[j] = Absent => cache[j].owner = "nobody" /\ cache[j].status = "absent"
      /\ row[j].status = "absent" => row[j] = Absent
  BY <1>1, RecordFacts
<1>7. ASSUME NEW st \in {"pending", "processing", "complete", "error", "none"},
             NEW seen \in {Seen(j), Cached(j)}, Upsert(j, seen, st),
             seen = Seen(j) \/ worker[j].pc \in {"claimed", "running"},
             st = "none" => seen.status # "none",
             st \in {"pending", "processing", "error", "none"} => row[j].status \notin Ended
      PROVE  /\ \A k \in Jobs \ {j} : row'[k] = row[k] /\ cache'[k] = cache[k]
             /\ row'[j] # Absent /\ cache'[j] # Absent
             /\ row'[j].status = IF st = "none" THEN row[j].status ELSE st
             /\ cache'[j].status = row'[j].status
             /\ row'[j].owner # row[j].owner =>
                  /\ row[j].status = "processing"
                  /\ row'[j].owner = cache[j].owner /\ row'[j].owner # "nobody"
             /\ cache'[j].owner \in {"nobody", row[j].owner, cache[j].owner}
             /\ cache'[j].owner # "nobody" => row'[j].owner = cache'[j].owner
  <2> DEFINE to == IF st = "none" THEN seen.status ELSE st
  <2>1. /\ seen \in [owner : Owners, status : Statuses \cup {"none"}]
        /\ st \in Statuses \cup {"none"}
    BY <1>1, <1>4
  <2>2. /\ \A k \in Jobs \ {j} : row'[k] = row[k] /\ cache'[k] = cache[k]
        /\ row'[j] # Absent /\ cache'[j] # Absent
        /\ cache'[j].owner = seen.owner /\ cache'[j].status = to
        /\ row'[j].owner = IF seen.owner = "nobody" THEN row[j].owner ELSE seen.owner
        /\ to # "none" => row'[j].status = IF row[j].status \in Ended /\ to = "processing"
                                           THEN row[j].status ELSE to
    BY <1>7, <2>1, UpsertEffect
  <2>3. to = IF st = "none" THEN row[j].status ELSE st
    BY <1>3, <1>7
  <2>4. to # "none" /\ (to = "processing" => row[j].status \notin Ended)
    BY <1>2, <1>5, <1>7, <2>3
  <2>5. row'[j].status = to
    BY <2>2, <2>4
  <2> HIDE DEF to
  <2>6. CASE seen = Seen(j)
    BY <1>3, <2>2, <2>3, <2>5, <2>6
  <2>7. CASE seen = Cached(j) /\ worker[j].pc \in {"claimed", "running"}
    BY <1>2, <1>3, <1>6, <1>7, <2>2, <2>3, <2>5, <2>7
  <2> QED BY <1>7, <2>6, <2>7
<1>10. CASE Poll(j)
  <2>1. cache' = [cache EXCEPT ![j] = row[j]]
    BY <1>3, <1>10 DEF Poll
  <2>2. /\ UNCHANGED <<session, chats, conv, req, made, issued, cleaner, failed>>
        /\ UNCHANGED <<row, doc, worker>>
    BY <1>10 DEF Poll
  <2> QED BY <1>1, <1>2, <1>6, <2>1, <2>2 DEF JobStep
<1>11. CASE Progress(j)
  <2>1. /\ WorkerOnly /\ UNCHANGED <<doc, worker>> /\ worker[j].pc = "running"
        /\ Upsert(j, Cached(j), IF cache[j] = Absent THEN "processing" ELSE "none")
    BY <1>11 DEF Progress
  <2>2. CASE cache[j] = Absent
    BY <1>1, <1>2, <1>5, <1>6, <1>7, <2>1, <2>2 DEF JobStep, WorkerOnly
  <2>3. CASE cache[j] # Absent
    BY <1>1, <1>2, <1>3, <1>5, <1>6, <1>7, <2>1, <2>3 DEF JobStep, WorkerOnly
  <2> QED BY <2>2, <2>3
<1>12. CASE Claim(j)
  <2>1. row[j] # Absent /\ row[j].status = "pending" /\ worker[j].pc = "idle"
    BY <1>6, <1>12 DEF Claim
  <2>2. row[j] \in [owner : Owners, status : Statuses \cup {"none"}]
    BY <1>1, <2>1, RecordFacts
  <2>3. /\ row' = [row EXCEPT ![j].status = "processing"]
        /\ cache' = [cache EXCEPT ![j] = row'[j]]
        /\ worker' = [worker EXCEPT ![j] =
              [pc |-> "claimed", owner |-> row[j].owner, tries |-> worker[j].tries + 1]]
        /\ UNCHANGED <<doc, session, chats, conv, req, made, issued, cleaner, failed>>
    BY <1>12 DEF Claim, WorkerOnly
  <2>4. row'[j].owner = row[j].owner /\ row'[j].status = "processing" /\ cache'[j] = row'[j]
    BY <1>1, <2>2, <2>3
  <2>5. row'[j] # Absent
    BY <2>4 DEF Absent
  <2> QED BY <1>1, <1>5, <2>1, <2>3, <2>4, <2>5 DEF JobStep
<1>13. CASE Begin(j)
  <2>1. /\ WorkerOnly /\ worker[j].pc = "claimed" /\ worker' = [worker EXCEPT ![j].pc = "running"]
        /\ Upsert(j, Cached(j), "processing")
        /\ doc' = IF worker[j].owner = "nobody" THEN doc ELSE [doc EXCEPT ![j] = worker[j].owner]
    BY <1>13 DEF Begin, Runs, Stamped
  <2> QED BY <1>1, <1>2, <1>5, <1>6, <1>7, <2>1 DEF JobStep, WorkerOnly
<1>14. CASE RunFails(j)
  <2>1. /\ WorkerOnly /\ worker[j].pc \in {"claimed", "running"} /\ UNCHANGED doc
        /\ worker' = [worker EXCEPT ![j].pc = "idle"]
    BY <1>14 DEF RunFails, Runs
  <2>2. CASE Seen(j).status = "cancelled"
    BY <1>2, <1>3, <1>5, <1>6, <2>1, <2>2
  <2>3. CASE Seen(j).status # "cancelled"
    <3>1. Upsert(j, Seen(j), FailTo(j)) /\ FailTo(j) \in {"pending", "error"}
      BY <1>14, <2>3 DEF RunFails, FailTo
    <3> QED BY <1>1, <1>2, <1>5, <1>6, <1>7, <2>1, <3>1 DEF JobStep, WorkerOnly
  <2> QED BY <2>2, <2>3
<1>15. CASE Deliver(j)
  <2>1. /\ WorkerOnly /\ worker[j].pc = "running" /\ worker' = [worker EXCEPT ![j].pc = "storing"]
        /\ Upsert(j, Cached(j), "complete") /\ UNCHANGED doc
    BY <1>15 DEF Deliver, Runs
  <2> QED BY <1>1, <1>2, <1>5, <1>6, <1>7, <2>1 DEF JobStep, WorkerOnly
<1>16. CASE Store(j)
  <2>1. /\ WorkerOnly /\ worker' = [worker EXCEPT ![j].pc = "finalizing"]
        /\ cache' = [cache EXCEPT ![j] = row[j]] /\ UNCHANGED row
        /\ doc' = Stamped(j, Seen(j).owner)
    BY <1>3, <1>16 DEF Store, Runs
  <2> QED BY <1>1, <1>2, <1>3, <1>6, <2>1 DEF JobStep, WorkerOnly, Stamped
<1>17. CASE Finalize(j)
  <2>1. /\ WorkerOnly /\ worker' = [worker EXCEPT ![j].pc = "patching"]
        /\ Upsert(j, Seen(j), IF Seen(j).status \in Ended THEN "complete" ELSE "processing")
        /\ doc' = IF doc[j] = "absent" THEN Stamped(j, Seen(j).owner) ELSE doc
    BY <1>17 DEF Finalize, Runs
  <2>2. \/ doc'[j] \in {doc[j], "nobody"} \/ doc'[j] = Seen(j).owner
    BY <1>1, <2>1 DEF Stamped
  <2>3. \A k \in Jobs \ {j} : doc'[k] = doc[k]
    BY <1>1, <2>1 DEF Stamped
  <2>4. CASE Seen(j).status \in Ended
    <3>1. Upsert(j, Seen(j), "complete")
      BY <2>1, <2>4
    <3> QED BY <1>1, <1>2, <1>3, <1>5, <1>6, <1>7, <2>1, <2>2, <2>3, <3>1 DEF JobStep, WorkerOnly
  <2>5. CASE Seen(j).status \notin Ended
    <3>1. Upsert(j, Seen(j), "processing") /\ row[j].status \notin Ended
      BY <1>3, <1>5, <1>6, <2>1, <2>5
    <3> QED BY <1>1, <1>2, <1>3, <1>5, <1>6, <1>7, <2>1, <2>2, <2>3, <3>1 DEF JobStep, WorkerOnly
  <2> QED BY <2>4, <2>5
<1>18. CASE Patch(j)
  <2>1. /\ WorkerOnly /\ worker' = [worker EXCEPT ![j].pc = "idle"]
        /\ Upsert(j, Seen(j), "complete") /\ UNCHANGED doc
    BY <1>18 DEF Patch, Runs
  <2> QED BY <1>1, <1>2, <1>5, <1>6, <1>7, <2>1 DEF JobStep, WorkerOnly
<1> QED BY <1>10, <1>11, <1>12, <1>13, <1>14, <1>15, <1>16, <1>17, <1>18 DEF WorkerStep

\* A job without a record gets none from a poll or from the worker.
LEMMA UnusedStays ==
    ASSUME GuestTypeOK, CacheOK, AtWork, NEW j \in Jobs, NEW k \in Jobs, Unused(j),
           Poll(k) \/ Progress(k) \/ WorkerStep(k)
    PROVE  Unused(j)'
<1>1. k # j \/ Poll(k)
  BY DEF Unused, Absent, Progress, WorkerStep, Claim, Begin, RunFails, Deliver, Store, Finalize, Patch
<1>2. CASE k # j
  BY <1>2, JobSteps DEF JobStep, Unused
<1>3. CASE k = j /\ Poll(j)
  BY <1>3 DEF Poll, Unused, Fetched, GuestTypeOK, TablesOK
<1> QED BY <1>1, <1>2, <1>3

\* A step of a request leaves the others alone, and only Ingest leads to an enqueue.
LEMMA RequestEffect ==
    ASSUME GuestTypeOK, NEW r \in Requests,
           \/ \E kind \in {"upload", "chat"} : Admit(r, kind)
           \/ Upgrade(r) \/ RequestStep(r)
    PROVE  /\ \A s \in Requests \ {r} : req'[s] = req[s]
           /\ req'[r].pc = "enqueue" => Ingest(r)
<1> USE DEF GuestTypeOK, RequestsOK, RequestRecords, Idle, Answer, Goes
<1>1. ASSUME NEW kind \in {"upload", "chat"}, Admit(r, kind) PROVE req'[r].pc # "enqueue"
  BY <1>1 DEF Admit
<1>2. Upgrade(r) => req'[r].pc # "enqueue"
  BY DEF Upgrade
<1>3. Enqueue(r) \/ RetainList(r) \/ RetainDone(r) => req'[r].pc # "enqueue"
  BY DEF Enqueue, RetainList, RetainDone
<1>4. RetainPurge(r) => req'[r].pc # "enqueue"
  BY DEF RetainPurge
<1>5. ChatOpen(r) => req'[r].pc # "enqueue"
  BY DEF ChatOpen
<1>6. ChatCount(r) \/ ChatCounted(r) \/ ChatAppend(r) \/ ChatSave(r) => req'[r].pc # "enqueue"
  BY DEF ChatCount, ChatCounted, ChatAppend, ChatSave
<1>7. ChatStart(r) => req'[r].pc # "enqueue"
  BY DEF ChatStart
<1>8. Transfer(r) \/ TransferCommit(r) => req'[r].pc # "enqueue"
  BY DEF Transfer, TransferCommit
<1>9. \A s \in Requests \ {r} : req'[s] = req[s]
  BY DEF RequestStep, Admit, Upgrade, Ingest, Enqueue, RetainList, RetainPurge, RetainDone, ChatOpen,
         ChatCount, ChatCounted, ChatStart, ChatAppend, ChatSave, Transfer, TransferCommit
<1> QED BY <1>1, <1>2, <1>3, <1>4, <1>5, <1>6, <1>7, <1>8, <1>9 DEF RequestStep

\* What the commit of an upgrade does to each row.
LEMMA TransferEffect ==
    ASSUME GuestTypeOK, Transferred
    PROVE  /\ \A j \in Jobs :
                /\ row'[j].owner = ToUser(row[j].owner)
                /\ row'[j].status = row[j].status
                /\ (row'[j] = Absent <=> row[j] = Absent)
                /\ doc'[j] = ToUser(doc[j])
           /\ \A c \in Convs : conv'[c] = NoOne \/ conv'[c].owner # "guest"
<1>1. \A j \in Jobs :
        /\ row'[j] = [row[j] EXCEPT !.owner = ToUser(@)]
        /\ doc'[j] = ToUser(doc[j]) /\ row[j] \in JobRecords
  BY DEF Transferred, GuestTypeOK, TablesOK
<1>2. ASSUME NEW x \in JobRecords, NEW y, y = [x EXCEPT !.owner = ToUser(@)]
      PROVE  /\ y.owner = ToUser(x.owner) /\ y.status = x.status
             /\ (y = Absent <=> x = Absent)
  BY <1>2 DEF JobRecords, Absent, Owners, ToUser, Statuses, InFlight, Ended
<1>3. ASSUME NEW c \in Convs PROVE conv'[c] = NoOne \/ conv'[c].owner # "guest"
  <2>1. conv[c] \in [owner : Owners, doc : Jobs] \cup {NoOne}
    BY DEF GuestTypeOK, TablesOK
  <2>2. conv'[c] = IF conv[c] = NoOne THEN NoOne ELSE [conv[c] EXCEPT !.owner = ToUser(@)]
    BY DEF Transferred
  <2> QED BY <2>1, <2>2 DEF ToUser
<1> QED BY <1>1, <1>2, <1>3

\* An identifier is given out once: until its upload is enqueued nothing has a
\* record of the job.
NewJobs ==
    /\ \A j \in Jobs \ issued : Unused(j)
    /\ \A r \in Requests : req[r].pc = "enqueue" => req[r].job \in issued /\ Unused(req[r].job)
    /\ \A r, s \in Requests : req[r].pc = "enqueue" /\ req[s].pc = "enqueue"
                                 /\ req[r].job = req[s].job => r = s

RecordsOK == CacheOK /\ AtWork /\ NewJobs

\* Every step keeps table, cache and worker in agreement.
LEMMA RecordsKept ==
    ASSUME GuestTypeOK, RecordsOK, Next
    PROVE  RecordsOK'
<1> USE DEF RecordsOK
<1>1. Absent.status = "absent" /\ Absent.owner = "nobody"
  BY DEF Absent
<1>2. ASSUME UNCHANGED <<row, worker>>, \A j \in Jobs : cache'[j] \in {cache[j], row[j], Absent},
             UNCHANGED issued,
             NEW r \in Requests, \A s \in Requests \ {r} : req'[s] = req[s],
             req'[r].pc # "enqueue"
      PROVE  RecordsOK'
  <2>1. CacheOK' /\ AtWork'
    BY <1>2 DEF CacheOK, AtWork
  <2>2. \A j \in Jobs : Unused(j) => Unused(j)'
    BY <1>2 DEF Unused
  <2>3. issued \subseteq Jobs
    BY DEF GuestTypeOK, SessionOK
  <2>4. NewJobs'
    BY <1>2, <2>2, <2>3 DEF NewJobs
  <2> QED BY <2>1, <2>4
<1>3. ASSUME UNCHANGED <<req, issued>>, \A j \in Jobs : Unused(j) => Unused(j)', CacheOK', AtWork'
      PROVE  RecordsOK'
  <2>1. issued \subseteq Jobs
    BY DEF GuestTypeOK, SessionOK
  <2> QED BY <1>3, <2>1 DEF NewJobs
<1>4. ASSUME NEW r \in Requests, NEW kind \in {"upload", "chat"}, Admit(r, kind) PROVE RecordsOK'
  <2>1. /\ \A s \in Requests \ {r} : req'[s] = req[s]
        /\ req'[r].pc # "enqueue"
    BY <1>4, RequestEffect DEF Admit, Ingest
  <2> QED BY <1>2, <1>4, <2>1 DEF Admit
<1>5. ASSUME NEW r \in Requests, Upgrade(r) PROVE RecordsOK'
  <2>1. /\ \A s \in Requests \ {r} : req'[s] = req[s]
        /\ req'[r].pc # "enqueue"
    BY <1>5, RequestEffect DEF Upgrade, Ingest
  <2> QED BY <1>2, <1>5, <2>1 DEF Upgrade
<1>6. ASSUME NEW r \in Requests, RequestStep(r) PROVE RecordsOK'
  <2> \A s \in Requests \ {r} : req'[s] = req[s]
    BY <1>6, RequestEffect
  <2>1. CASE Ingest(r)
    <3>1. PICK j \in Jobs \ issued : /\ issued' = issued \cup {j}
                                     /\ req' = [req EXCEPT ![r].pc = "enqueue", ![r].job = j]
      BY <2>1 DEF Ingest
    <3>2. UNCHANGED <<row, cache, worker>>
      BY <2>1 DEF Ingest
    <3>3. CacheOK' /\ AtWork' /\ \A k \in Jobs : Unused(k)' <=> Unused(k)
      BY <3>2 DEF CacheOK, AtWork, Unused
    <3>4. req'[r].job = j /\ issued \subseteq Jobs
      BY <3>1 DEF GuestTypeOK, SessionOK, RequestsOK, RequestRecords
    <3>5. \A s \in Requests \ {r} : req[s].pc = "enqueue" => req[s].job # j
      BY DEF NewJobs
    <3>6. \A k \in Jobs \ issued' : Unused(k)'
      BY <3>1, <3>3 DEF NewJobs
    <3>7. \A s \in Requests : req'[s].pc = "enqueue" =>
            \/ s = r
            \/ s # r /\ req[s].pc = "enqueue" /\ req'[s].job = req[s].job
      OBVIOUS
    <3>8. \A s \in Requests : req'[s].pc = "enqueue" =>
            req'[s].job \in issued' /\ Unused(req[s].job)'
      <4> SUFFICES ASSUME NEW s \in Requests, req'[s].pc = "enqueue"
                   PROVE  req'[s].job \in issued' /\ Unused(req[s].job)'
        OBVIOUS
      <4>1. CASE s = r
        <5>1. Unused(j)' /\ j \in issued'
          BY <3>1, <3>3 DEF NewJobs
        <5>2. Unused(req[s].job)' <=> Unused(j)'
          BY <3>4, <4>1 DEF Unused
        <5> QED BY <3>4, <4>1, <5>1, <5>2
      <4>2. CASE s # r
        <5>1. req[s].job \in issued /\ Unused(req[s].job) /\ req[s].job \in Jobs
          BY <3>4, <3>7, <4>2 DEF NewJobs
        <5>2. Unused(req[s].job)' <=> Unused(req[s].job)
          BY <3>2, <3>7, <4>2 DEF Unused
        <5>3. issued \subseteq issued'
          BY <2>1 DEF Ingest
        <5>4. req'[s].job = req[s].job /\ req[s].job \in issued'
          BY <3>7, <4>2, <5>1, <5>3
        <5> QED BY <5>1, <5>2, <5>4
      <4> QED BY <4>1, <4>2
    <3>9. ASSUME NEW s \in Requests, NEW q \in Requests, req'[s].pc = "enqueue",
                 req'[q].pc = "enqueue", req'[s].job = req'[q].job
          PROVE  s = q
      BY <3>4, <3>5, <3>7, <3>9 DEF NewJobs
    <3>10. NewJobs'
      BY <3>6, <3>8, <3>9 DEF NewJobs
    <3> QED BY <3>3, <3>10
  <2>2. CASE Enqueue(r)
    <3> DEFINE j == req[r].job
    <3>1. /\ j \in Jobs /\ j \in issued /\ Unused(j)
          /\ "pending" \in Statuses \cup {"none"} /\ "pending" # "none" /\ "pending" # "processing"
          /\ [owner |-> "guest", status |-> "pending"]
                \in [owner : Owners, status : Statuses \cup {"none"}]
          /\ Upsert(j, [owner |-> "guest", status |-> "pending"], "pending")
          /\ UNCHANGED <<worker, issued>> /\ issued \subseteq Jobs
      BY <2>2 DEF Enqueue, NewJobs, GuestTypeOK, SessionOK, RequestsOK, OnJob, Owners, Statuses, InFlight
    <3> HIDE DEF j
    <3>2. /\ \A k \in Jobs \ {j} : row'[k] = row[k] /\ cache'[k] = cache[k]
          /\ row'[j] # Absent /\ row'[j].status = "pending" /\ cache'[j].status = "pending"
      BY <3>1, UpsertEffect
    <3>3. CacheOK' /\ AtWork'
      BY <3>1, <3>2 DEF CacheOK, AtWork, Unused
    <3>4. \A k \in Jobs \ {j} : Unused(k) => Unused(k)'
      BY <3>1, <3>2 DEF Unused
    <3>5. req'[r].pc # "enqueue"
      BY <1>6, <2>2, RequestEffect DEF Enqueue, Ingest
    <3>6. \A s \in Requests \ {r} : req[s].pc = "enqueue" => req[s].job # j
      BY <2>2 DEF Enqueue, NewJobs, j
    <3>7. NewJobs'
      BY <3>1, <3>4, <3>5, <3>6 DEF NewJobs
    <3> QED BY <3>3, <3>7
  <2>3. CASE RetainPurge(r)
    <3>1. PICK j \in Jobs : Purged(j)
      BY <2>3 DEF RetainPurge, GuestTypeOK, RequestsOK
    <3>2. /\ row' = [row EXCEPT ![j] = Absent] /\ cache' = [cache EXCEPT ![j] = Absent]
          /\ UNCHANGED <<worker, issued>> /\ issued \subseteq Jobs
          /\ row \in [Jobs -> JobRecords] /\ cache \in [Jobs -> JobRecords]
      BY <2>3, <3>1 DEF Purged, RetainPurge, GuestTypeOK, SessionOK, TablesOK
    <3>3. CacheOK' /\ AtWork' /\ \A k \in Jobs : Unused(k) => Unused(k)'
      BY <1>1, <3>2 DEF CacheOK, AtWork, Unused
    <3>4. req'[r].pc # "enqueue"
      BY <2>3, RequestEffect DEF RetainPurge, Ingest
    <3>5. NewJobs'
      BY <3>2, <3>3, <3>4 DEF NewJobs
    <3> QED BY <3>3, <3>5
  <2>4. CASE ChatOpen(r)
    <3>1. \A j \in Jobs : cache'[j] \in {cache[j], row[j], Absent}
      BY <2>4 DEF ChatOpen, Fetched, GuestTypeOK, TablesOK
    <3>2. UNCHANGED <<row, worker, issued>> /\ req'[r].pc # "enqueue"
      BY <1>6, <2>4, RequestEffect DEF ChatOpen, Ingest
    <3> QED BY <1>2, <3>1, <3>2
  <2>5. CASE TransferCommit(r)
    <3>0. Transferred
      BY <2>5 DEF TransferCommit
    <3>a. \A j \in Jobs : row'[j].status = row[j].status /\ (row'[j] = Absent <=> row[j] = Absent)
      BY <3>0, TransferEffect
    <3>1. UNCHANGED <<cache, worker, issued>> /\ issued \subseteq Jobs
      BY <2>5 DEF TransferCommit, GuestTypeOK, SessionOK
    <3>2. CacheOK' /\ AtWork' /\ \A k \in Jobs : Unused(k) => Unused(k)'
      BY <1>1, <3>a, <3>1 DEF CacheOK, AtWork, Unused
    <3>3. req'[r].pc # "enqueue"
      BY <1>6, <2>5, RequestEffect DEF TransferCommit, Ingest
    <3>4. NewJobs'
      BY <3>1, <3>2, <3>3 DEF NewJobs
    <3> QED BY <3>2, <3>4
  <2>6. CASE RetainList(r) \/ RetainDone(r) \/ ChatCount(r) \/ ChatCounted(r) \/ ChatStart(r)
              \/ ChatAppend(r) \/ ChatSave(r) \/ Transfer(r)
    <3>1. UNCHANGED <<row, cache, worker, issued>>
      BY <2>6 DEF RetainList, RetainDone, ChatCount, ChatCounted, ChatStart, ChatAppend, ChatSave,
                  Transfer
    <3>2. req'[r].pc # "enqueue"
      BY <2>6, RequestEffect, <1>6 DEF RetainList, RetainDone, ChatCount, ChatCounted, ChatStart,
              ChatAppend, ChatSave, Transfer, Ingest
    <3> QED BY <1>2, <3>1, <3>2
  <2> QED BY <1>6, <2>1, <2>2, <2>3, <2>4, <2>5, <2>6 DEF RequestStep
<1>7. ASSUME NEW j \in Jobs, Poll(j) \/ Progress(j) \/ WorkerStep(j) PROVE RecordsOK'
  <2>1. JobStep(j)
    BY <1>7, JobSteps
  <2>2. CacheOK' /\ AtWork' /\ UNCHANGED <<req, issued>>
    BY <2>1 DEF JobStep, CacheOK, AtWork
  <2>3. \A k \in Jobs : Unused(k) => Unused(k)'
    BY <1>7, UnusedStays
  <2> QED BY <1>3, <2>2, <2>3
<1>8. CASE RunsOut
  BY <1>8 DEF RunsOut, CacheOK, AtWork, NewJobs, Unused
<1>9. CASE ListExpired \/ Recheck \/ Collect \/ Finish
  BY <1>9 DEF ListExpired, Recheck, Collect, Finish, CleanerOnly, CacheOK, AtWork, NewJobs, Unused
<1>10. ASSUME NEW j \in Jobs, PurgeJob(j) PROVE RecordsOK'
  <2>1. /\ cache' = [cache EXCEPT ![j] = Absent] /\ UNCHANGED <<worker, req, issued>>
        /\ row' = row \/ row' = [row EXCEPT ![j] = Absent]
        /\ row \in [Jobs -> JobRecords] /\ cache \in [Jobs -> JobRecords]
    BY <1>10 DEF PurgeJob, Purged, CleanerOnly, GuestTypeOK, TablesOK
  <2>2. CacheOK' /\ AtWork' /\ \A k \in Jobs : Unused(k) => Unused(k)'
    BY <1>1, <2>1 DEF CacheOK, AtWork, Unused
  <2> QED BY <1>3, <2>1, <2>2
<1>11. ASSUME NEW d \in Jobs, PurgeDoc(d) PROVE RecordsOK'
  BY <1>11 DEF PurgeDoc, CleanerOnly, CacheOK, AtWork, NewJobs, Unused
<1>12. ASSUME NEW c \in Convs, PurgeConv(c) PROVE RecordsOK'
  BY <1>12 DEF PurgeConv, CleanerOnly, CacheOK, AtWork, NewJobs, Unused
<1> QED BY <1>4, <1>5, <1>6, <1>7, <1>8, <1>9, <1>10, <1>11, <1>12 DEF Next, CleanerStep

-----------------------------------------------------------------------------
(* The end of a session. *)

Cleaning == cleaner.pc # "idle" \/ session.status = "purged"

\* The session has run out, or is being cleaned up or purged.
Ending ==
    \/ Cleaning \/ session.status = "expired"
    \/ session.status = "active" /\ ~session.fresh

\* No request of the guest is at work then, but for an upgrade that was late.
Quiet ==
    Ending => \A r \in Requests :
        req[r].pc = "idle" \/ (LateUpgrades /\ req[r].pc \in {"transfer", "commit"})

\* The clean-up works on an expired session, or on one a late upgrade took over.
Listing ==
    /\ cleaner.pc # "idle" =>
          session.status = "expired" \/ (LateUpgrades /\ session.status = "upgraded")
    /\ cleaner.pc # "purging" => cleaner.jobs = {} /\ cleaner.docs = {} /\ cleaner.convs = {}

\* Every step keeps an ending session without requests at work.
LEMMA ScheduleKept ==
    ASSUME GuestTypeOK, Quiet, Listing, ~StaleIds, Next
    PROVE  Quiet' /\ Listing'
<1>1. /\ session \in [status : {"active", "expired", "purged", "upgraded"}, fresh : BOOLEAN]
      /\ cleaner \in [pc : {"idle", "listed", "collect", "purging"}, jobs : SUBSET Jobs,
                      docs : SUBSET Jobs, convs : SUBSET Convs, late : BOOLEAN]
      /\ req \in [Requests -> RequestRecords]
  BY DEF GuestTypeOK, SessionOK, ThreadsOK, RequestsOK
<1>2. \A r \in Requests : req[r] \in RequestRecords
  BY <1>1
<1>3. ASSUME UNCHANGED <<session, cleaner>>, NEW r \in Requests, ~Ending,
             \A s \in Requests \ {r} : req'[s] = req[s]
      PROVE  Quiet' /\ Listing'
  BY <1>3 DEF Quiet, Listing, Ending, Cleaning
<1>4. ASSUME UNCHANGED <<session, cleaner, req>> PROVE Quiet' /\ Listing'
  BY <1>4 DEF Quiet, Listing, Ending, Cleaning
<1>5. ASSUME NEW r \in Requests, NEW kind \in {"upload", "chat"}, Admit(r, kind)
      PROVE  Quiet' /\ Listing'
  <2>1. session.status # "upgraded" /\ UNCHANGED cleaner
    BY <1>5 DEF Admit
  <2>2. CASE session.status = "active" /\ session.fresh
    <3>1. UNCHANGED session
      BY <1>5, <2>2 DEF Admit, Touched
    <3>2. ~Ending
      BY <2>2 DEF Ending, Cleaning, Listing
    <3>3. \A s \in Requests \ {r} : req'[s] = req[s]
      BY <1>5, RequestEffect
    <3> QED BY <1>3, <2>1, <3>1, <3>2, <3>3
  <2>3. CASE ~(session.status = "active" /\ session.fresh)
    <3>1. session'.status = "expired" /\ UNCHANGED req
      BY <1>1, <1>5, <2>3 DEF Admit, Touched
    <3>2. Ending
      BY <1>1, <2>1, <2>3 DEF Ending, Cleaning
    <3> QED BY <2>1, <3>1, <3>2 DEF Quiet, Listing
  <2> QED BY <2>2, <2>3
<1>6. ASSUME NEW r \in Requests, Upgrade(r) PROVE Quiet' /\ Listing'
  <2>1. UNCHANGED <<session, cleaner>> /\ \A s \in Requests \ {r} : req'[s] = req[s]
    BY <1>6, RequestEffect DEF Upgrade
  <2>2. CASE Transferable
    <3>1. session.status = "active" /\ (session.fresh \/ LateUpgrades) /\ cleaner.pc = "idle"
      BY <1>6, <2>2 DEF Upgrade, Transferable, Listing
    <3>2. req'[r].pc = "transfer"
      BY <1>2, <1>6, <1>1, <2>2 DEF Upgrade, Goes, RequestRecords
    <3> QED BY <2>1, <3>1, <3>2 DEF Quiet, Listing, Ending, Cleaning
  <2>3. CASE ~Transferable
    BY <1>4, <1>6, <2>3 DEF Upgrade
  <2> QED BY <2>2, <2>3
<1>7. ASSUME NEW r \in Requests, RequestStep(r) PROVE Quiet' /\ Listing'
  <2>1. \A s \in Requests \ {r} : req'[s] = req[s]
    BY <1>7, RequestEffect
  <2>2. CASE ~(Transfer(r) \/ TransferCommit(r))
    <3>1. UNCHANGED <<session, cleaner>>
      BY <1>7, <2>2 DEF RequestStep, Ingest, Enqueue, RetainList, RetainPurge, RetainDone, ChatOpen,
            ChatCount, ChatCounted, ChatStart, ChatAppend, ChatSave
    <3>2. req[r].pc \notin {"idle", "transfer", "commit"}
      BY <1>7, <2>2 DEF RequestStep, Ingest, Enqueue, RetainList, RetainPurge, RetainDone, ChatOpen,
            ChatCount, ChatCounted, ChatStart, ChatAppend, ChatSave
    <3>3. ~Ending
      BY <3>2 DEF Quiet
    <3> QED BY <1>3, <2>1, <3>1, <3>3
  <2>3. CASE Transfer(r)
    <3>1. UNCHANGED <<session, cleaner>> /\ req[r].pc = "transfer"
      BY <2>3 DEF Transfer
    <3>2. req'[r].pc \in {"commit", "idle"}
      BY <1>1, <1>2, <2>3 DEF Transfer, Goes, Answer, Idle, RequestRecords
    <3>3. CASE Ending
      BY <2>1, <3>1, <3>2, <3>3 DEF Quiet, Listing
    <3>4. CASE ~Ending
      BY <1>3, <2>1, <3>1, <3>4
    <3> QED BY <3>3, <3>4
  <2>4. CASE TransferCommit(r)
    <3>1. /\ session' = [session EXCEPT !.status = "upgraded"] /\ req[r].pc = "commit"
          /\ cleaner'.pc = cleaner.pc /\ cleaner'.jobs = cleaner.jobs
          /\ cleaner'.docs = cleaner.docs /\ cleaner'.convs = cleaner.convs
      BY <1>1, <2>4 DEF TransferCommit, Transferred
    <3>2. req'[r].pc = "idle" /\ session'.status = "upgraded"
      BY <1>1, <1>2, <2>4, <3>1 DEF TransferCommit, Answer, Idle, RequestRecords
    <3>3. Ending' => Ending
      BY <3>1, <3>2 DEF Ending, Cleaning
    <3>4. Quiet'
      BY <2>1, <3>2, <3>3 DEF Quiet
    <3>5. cleaner.pc # "idle" => LateUpgrades
      BY <3>1 DEF Quiet, Ending, Cleaning
    <3> QED BY <3>1, <3>2, <3>4, <3>5 DEF Listing
  <2> QED BY <2>2, <2>3, <2>4
<1>8. ASSUME NEW j \in Jobs, Poll(j) \/ Progress(j) \/ WorkerStep(j) PROVE Quiet' /\ Listing'
  <2>1. UNCHANGED <<session, cleaner, req>>
    BY <1>8 DEF Poll, Progress, WorkerStep, WorkerOnly, Claim, Begin, RunFails, Deliver, Store, Finalize,
                Patch
  <2> QED BY <1>4, <2>1
<1>9. CASE RunsOut
  <2>1. /\ UNCHANGED <<cleaner, req>> /\ session' = [session EXCEPT !.fresh = FALSE]
        /\ session.status = "active"
        /\ \A r \in Requests : req[r].pc = "idle" \/ (LateUpgrades /\ req[r].pc \in {"transfer", "commit"})
    BY <1>9 DEF RunsOut
  <2>2. session'.status = "active"
    BY <1>1, <2>1
  <2> QED BY <2>1, <2>2 DEF Quiet, Listing
<1>10. CASE ListExpired
  <2>1. /\ cleaner' = [cleaner EXCEPT !.pc = "listed"] /\ UNCHANGED req /\ cleaner.pc = "idle"
        /\ session' = [session EXCEPT !.status = "expired"] /\ Ending
    BY <1>10 DEF ListExpired, CleanerOnly, Marked, Overdue, Ending
  <2>2. /\ cleaner'.pc = "listed" /\ session'.status = "expired"
        /\ cleaner'.jobs = cleaner.jobs /\ cleaner'.docs = cleaner.docs
        /\ cleaner'.convs = cleaner.convs
    BY <1>1, <2>1
  <2> QED BY <2>1, <2>2 DEF Quiet, Listing
<1>11. CASE Recheck
  <2>1. UNCHANGED <<session, req>> /\ Cleaning
    BY <1>11 DEF Recheck, CleanerOnly, Cleaning
  <2>2. \/ cleaner' = Resting
        \/ cleaner.pc = "listed" /\ cleaner' = [cleaner EXCEPT !.pc = "collect"]
    BY <1>11 DEF Recheck
  <2>3. \/ cleaner'.pc = "idle" /\ cleaner'.jobs = {} /\ cleaner'.docs = {} /\ cleaner'.convs = {}
        \/ /\ cleaner.pc = "listed" /\ cleaner'.pc = "collect"
           /\ cleaner'.jobs = cleaner.jobs /\ cleaner'.docs = cleaner.docs
           /\ cleaner'.convs = cleaner.convs
    BY <1>1, <2>2 DEF Resting
  <2> QED BY <2>1, <2>3 DEF Quiet, Listing, Ending
<1>12. CASE Collect \/ (\E j \in Jobs : PurgeJob(j) \/ PurgeDoc(j)) \/ (\E c \in Convs : PurgeConv(c))
  <2>1. UNCHANGED <<session, req>> /\ cleaner.pc \in {"collect", "purging"}
    BY <1>12 DEF Collect, PurgeJob, PurgeDoc, PurgeConv, CleanerOnly
  <2>2. cleaner'.pc = "purging"
    BY <1>1, <1>12 DEF Collect, PurgeJob, PurgeDoc, PurgeConv
  <2> QED BY <2>1, <2>2 DEF Quiet, Listing, Ending, Cleaning
<1>13. CASE Finish
  <2>1. /\ session' = [session EXCEPT !.status = "purged"] /\ UNCHANGED req /\ cleaner' = Resting
        /\ Ending
    BY <1>13 DEF Finish, CleanerOnly, Ending, Cleaning
  <2> QED BY <1>1, <2>1 DEF Quiet, Listing, Resting
<1> QED BY <1>5, <1>6, <1>7, <1>8, <1>9, <1>10, <1>11, <1>12, <1>13 DEF Next, CleanerStep

-----------------------------------------------------------------------------
(* Who owns what. *)

NoUsers ==
    /\ \A j \in Jobs : /\ row[j].owner # "user" /\ doc[j] # "user"
                       /\ cache[j].owner # "user" /\ worker[j].owner # "user"
    /\ \A c \in Convs : conv[c] # NoOne => conv[c].owner # "user"

\* Nothing is the guest's.
NoGuests == Guests = {} /\ GuestDocs = {} /\ GuestConvs = {}

\* No job is a user's, and a cached guest is the owner in the table.
Clean ==
    \A j \in Jobs :
        /\ row[j].owner # "user" /\ cache[j].owner # "user"
        /\ cache[j].owner = "guest" => row[j].owner = "guest"

\* A job that waits or runs is nobody's, so no write of it can bring an owner back.
AllEnded ==
    \A j \in Jobs :
        row[j].status \in InFlight => row[j].owner = "nobody" /\ cache[j].owner = "nobody"

Owned ==
    /\ Cleaning => AllEnded
    /\ session.status = "active" => Clean
    /\ session.status = "expired" => Clean \/ AllEnded

\* A user owns something only after an upgrade, which leaves the guest nothing; so what
\* the clean-up listed is not a user's unless an upgrade came later.
Sides ==
    /\ session.status = "active" => NoUsers
    /\ Cleaning \/ session.status = "expired" => NoUsers \/ (NoGuests /\ AllEnded)
    /\ cleaner.pc = "purging" /\ ~cleaner.late =>
          NoUsers \/ (cleaner.jobs = {} /\ cleaner.docs = {} /\ cleaner.convs = {})

\* A claimed owner who may still be stamped on a document: the session is in use, or
\* the job runs in that owner's name.
Claims ==
    \A j \in Jobs :
        worker[j].pc = "claimed" /\ worker[j].owner # "nobody" =>
            \/ /\ cleaner.pc = "idle"
               /\ \/ session.status = "upgraded"
                  \/ session.status = "active" /\ session.fresh
            \/ row[j].owner # "nobody" /\ row[j].status = "processing"

\* What the guest owns during the purge and after it is listed, or a delete failed.
Purging ==
    cleaner.pc = "purging" \/ session.status = "purged" =>
        /\ Guests \subseteq cleaner.jobs \cup failed
        /\ cleaner.jobs \subseteq cleaner.docs
        /\ GuestDocs \subseteq cleaner.docs \cup failed
        /\ GuestConvs \subseteq cleaner.convs \cup failed
        /\ \A j \in cleaner.jobs : row[j].owner # "nobody"

OwnershipOK == Owned /\ Sides /\ Claims /\ Purging

\* The worker keeps what the clean-up relies on: it brings no owner back.
LEMMA JobOwnership ==
    ASSUME GuestTypeOK, RecordsOK, Listing, OwnershipOK, NEW j \in Jobs, JobStep(j)
    PROVE  OwnershipOK'
<1>1. /\ UNCHANGED <<session, conv, cleaner, failed>>
      /\ \A k \in Jobs \ {j} : /\ row'[k] = row[k] /\ cache'[k] = cache[k]
                               /\ doc'[k] = doc[k] /\ worker'[k] = worker[k]
  BY DEF JobStep
<1>2. /\ Absent.owner = "nobody" /\ Absent.status = "absent"
      /\ row[j] = Absent => cache[j] = Absent
      /\ row[j] # Absent => row[j].status \in InFlight \cup Ended
  <2>1. row[j] \in JobRecords /\ row[j].status # "none"
    BY DEF GuestTypeOK, TablesOK, RecordsOK, CacheOK
  <2>2. row[j] # Absent => row[j].status \in InFlight \cup Ended
    BY <2>1, RecordFacts DEF Statuses
  <2> QED BY <2>2 DEF RecordsOK, CacheOK, Absent
<1>3. ASSUME AllEnded
      PROVE  /\ AllEnded'
             /\ \A k \in Jobs : row'[k].owner = row[k].owner
  <2>1. row'[j].owner = row[j].owner
    BY <1>3 DEF JobStep, AllEnded, InFlight
  <2>2. CASE row[j].status \in Ended
    <3>1. row'[j].status \notin InFlight
      BY <2>2 DEF JobStep, InFlight, Ended
    <3> QED BY <1>1, <1>3, <2>1, <3>1 DEF AllEnded
  <2>3. CASE row[j].status \notin Ended
    <3>1. row[j].owner = "nobody" /\ cache[j].owner = "nobody"
      BY <1>2, <1>3, <2>3 DEF AllEnded
    <3>2. cache'[j].owner = "nobody"
      BY <3>1 DEF JobStep
    <3> QED BY <1>1, <1>3, <2>1, <3>1, <3>2 DEF AllEnded
  <2> QED BY <2>2, <2>3
<1>4. Clean => Clean'
  BY <1>1 DEF Clean, JobStep
<1>5. NoUsers => NoUsers'
  BY <1>1 DEF NoUsers, JobStep
<1>6. Owned'
  BY <1>1, <1>3, <1>4 DEF OwnershipOK, Owned, Cleaning
<1>9. ASSUME AllEnded, cleaner.pc # "idle" \/ session.status \in {"purged", "expired"}
      PROVE  /\ Guests' \subseteq Guests /\ GuestDocs' \subseteq GuestDocs \cup Guests
             /\ GuestConvs' = GuestConvs
  <2>2. \A k \in Jobs : row'[k].owner = row[k].owner
    BY <1>3, <1>9
  <2>3. Guests' \subseteq Guests
    BY <1>2, <2>2 DEF Guests
  <2>4. ~(worker[j].pc = "claimed" /\ worker[j].owner = "guest")
    BY <1>9 DEF OwnershipOK, Claims, Listing, AllEnded, InFlight
  <2>5. doc'[j] = "guest" => doc[j] = "guest" \/ row[j].owner = "guest"
    BY <2>4 DEF JobStep
  <2>6. GuestDocs' \subseteq GuestDocs \cup Guests
    BY <1>1, <1>2, <2>5 DEF GuestDocs, Guests
  <2>7. GuestConvs' = GuestConvs
    BY <1>1 DEF GuestConvs
  <2> QED BY <2>3, <2>6, <2>7
<1>10. Sides'
  <2>1. ASSUME NoGuests, AllEnded, cleaner.pc # "idle" \/ session.status \in {"purged", "expired"}
        PROVE  NoGuests' /\ AllEnded'
    BY <1>3, <1>9, <2>1 DEF NoGuests
  <2> QED BY <1>1, <1>5, <2>1 DEF OwnershipOK, Sides, Cleaning
<1>7. Claims'
  BY <1>1 DEF OwnershipOK, Claims, JobStep
<1>8. Purging'
  <2> SUFFICES ASSUME cleaner.pc = "purging" \/ session.status = "purged"
               PROVE  Purging'
    BY <1>1 DEF Purging
  <2>1. AllEnded
    BY DEF OwnershipOK, Owned, Cleaning
  <2>2. \A k \in Jobs : row'[k].owner = row[k].owner
    BY <1>3, <2>1
  <2>3. /\ Guests' \subseteq Guests /\ GuestDocs' \subseteq GuestDocs \cup Guests
        /\ GuestConvs' = GuestConvs
    BY <1>9, <2>1
  <2> QED BY <1>1, <2>2, <2>3 DEF OwnershipOK, Purging, ThreadsOK, GuestTypeOK
<1> QED BY <1>6, <1>7, <1>8, <1>10 DEF OwnershipOK

\* While the session is in use only its owners matter.
LEMMA OpenStep ==
    ASSUME GuestTypeOK', ~Ending', (Clean' /\ NoUsers') \/ session'.status = "upgraded"
    PROVE  OwnershipOK'
<1>1. /\ cleaner'.pc = "idle" /\ session'.status \notin {"purged", "expired"}
      /\ session'.status = "upgraded" \/ (session'.status = "active" /\ session'.fresh)
  BY DEF Ending, Cleaning, GuestTypeOK, SessionOK
<1> QED BY <1>1 DEF OwnershipOK, Owned, Sides, Cleaning, Claims, Purging

\* So does every request: it is at work only while the session is in use, but for a late
\* upgrade, which leaves the guest nothing.
LEMMA RequestOwnership ==
    ASSUME GuestTypeOK, GuestTypeOK', RecordsOK, Quiet, Listing, OwnershipOK, NEW r \in Requests,
           RequestStep(r) \/ Upgrade(r)
    PROVE  OwnershipOK'
<1>1. ASSUME UNCHANGED <<session, row, cache, doc, conv, cleaner, failed, worker>>
      PROVE  OwnershipOK'
  BY <1>1 DEF OwnershipOK, Owned, Sides, Cleaning, Clean, AllEnded, NoUsers, NoGuests, Claims, Purging,
       Guests, GuestDocs, GuestConvs
<1>2. ASSUME req[r].pc \notin {"idle", "transfer", "commit"}, UNCHANGED <<session, cleaner, worker>>,
             Clean => Clean', Clean /\ NoUsers => NoUsers'
      PROVE  OwnershipOK'
  <2>1. ~Ending /\ ~Ending'
    BY <1>2 DEF Quiet, Ending, Cleaning
  <2>2. session.status \in {"active", "upgraded"}
    BY <2>1 DEF Ending, Cleaning, GuestTypeOK, SessionOK
  <2> QED BY <1>2, <2>1, <2>2, OpenStep DEF OwnershipOK, Owned, Sides
<1>3. CASE \/ RetainList(r) \/ RetainDone(r) \/ ChatCount(r) \/ ChatCounted(r) \/ ChatAppend(r)
           \/ Transfer(r) \/ Upgrade(r)
  BY <1>1, <1>3 DEF RetainList, RetainDone, ChatCount, ChatCounted, ChatAppend, Transfer, Upgrade
<1>4. CASE Ingest(r)
  <2>1. /\ UNCHANGED <<session, row, cache, conv, cleaner, failed, worker>>
        /\ req[r].pc \notin {"idle", "transfer", "commit"}
        /\ \A j \in Jobs : doc'[j] \in {doc[j], "guest"}
    BY <1>4 DEF Ingest, Stamped, GuestTypeOK, TablesOK
  <2> QED BY <1>2, <2>1 DEF Clean, NoUsers
<1>5. CASE Enqueue(r)
  <2>1. /\ req[r].job \in Jobs /\ "pending" \in Statuses \cup {"none"}
        /\ [owner |-> "guest", status |-> "pending"]
              \in [owner : Owners, status : Statuses \cup {"none"}]
        /\ Upsert(req[r].job, [owner |-> "guest", status |-> "pending"], "pending")
        /\ UNCHANGED <<session, doc, conv, cleaner, failed, worker>>
        /\ req[r].pc \notin {"idle", "transfer", "commit"}
    BY <1>5 DEF Enqueue, GuestTypeOK, RequestsOK, OnJob, Owners, Statuses, InFlight
  <2>2. PICK j \in Jobs : j = req[r].job
    BY <2>1
  <2>3. /\ \A k \in Jobs \ {j} : row'[k] = row[k] /\ cache'[k] = cache[k]
        /\ row'[j].owner = "guest" /\ cache'[j].owner = "guest"
    BY <2>1, <2>2, UpsertEffect
  <2> QED BY <1>2, <2>1, <2>3 DEF Clean, NoUsers
<1>6. CASE RetainPurge(r)
  <2>1. PICK j \in Jobs : Purged(j)
    BY <1>6 DEF RetainPurge, GuestTypeOK, RequestsOK
  <2>2. /\ row' = [row EXCEPT ![j] = Absent] /\ cache' = [cache EXCEPT ![j] = Absent]
        /\ doc' = [doc EXCEPT ![j] = "absent"]
        /\ UNCHANGED <<session, conv, cleaner, failed, worker>>
        /\ row \in [Jobs -> JobRecords] /\ cache \in [Jobs -> JobRecords]
        /\ doc \in [Jobs -> Owners \cup {"absent"}]
        /\ req[r].pc \notin {"idle", "transfer", "commit"}
    BY <1>6, <2>1 DEF RetainPurge, Purged, GuestTypeOK, TablesOK
  <2>3. Absent.owner = "nobody"
    BY DEF Absent
  <2> QED BY <1>2, <2>2, <2>3 DEF Clean, NoUsers
<1>7. CASE ChatOpen(r)
  <2>1. /\ UNCHANGED <<session, row, doc, conv, cleaner, failed, worker>>
        /\ req[r].pc \notin {"idle", "transfer", "commit"}
        /\ \A j \in Jobs : cache'[j] \in {cache[j], row[j]}
    BY <1>7 DEF ChatOpen, Fetched, GuestTypeOK, TablesOK
  <2> QED BY <1>2, <2>1 DEF Clean, NoUsers
<1>8. CASE ChatStart(r) \/ ChatSave(r)
  <2>1. /\ UNCHANGED <<session, row, cache, doc, cleaner, failed, worker>>
        /\ req[r].pc \notin {"idle", "transfer", "commit"}
    BY <1>8 DEF ChatStart, ChatSave
  <2>2. PICK c \in Convs : conv' = Saved(c, req[r].job)
    BY <1>8 DEF ChatStart, ChatSave, GuestTypeOK, RequestsOK
  <2>3. \A d \in Convs : conv'[d] \in {conv[d], [owner |-> "guest", doc |-> req[r].job]}
    BY <2>2 DEF Saved, GuestTypeOK, TablesOK
  <2> QED BY <1>2, <2>1, <2>3 DEF Clean, NoUsers
<1>9. CASE TransferCommit(r)
  <2>1. /\ Transferred /\ UNCHANGED <<cache, failed, worker>> /\ session'.status = "upgraded"
        /\ cleaner.jobs \subseteq Jobs
        /\ cleaner'.pc = cleaner.pc /\ cleaner'.jobs = cleaner.jobs
        /\ cleaner'.docs = cleaner.docs /\ cleaner'.convs = cleaner.convs
        /\ cleaner.pc = "purging" => cleaner'.late
    BY <1>9 DEF TransferCommit, Transferred, GuestTypeOK, SessionOK, ThreadsOK
  <2>2. /\ \A j \in Jobs : /\ row'[j].owner = ToUser(row[j].owner)
                           /\ row'[j].status = row[j].status
                           /\ doc'[j] = ToUser(doc[j])
        /\ \A c \in Convs : conv'[c] = NoOne \/ conv'[c].owner # "guest"
    BY <2>1, TransferEffect
  <2>3. Owned'
    <3>1. AllEnded => AllEnded'
      BY <2>1, <2>2 DEF AllEnded, ToUser
    <3> QED BY <2>1, <3>1 DEF OwnershipOK, Owned, Cleaning
  <2>4. Claims'
    <3>1. SUFFICES ASSUME NEW j \in Jobs, worker[j].pc = "claimed", worker[j].owner # "nobody",
                          cleaner.pc # "idle"
                   PROVE  row'[j].owner # "nobody" /\ row'[j].status = "processing"
      BY <2>1 DEF Claims
    <3> QED BY <2>2, <3>1 DEF OwnershipOK, Claims, ToUser
  <2>5. Purging'
    <3>1. Guests' = {} /\ GuestDocs' = {} /\ GuestConvs' = {}
      BY <2>2 DEF Guests, GuestDocs, GuestConvs, ToUser
    <3>2. cleaner.pc = "purging" => \A j \in cleaner.jobs : row'[j].owner # "nobody"
      BY <2>1, <2>2 DEF OwnershipOK, Purging, ToUser
    <3>3. cleaner.pc = "purging" => cleaner.jobs \subseteq cleaner.docs
      BY DEF OwnershipOK, Purging
    <3> QED BY <2>1, <3>1, <3>2, <3>3 DEF Purging
  <2>6. Sides'
    <3>1. NoGuests'
      BY <2>2 DEF NoGuests, Guests, GuestDocs, GuestConvs, ToUser
    <3>2. Cleaning' => AllEnded'
      BY <2>3 DEF Owned
    <3> QED BY <2>1, <3>1, <3>2 DEF Sides
  <2> QED BY <2>3, <2>4, <2>5, <2>6 DEF OwnershipOK
<1> QED BY <1>3, <1>4, <1>5, <1>6, <1>7, <1>8, <1>9 DEF RequestStep

\* So do a request that is taken in and a session that runs out.
LEMMA SessionOwnership ==
    ASSUME GuestTypeOK, Listing, OwnershipOK, ~StaleIds,
           \/ RunsOut
           \/ \E r \in Requests, kind \in {"upload", "chat"} : Admit(r, kind)
    PROVE  OwnershipOK'
<1>1. UNCHANGED <<row, cache, doc, conv, cleaner, failed, worker>>
  BY DEF RunsOut, Admit
<1>2. \/ session' = session
      \/ /\ session'.status = "active" /\ session.status = "active"
         /\ \A j \in Jobs : worker[j].pc # "claimed"
      \/ /\ session'.status = "expired" /\ session.status # "upgraded"
         /\ ~(session.status = "active" /\ session.fresh)
  <2>1. CASE RunsOut
    <3>1. session'.status = "active"
      BY <2>1 DEF RunsOut, GuestTypeOK, SessionOK
    <3> QED BY <2>1, <3>1 DEF RunsOut
  <2>2. ASSUME NEW r \in Requests, NEW kind \in {"upload", "chat"}, Admit(r, kind)
        PROVE  \/ session' = session
               \/ /\ session'.status = "expired" /\ session.status # "upgraded"
                  /\ ~(session.status = "active" /\ session.fresh)
    BY <2>2 DEF Admit, Touched, GuestTypeOK, SessionOK
  <2> QED BY <2>1, <2>2
<1>3. /\ AllEnded' <=> AllEnded
      /\ Clean' <=> Clean
      /\ NoUsers' <=> NoUsers
      /\ Guests' = Guests /\ GuestDocs' = GuestDocs /\ GuestConvs' = GuestConvs
  BY <1>1 DEF AllEnded, Clean, NoUsers, Guests, GuestDocs, GuestConvs
<1>4. Owned'
  BY <1>1, <1>2, <1>3 DEF OwnershipOK, Owned, Cleaning, GuestTypeOK, SessionOK
<1>5. Claims'
  BY <1>1, <1>2 DEF OwnershipOK, Claims
<1>6. Purging'
  BY <1>1, <1>2, <1>3 DEF OwnershipOK, Purging
<1>7. Sides'
  <2>1. NoGuests' <=> NoGuests
    BY <1>3 DEF NoGuests
  <2> QED BY <1>1, <1>2, <1>3, <2>1 DEF OwnershipOK, Sides, Cleaning, GuestTypeOK, SessionOK
<1> QED BY <1>4, <1>5, <1>6, <1>7 DEF OwnershipOK

\* So does the clean-up: it lists a session only when its jobs are done, and what it has
\* not deleted yet is listed or a failed delete.
LEMMA CleanerOwnership ==
    ASSUME GuestTypeOK, RecordsOK, Listing, OwnershipOK, CleanerStep
    PROVE  OwnershipOK'
<1>1. /\ session \in [status : {"active", "expired", "purged", "upgraded"}, fresh : BOOLEAN]
      /\ cleaner \in [pc : {"idle", "listed", "collect", "purging"}, jobs : SUBSET Jobs,
                      docs : SUBSET Jobs, convs : SUBSET Convs, late : BOOLEAN]
      /\ row \in [Jobs -> JobRecords] /\ cache \in [Jobs -> JobRecords]
      /\ doc \in [Jobs -> Owners \cup {"absent"}]
      /\ conv \in [Convs -> [owner : Owners, doc : Jobs] \cup {NoOne}]
      /\ Absent.owner = "nobody" /\ Absent.status = "absent"
  BY DEF GuestTypeOK, SessionOK, ThreadsOK, TablesOK, Absent
<1>2. CASE ListExpired
  <2>1. /\ UNCHANGED <<row, cache, doc, conv, failed, worker>>
        /\ cleaner.pc = "idle" /\ cleaner'.pc = "listed" /\ session'.status = "expired"
        /\ Overdue /\ ~HasRunning
    BY <1>1, <1>2 DEF ListExpired, Marked, CleanerOnly
  <2>2. Clean => AllEnded
    <3> SUFFICES ASSUME Clean, NEW j \in Jobs, row[j].status \in InFlight
                 PROVE  row[j].owner = "nobody" /\ cache[j].owner = "nobody"
      BY DEF AllEnded
    <3>1. row[j] # Absent
      BY <1>1 DEF InFlight
    <3>2. row[j].owner # "guest"
      BY <2>1, <3>1 DEF HasRunning, Guests
    <3>3. row[j].owner \in Owners /\ cache[j].owner \in Owners
      BY <1>1, RecordFacts
    <3> QED BY <3>2, <3>3 DEF Clean, Owners
  <2>3. AllEnded
    BY <2>1, <2>2 DEF OwnershipOK, Owned, Overdue
  <2>4. AllEnded' /\ (NoUsers => NoUsers')
    BY <2>1, <2>3 DEF AllEnded, NoUsers
  <2>5. Owned'
    BY <2>1, <2>4 DEF OwnershipOK, Owned, Cleaning, Overdue
  <2>6. Claims'
    BY <2>1 DEF OwnershipOK, Claims, Overdue
  <2>7. Purging'
    BY <2>1 DEF Purging
  <2>8. Sides'
    <3>1. NoGuests' <=> NoGuests
      BY <2>1 DEF NoGuests, Guests, GuestDocs, GuestConvs
    <3> QED BY <2>1, <2>4, <3>1 DEF OwnershipOK, Sides, Overdue
  <2> QED BY <2>5, <2>6, <2>7, <2>8 DEF OwnershipOK
<1>3. CASE ~ListExpired
  <2>1. /\ cleaner.pc # "idle" /\ AllEnded /\ UNCHANGED worker
        /\ session.status = "expired" \/ (LateUpgrades /\ session.status = "upgraded")
    BY <1>3 DEF CleanerStep, Recheck, Collect, Finish, PurgeJob, PurgeDoc, PurgeConv, CleanerOnly,
         Listing, OwnershipOK, Owned, Cleaning
  <2>2. \A j \in Jobs : ~(worker[j].pc = "claimed" /\ worker[j].owner # "nobody")
    BY <2>1 DEF OwnershipOK, Claims, AllEnded, InFlight
  <2>3. Claims'
    BY <2>1, <2>2 DEF Claims
  <2>4. ASSUME AllEnded', NoUsers => NoUsers', NoGuests => NoGuests', Purging',
               session' = session \/ session'.status = "purged",
               cleaner'.pc = "purging" /\ ~cleaner'.late =>
                  NoUsers \/ (cleaner'.jobs = {} /\ cleaner'.docs = {} /\ cleaner'.convs = {})
        PROVE  OwnershipOK'
    <3>1. Owned'
      BY <2>1, <2>4 DEF OwnershipOK, Owned, Cleaning
    <3>2. Sides'
      BY <2>1, <2>4 DEF OwnershipOK, Sides, Cleaning
    <3> QED BY <2>3, <2>4, <3>1, <3>2 DEF OwnershipOK
  <2>5. ASSUME UNCHANGED <<row, cache, doc, conv, failed>>
        PROVE  /\ AllEnded' /\ (NoUsers => NoUsers') /\ (NoGuests => NoGuests')
               /\ Guests' = Guests /\ GuestDocs' = GuestDocs /\ GuestConvs' = GuestConvs
    BY <2>1, <2>5 DEF AllEnded, NoUsers, NoGuests, Guests, GuestDocs, GuestConvs
  <2>6. CASE Recheck
    <3>1. cleaner'.pc # "purging" /\ session'.status # "purged" /\ UNCHANGED session
      BY <1>1, <2>1, <2>6 DEF Recheck, Resting
    <3>2. Purging'
      BY <3>1 DEF Purging
    <3> QED BY <2>4, <2>5, <2>6, <3>1, <3>2 DEF Recheck
  <2>7. CASE Collect
    <3>1. /\ cleaner'.jobs = Guests /\ cleaner'.docs = GuestDocs \cup Guests
          /\ cleaner'.convs = GuestConvs
      BY <2>7 DEF Collect
    <3>2. Purging'
      BY <2>5, <2>7, <3>1 DEF Collect, Purging, Guests
    <3>3. NoUsers \/ (cleaner'.jobs = {} /\ cleaner'.docs = {} /\ cleaner'.convs = {})
      BY <2>1, <3>1 DEF OwnershipOK, Sides, Cleaning, NoGuests
    <3> QED BY <2>4, <2>5, <2>7, <3>2, <3>3 DEF Collect
  <2>8. CASE Finish
    <3>1. /\ cleaner.pc = "purging" /\ cleaner.jobs = {} /\ cleaner.docs = {} /\ cleaner.convs = {}
          /\ cleaner'.jobs = {} /\ cleaner'.docs = {} /\ cleaner'.convs = {}
          /\ session'.status = "purged" /\ UNCHANGED failed
      BY <1>1, <2>8 DEF Finish, Resting
    <3>2. Purging'
      BY <2>5, <2>8, <3>1 DEF OwnershipOK, Purging, Finish
    <3> QED BY <2>4, <2>5, <2>8, <3>1, <3>2 DEF Finish
  <2>9. ASSUME NEW j \in Jobs, PurgeJob(j) PROVE OwnershipOK'
    <3>1. /\ cleaner' = [cleaner EXCEPT !.jobs = @ \ {j}] /\ UNCHANGED <<session, conv>>
          /\ cache' = [cache EXCEPT ![j] = Absent] /\ doc' = [doc EXCEPT ![j] = "absent"]
          /\ \/ row' = [row EXCEPT ![j] = Absent] /\ UNCHANGED failed
             \/ UNCHANGED row /\ failed' = failed \cup {j}
          /\ cleaner.pc = "purging" /\ j \in cleaner.jobs
      BY <2>9 DEF PurgeJob, Purged
    <3>2. AllEnded' /\ (NoUsers => NoUsers')
      BY <1>1, <2>1, <3>1 DEF AllEnded, NoUsers, InFlight
    <3>3. /\ cleaner'.jobs = cleaner.jobs \ {j} /\ cleaner'.docs = cleaner.docs
          /\ cleaner'.convs = cleaner.convs /\ cleaner'.late = cleaner.late
      BY <1>1, <3>1
    <3>4. /\ Guests' \subseteq Guests /\ (j \in Guests' => j \in failed')
          /\ failed \subseteq failed'
          /\ GuestDocs' \subseteq GuestDocs /\ GuestConvs' = GuestConvs
      BY <1>1, <3>1 DEF Guests, GuestDocs, GuestConvs
    <3>5. Purging'
      <4>1. \A k \in cleaner'.jobs : row'[k].owner # "nobody"
        BY <1>1, <3>1, <3>3 DEF OwnershipOK, Purging
      <4>2. /\ Guests \subseteq cleaner.jobs \cup failed /\ cleaner.jobs \subseteq cleaner.docs
            /\ GuestDocs \subseteq cleaner.docs \cup failed
            /\ GuestConvs \subseteq cleaner.convs \cup failed
        BY <3>1 DEF OwnershipOK, Purging
      <4> QED BY <3>3, <3>4, <4>1, <4>2 DEF Purging
    <3>6. cleaner.pc = "purging" /\ (NoGuests => NoGuests')
      BY <3>1, <3>4 DEF NoGuests
    <3>7. ~cleaner'.late =>
            NoUsers \/ (cleaner'.jobs = {} /\ cleaner'.docs = {} /\ cleaner'.convs = {})
      BY <3>3, <3>6 DEF OwnershipOK, Sides
    <3> QED BY <2>4, <3>1, <3>2, <3>5, <3>6, <3>7
  <2>10. ASSUME NEW d \in Jobs, PurgeDoc(d) PROVE OwnershipOK'
    <3>1. /\ cleaner' = [cleaner EXCEPT !.docs = @ \ {d}]
          /\ UNCHANGED <<session, row, cache, conv, failed>>
          /\ doc' = [doc EXCEPT ![d] = "absent"] /\ cleaner.pc = "purging" /\ cleaner.jobs = {}
      BY <2>10 DEF PurgeDoc
    <3>2. AllEnded' /\ (NoUsers => NoUsers')
      BY <1>1, <2>1, <3>1 DEF AllEnded, NoUsers
    <3>3. /\ cleaner'.jobs = {} /\ cleaner'.docs = cleaner.docs \ {d}
          /\ cleaner'.convs = cleaner.convs /\ cleaner'.late = cleaner.late
      BY <1>1, <3>1
    <3>4. Guests' = Guests /\ GuestDocs' \subseteq GuestDocs \ {d} /\ GuestConvs' = GuestConvs
      BY <1>1, <3>1 DEF Guests, GuestDocs, GuestConvs
    <3>5. Purging'
      BY <3>1, <3>3, <3>4 DEF OwnershipOK, Purging
    <3>6. cleaner.pc = "purging" /\ (NoGuests => NoGuests')
      BY <3>1, <3>4 DEF NoGuests
    <3>7. ~cleaner'.late =>
            NoUsers \/ (cleaner'.jobs = {} /\ cleaner'.docs = {} /\ cleaner'.convs = {})
      BY <3>3, <3>6 DEF OwnershipOK, Sides
    <3> QED BY <2>4, <3>1, <3>2, <3>5, <3>6, <3>7
  <2>11. ASSUME NEW c \in Convs, PurgeConv(c) PROVE OwnershipOK'
    <3>1. /\ cleaner' = [cleaner EXCEPT !.convs = @ \ {c}]
          /\ UNCHANGED <<session, row, cache, doc>>
          /\ \/ conv' = [conv EXCEPT ![c] = NoOne] /\ UNCHANGED failed
             \/ UNCHANGED conv /\ failed' = failed \cup {c}
          /\ cleaner.pc = "purging" /\ cleaner.jobs = {} /\ cleaner.docs = {}
      BY <2>11 DEF PurgeConv
    <3>2. AllEnded' /\ (NoUsers => NoUsers')
      BY <1>1, <2>1, <3>1 DEF AllEnded, NoUsers
    <3>3. /\ cleaner'.jobs = {} /\ cleaner'.docs = {} /\ cleaner'.convs = cleaner.convs \ {c}
          /\ cleaner'.late = cleaner.late
      BY <1>1, <3>1
    <3>4. /\ Guests' = Guests /\ GuestDocs' = GuestDocs /\ failed \subseteq failed'
          /\ GuestConvs' \subseteq GuestConvs /\ (c \in GuestConvs' => c \in failed')
      BY <1>1, <3>1 DEF Guests, GuestDocs, GuestConvs
    <3>5. Purging'
      BY <3>1, <3>3, <3>4 DEF OwnershipOK, Purging
    <3>6. cleaner.pc = "purging" /\ (NoGuests => NoGuests')
      BY <3>1, <3>4 DEF NoGuests
    <3>7. ~cleaner'.late =>
            NoUsers \/ (cleaner'.jobs = {} /\ cleaner'.docs = {} /\ cleaner'.convs = {})
      BY <3>3, <3>6 DEF OwnershipOK, Sides
    <3> QED BY <2>4, <3>1, <3>2, <3>5, <3>6, <3>7
  <2> QED BY <1>3, <2>6, <2>7, <2>8, <2>9, <2>10, <2>11 DEF CleanerStep
<1> QED BY <1>2, <1>3

-----------------------------------------------------------------------------
(* The theorems. *)

\* Every variable keeps its type, whatever the bounds and whichever client is used.
THEOREM GuestTypesCorrect == Spec => []GuestTypeOK
<1>1. Init => GuestTypeOK
  <2> SUFFICES ASSUME Init PROVE GuestTypeOK
    OBVIOUS
  <2>1. SessionOK /\ RequestsOK /\ ThreadsOK
    BY DEF Init, SessionOK, RequestsOK, RequestRecords, ThreadsOK, Idle, Resting, NoRun, Owners, OnJob
  <2>2. TablesOK
    BY RecordFacts DEF Init, TablesOK
  <2> QED BY <2>1, <2>2 DEF GuestTypeOK
<1>2. GuestTypeOK /\ [Next]_vars => GuestTypeOK'
  <2> SUFFICES ASSUME GuestTypeOK, [Next]_vars PROVE GuestTypeOK'
    OBVIOUS
  <2>1. CASE UNCHANGED vars
    BY <2>1 DEF vars, GuestTypeOK, SessionOK, TablesOK, RequestsOK, ThreadsOK
  <2>2. CASE Next
    BY <2>2, AdmissionTypes, RequestTypes, WorkerTypes, CleanerTypes DEF Next
  <2> QED BY <2>1, <2>2
<1> QED BY <1>1, <1>2, PTL DEF Spec

\* The inductive invariant of the properties below.
GuestInv == RecordsOK /\ Quiet /\ Listing /\ OwnershipOK

\* The invariant is inductive.
LEMMA GuestInvKept ==
    ASSUME ~StaleIds, GuestTypeOK, GuestTypeOK', GuestInv, [Next]_vars
    PROVE  GuestInv'
<1> USE DEF GuestInv
<1>1. CASE UNCHANGED vars
  BY <1>1 DEF vars, RecordsOK, CacheOK, AtWork, NewJobs, Unused, Quiet, Ending, Cleaning, Listing, OwnershipOK,
       Owned, Sides, AllEnded, Clean, NoUsers, NoGuests, Claims, Purging, Guests, GuestDocs, GuestConvs
<1>2. CASE Next
  <2>1. RecordsOK' /\ Quiet' /\ Listing'
    BY <1>2, RecordsKept, ScheduleKept
  <2>2. ASSUME NEW r \in Requests, Upgrade(r) \/ RequestStep(r) PROVE OwnershipOK'
    BY <2>2, RequestOwnership
  <2>3. ASSUME NEW r \in Requests, NEW kind \in {"upload", "chat"}, Admit(r, kind)
        PROVE  OwnershipOK'
    BY <2>3, SessionOwnership
  <2>4. ASSUME NEW j \in Jobs, Poll(j) \/ Progress(j) \/ WorkerStep(j) PROVE OwnershipOK'
    <3>1. JobStep(j)
      BY <2>4, JobSteps DEF RecordsOK
    <3> QED BY <3>1, JobOwnership
  <2>5. RunsOut => OwnershipOK'
    BY SessionOwnership
  <2>6. CleanerStep => OwnershipOK'
    BY CleanerOwnership
  <2>7. OwnershipOK'
    BY <1>2, <2>2, <2>3, <2>4, <2>5, <2>6 DEF Next
  <2> QED BY <2>1, <2>7
<1> QED BY <1>1, <1>2

\* It holds in every state of the system.
LEMMA GuestInvHolds == ~StaleIds => (Spec => []GuestInv)
<1> SUFFICES ASSUME ~StaleIds PROVE Spec => []GuestInv
  OBVIOUS
<1>1. Init => GuestInv
  <2> SUFFICES ASSUME Init PROVE GuestInv
    OBVIOUS
  <2>1. \A j \in Jobs : Unused(j) /\ row[j] = Absent /\ cache[j] = Absent /\ doc[j] = "absent"
                        /\ worker[j] = NoRun
    BY DEF Init, Unused, NoRun
  <2>2. Absent.owner = "nobody" /\ Absent.status = "absent" /\ NoRun.pc = "idle" /\ NoRun.owner = "nobody"
    BY DEF Absent, NoRun
  <2>3. \A r \in Requests : req[r].pc = "idle"
    BY DEF Init, Idle
  <2>4. RecordsOK
    BY <2>1, <2>2, <2>3 DEF RecordsOK, CacheOK, AtWork, NewJobs
  <2>5. /\ session.status = "active" /\ cleaner.pc = "idle"
        /\ cleaner.jobs = {} /\ cleaner.docs = {} /\ cleaner.convs = {}
        /\ \A c \in Convs : conv[c] = NoOne
    BY DEF Init, Resting
  <2>6. Quiet /\ Listing
    BY <2>3, <2>5 DEF Quiet, Listing
  <2>7. Owned /\ Sides /\ Claims /\ Purging
    BY <2>1, <2>2, <2>5 DEF Owned, Sides, Cleaning, Clean, NoUsers, Claims, Purging
  <2> QED BY <2>4, <2>6, <2>7 DEF GuestInv, OwnershipOK
<1>2. GuestTypeOK /\ GuestTypeOK' /\ GuestInv /\ [Next]_vars => GuestInv'
  BY GuestInvKept
<1> QED BY <1>1, <1>2, GuestTypesCorrect, PTL DEF Spec

\* A step that changes the cleaner is one of its own, which deletes listed jobs only, or
\* the commit of an upgrade.
LEMMA CleanerDeletes ==
    ASSUME GuestTypeOK, Next, cleaner' # cleaner
    PROVE  \/ /\ CleanerStep
              /\ cleaner.pc # "purging" => UNCHANGED <<row, doc, conv>>
              /\ \A j \in Jobs \ cleaner.jobs : row'[j] = row[j]
           \/ Transferred
<1>1. CleanerStep \/ \E r \in Requests : TransferCommit(r)
  <2>1. \A r \in Requests, kind \in {"upload", "chat"} : ~Admit(r, kind)
    BY DEF Admit
  <2>2. \A r \in Requests : ~Upgrade(r) /\ (RequestStep(r) => TransferCommit(r))
    BY DEF Upgrade, RequestStep, Ingest, Enqueue, RetainList, RetainPurge, RetainDone, ChatOpen, ChatCount,
           ChatCounted, ChatStart, ChatAppend, ChatSave, Transfer
  <2>3. \A j \in Jobs : ~Poll(j) /\ ~Progress(j) /\ ~WorkerStep(j)
    BY DEF Poll, Progress, WorkerStep, WorkerOnly, Claim, Begin, RunFails, Deliver, Store, Finalize, Patch
  <2>4. ~RunsOut
    BY DEF RunsOut
  <2> QED BY <2>1, <2>2, <2>3, <2>4 DEF Next
<1>2. CleanerStep /\ cleaner.pc # "purging" => UNCHANGED <<row, doc, conv>>
  BY DEF CleanerStep, ListExpired, Recheck, Collect, Finish, PurgeJob, PurgeDoc, PurgeConv
<1>3. CleanerStep => \A j \in Jobs \ cleaner.jobs : row'[j] = row[j]
  BY DEF CleanerStep, ListExpired, Recheck, Collect, Finish, PurgeJob, PurgeDoc, PurgeConv, Purged,
       GuestTypeOK, TablesOK
<1>4. (\E r \in Requests : TransferCommit(r)) => Transferred
  BY DEF TransferCommit
<1> QED BY <1>1, <1>2, <1>3, <1>4

\* When no client uses the session after its upgrade, a purged session owns nothing
\* but what a delete failed on: neither a late upgrade nor the worker's writes from
\* its cache bring a row of the guest back (guests.py:239).
THEOREM NothingLeftBehind == ~StaleIds => (Spec => []PurgedOwnsNothing)
<1> SUFFICES ASSUME ~StaleIds PROVE Spec => []PurgedOwnsNothing
  OBVIOUS
<1>1. GuestInv => PurgedOwnsNothing
  <2> SUFFICES ASSUME GuestInv, session.status = "purged"
               PROVE  Guests \cup GuestDocs \cup GuestConvs \subseteq failed
    BY DEF PurgedOwnsNothing
  <2>1. cleaner.pc = "idle"
    BY DEF GuestInv, Listing
  <2>2. cleaner.jobs = {} /\ cleaner.docs = {} /\ cleaner.convs = {}
    BY <2>1 DEF GuestInv, Listing
  <2> QED BY <2>2 DEF GuestInv, OwnershipOK, Purging
<1> QED BY <1>1, GuestInvHolds, PTL

\* When no client uses the session after its upgrade, the clean-up deletes no job
\* that waits or runs (guests.py:399).
THEOREM RunningSpared == ~StaleIds => (Spec => RunningKept)
<1> SUFFICES ASSUME ~StaleIds PROVE Spec => RunningKept
  OBVIOUS
<1>1. GuestTypeOK /\ GuestInv /\ [Next]_vars =>
        [cleaner' # cleaner => \A j \in Jobs : row[j].status \in InFlight => row'[j] # Absent]_vars
  <2> SUFFICES ASSUME GuestTypeOK, GuestInv, Next, cleaner' # cleaner,
                      NEW j \in Jobs, row[j].status \in InFlight
               PROVE  row'[j] # Absent
    BY DEF vars
  <2>1. row[j] # Absent
    BY DEF Absent, InFlight
  <2>2. CASE j \in cleaner.jobs
    <3>1. cleaner.pc = "purging"
      BY <2>2 DEF GuestInv, Listing
    <3>2. row[j].owner # "nobody" /\ AllEnded
      BY <2>2, <3>1 DEF GuestInv, OwnershipOK, Purging, Owned, Cleaning
    <3> QED BY <3>2 DEF AllEnded
  <2>3. CASE j \notin cleaner.jobs /\ ~Transferred
    BY <2>1, <2>3, CleanerDeletes
  <2>4. CASE Transferred
    BY <2>1, <2>4, TransferEffect
  <2> QED BY <2>2, <2>3, <2>4
<1> QED BY <1>1, GuestInvHolds, GuestTypesCorrect, PTL DEF Spec, RunningKept

\* When no client uses the session after its upgrade, the clean-up deletes nothing of a
\* user unless an upgrade has committed since it read what the guest owns: an upgrade
\* that commits on an overdue session, before or after it is listed, leaves nothing in
\* the guest's name to be read (guests.py:208, 284, 352).
THEOREM UserDataSafe == ~StaleIds => (Spec => UserDataKept)
<1> SUFFICES ASSUME ~StaleIds PROVE Spec => UserDataKept
  OBVIOUS
<1>1. GuestTypeOK /\ GuestInv /\ [Next]_vars =>
        [cleaner' # cleaner /\ ~cleaner.late =>
          /\ \A j \in Jobs : row[j].owner = "user" => row'[j] # Absent
          /\ \A j \in Jobs : doc[j] = "user" => doc'[j] # "absent"
          /\ \A c \in Convs : conv[c] # NoOne /\ conv[c].owner = "user" => conv'[c] # NoOne]_vars
  <2> SUFFICES ASSUME GuestTypeOK, GuestInv, Next, cleaner' # cleaner, ~cleaner.late
               PROVE  /\ \A j \in Jobs : row[j].owner = "user" => row'[j] # Absent
                      /\ \A j \in Jobs : doc[j] = "user" => doc'[j] # "absent"
                      /\ \A c \in Convs : conv[c] # NoOne /\ conv[c].owner = "user" => conv'[c] # NoOne
    BY DEF vars
  <2>0. Absent.owner = "nobody"
    BY DEF Absent
  <2>1. CASE CleanerStep /\ cleaner.pc = "purging"
    <3>1. CASE NoUsers
      BY <3>1 DEF NoUsers
    <3>2. CASE cleaner.jobs = {} /\ cleaner.docs = {} /\ cleaner.convs = {}
      <4>1. UNCHANGED <<row, doc, conv>>
        BY <2>1, <3>2 DEF CleanerStep, ListExpired, Recheck, Collect, Finish, PurgeJob, PurgeDoc, PurgeConv
      <4> QED BY <2>0, <4>1
    <3> QED BY <2>1, <3>1, <3>2 DEF GuestInv, OwnershipOK, Sides
  <2>2. CASE CleanerStep /\ cleaner.pc # "purging" /\ ~Transferred
    <3>1. UNCHANGED <<row, doc, conv>>
      BY <2>2, CleanerDeletes
    <3> QED BY <2>0, <3>1
  <2>3. CASE Transferred
    <3>1. /\ \A j \in Jobs : row[j].owner = "user" => row'[j] # Absent
          /\ \A j \in Jobs : doc[j] = "user" => doc'[j] # "absent"
      BY <2>0, <2>3, TransferEffect DEF ToUser
    <3>2. ASSUME NEW c \in Convs, conv[c] # NoOne, conv[c].owner = "user" PROVE conv'[c] # NoOne
      <4>1. conv'[c] = [conv[c] EXCEPT !.owner = ToUser(@)]
        BY <2>3, <3>2 DEF Transferred
      <4>2. conv[c] \in [owner : Owners, doc : Jobs]
        BY <3>2 DEF GuestTypeOK, TablesOK
      <4>3. conv'[c] = conv[c]
        BY <3>2, <4>1, <4>2 DEF ToUser
      <4> QED BY <3>2, <4>3
    <3> QED BY <3>1, <3>2
  <2> QED BY <2>1, <2>2, <2>3, CleanerDeletes
<1> QED BY <1>1, GuestInvHolds, GuestTypesCorrect, PTL DEF Spec, UserDataKept
=============================================================================

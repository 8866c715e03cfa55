--------------------------- MODULE GuestLifecycle ---------------------------
(***************************************************************************)
(* One guest session and what it owns: requests of the guest, the upgrade to *)
(* an account, the clean-up thread, and the worker that runs the guest's     *)
(* jobs in the same process (db/guests.py, api/main.py, api/deps.py,         *)
(* db/conversations.py, memory/service.py, the ownership side of db/jobs.py, *)
(* memory/storage.py and worker/runner.py).                                  *)
(*                                                                           *)
(* A job and its document share an identifier.  Rows of other sessions are   *)
(* filtered out by every statement and are left out.  A session does not run *)
(* out (two hours without a request) while a request of it is in flight (see *)
(* LateUpgrades) or the worker is between the claim and the first write.  A  *)
(* function that commits more than once is a step per commit, except         *)
(* upsert_job and purge_job_completely, which are one step each.             *)
(***************************************************************************)
EXTENDS Naturals, FiniteSets

CONSTANTS
    Jobs,        \* job identifiers, in the order in which uploads take them
    Convs,       \* conversation identifiers
    Requests,    \* threads of the API that serve the guest
    MaxRequests, \* bound: how many requests are made
    MaxTries,    \* WORKER_MAX_ATTEMPTS
    MaxChats,    \* GUEST_MAX_CHATS
    MaxFaults,   \* bound: how many deletions of the clean-up fail
    LateUpgrades,\* an upgrade may be under way when the session runs out
    StaleIds,    \* a client, say a second tab, uses the session after its upgrade
    NoOne

ASSUME GuestAssumption ==
    /\ Jobs \subseteq Nat
    /\ MaxRequests \in Nat /\ MaxTries \in Nat \ {0} /\ MaxChats \in Nat
    /\ MaxFaults \in Nat
    /\ LateUpgrades \in BOOLEAN /\ StaleIds \in BOOLEAN

Owners == {"guest", "user", "nobody"}
Ended == {"complete", "error", "cancelled"}
InFlight == {"pending", "processing"}
Statuses == InFlight \cup Ended
Absent == [owner |-> "nobody", status |-> "absent"]
JobRecords == [owner : Owners, status : Statuses \cup {"none"}] \cup {Absent}

VARIABLES
    session,  \* the guest_sessions row: status, and expires_at not passed yet (fresh)
    chats,    \* its chat_count
    row,      \* row[j]: the jobs table, owner and status
    cache,    \* cache[j]: JOB_STATUSES of the process
    doc,      \* doc[j]: the owner of the document row, "absent" without one
    conv,     \* conv[c]: owner and document of a conversation, NoOne without one
    req,      \* req[r]: what a request is doing
    made,     \* requests made so far
    issued,   \* job identifiers given out
    cleaner,  \* the clean-up thread, and whether an upgrade has committed since it read
              \* what the guest owns (late)
    failed,   \* jobs and conversations a failed deletion of the clean-up left behind
    worker    \* worker[j]: the threads that run job j

vars == <<session, chats, row, cache, doc, conv, req, made, issued, cleaner, failed,
          worker>>

Guests == {j \in Jobs : row[j].owner = "guest" /\ row[j] # Absent}
GuestDocs == {j \in Jobs : doc[j] = "guest"}
GuestConvs == {c \in Convs : conv[c] # NoOne /\ conv[c].owner = "guest"}
HasRunning == \E j \in Guests : row[j].status \in InFlight
Overdue == session.status = "expired" \/ (session.status = "active" /\ ~session.fresh)

-----------------------------------------------------------------------------
(* The job store's ownership columns. *)

\* upsert_job lays the fields over the cached record; a purged job has none.
Cached(j) == IF cache[j] = Absent THEN [owner |-> "nobody", status |-> "none"] ELSE cache[j]

\* _persist creates a missing row, keeps a finished status from going back to
\* processing, and writes the cached owner over the row's when it has one.
Persisted(old, new) ==
    LET st == IF new.status = "none" THEN "pending" ELSE new.status IN
    IF old = Absent THEN [new EXCEPT !.status = st]
    ELSE [owner  |-> IF new.owner = "nobody" THEN old.owner ELSE new.owner,
          status |-> IF new.status = "none" \/ (old.status \in Ended /\ new.status = "processing")
                     THEN old.status ELSE new.status]

\* What get_job returns and stores in the cache.
Fetched(j) == IF row[j] # Absent THEN row[j] ELSE cache[j]

\* upsert_job(j, status = st) after the cache holds seen; "none" leaves the status.
Upsert(j, seen, st) ==
    LET new == IF st = "none" THEN seen ELSE [seen EXCEPT !.status = st] IN
    /\ cache' = [cache EXCEPT ![j] = new]
    /\ row' = [row EXCEPT ![j] = Persisted(row[j], new)]

\* store_document_data and ensure_document_owner_stamp: an owner is written over,
\* no owner leaves the row's and creates a row that nobody owns.
Stamped(j, owner) ==
    [doc EXCEPT ![j] = IF owner # "nobody" THEN owner
                       ELSE IF doc[j] = "absent" THEN "nobody" ELSE doc[j]]

\* Mutant: the purge leaves the cached record in place.
CacheLeft(j) ==
    /\ row' = [row EXCEPT ![j] = Absent]
    /\ doc' = [doc EXCEPT ![j] = "absent"]
    /\ UNCHANGED cache

\* purge_job_completely: the document with its side data, then the row and the cache.
Purged(j) ==
    /\ row' = [row EXCEPT ![j] = Absent]
    /\ cache' = [cache EXCEPT ![j] = Absent]
    /\ doc' = [doc EXCEPT ![j] = "absent"]

Idle == [pc |-> "idle", job |-> NoOne, todo |-> {}, count |-> 0]
Resting == [pc |-> "idle", jobs |-> {}, docs |-> {}, convs |-> {},
            late |-> FALSE]
NoRun == [pc |-> "idle", owner |-> "nobody", tries |-> 0]

Init ==
    /\ session = [status |-> "active", fresh |-> TRUE]
    /\ chats = 0
    /\ row = [j \in Jobs |-> Absent]
    /\ cache = [j \in Jobs |-> Absent]
    /\ doc = [j \in Jobs |-> "absent"]
    /\ conv = [c \in Convs |-> NoOne]
    /\ req = [r \in Requests |-> Idle]
    /\ made = 0
    /\ issued = {}
    /\ cleaner = Resting
    /\ failed = {}
    /\ worker = [j \in Jobs |-> NoRun]

-----------------------------------------------------------------------------
(* Requests. *)

Answer(r) == req' = [req EXCEPT ![r] = Idle]
Goes(r, pc) == req' = [req EXCEPT ![r].pc = pc]

\* Mutant: the touch revives a session that has run out.
Revived == [session EXCEPT !.status = "active", !.fresh = TRUE]

\* touch_guest_session: slides the expiry of an active session; any other row, one
\* that was purged or upgraded included, is marked expired.
Touched == IF session.status = "active" /\ session.fresh THEN session
           ELSE [session EXCEPT !.status = "expired"]

\* get_current_owner: a request of the guest is admitted when the touch finds the
\* session active, and answered 401 when not.
Admit(r, kind) ==
    /\ req[r].pc = "idle" /\ made < MaxRequests
    /\ session.status = "upgraded" => StaleIds
    /\ made' = made + 1
    /\ session' = Touched
    /\ IF Touched.status = "active" THEN Goes(r, kind) ELSE UNCHANGED req
    /\ UNCHANGED <<chats, row, cache, doc, conv, issued, cleaner, failed, worker>>

\* ingest_upload_to_object_storage: a new identifier and its document row.
Ingest(r) ==
    /\ req[r].pc = "upload"
    /\ \E j \in Jobs \ issued :
        /\ \A k \in Jobs \ issued : j <= k
        /\ issued' = issued \cup {j}
        /\ doc' = Stamped(j, "guest")
        /\ req' = [req EXCEPT ![r].pc = "enqueue", ![r].job = j]
    /\ UNCHANGED <<session, chats, row, cache, conv, made, cleaner, failed, worker>>

\* enqueue_job: a pending row with the owner stamped when the request was admitted.
Enqueue(r) ==
    /\ req[r].pc = "enqueue"
    /\ Upsert(req[r].job, [owner |-> "guest", status |-> "pending"], "pending")
    /\ Goes(r, "retain")
    /\ UNCHANGED <<session, chats, doc, conv, made, issued, cleaner, failed, worker>>

\* retain_only_latest_job_for_owner, after the response: the guest's other jobs ...
RetainList(r) ==
    /\ req[r].pc = "retain"
    /\ req' = [req EXCEPT ![r].pc = "retaining", ![r].todo = Guests \ {req[r].job}]
    /\ UNCHANGED <<session, chats, row, cache, doc, conv, made, issued, cleaner, failed, worker>>

\* ... are cancelled and purged one by one, whoever owns them by then.
RetainPurge(r) ==
    /\ req[r].pc = "retaining"
    /\ \E j \in req[r].todo :
        /\ Purged(j)
        /\ req' = [req EXCEPT ![r].todo = @ \ {j}]
    /\ UNCHANGED <<session, chats, conv, made, issued, cleaner, failed, worker>>

RetainDone(r) ==
    /\ req[r].pc = "retaining" /\ req[r].todo = {}
    /\ Answer(r)
    /\ UNCHANGED <<session, chats, row, cache, doc, conv, made, issued, cleaner, failed, worker>>

\* _resource_owner_fields: the document's owner, or its job's.
OwnerOf(j) == IF doc[j] \in {"guest", "user"} THEN doc[j] ELSE Fetched(j).owner

ChatsLeft == chats < MaxChats

\* /chat: the document has to be the guest's and the count below the limit.
ChatOpen(r) ==
    /\ req[r].pc = "chat"
    /\ \E j \in issued :
        /\ cache' = IF doc[j] \in {"guest", "user"} THEN cache
                    ELSE [cache EXCEPT ![j] = Fetched(j)]
        /\ IF OwnerOf(j) = "guest" /\ ChatsLeft
           THEN req' = [req EXCEPT ![r].pc = "counting", ![r].job = j]
           ELSE Answer(r)
    /\ UNCHANGED <<session, chats, row, doc, conv, made, issued, cleaner, failed, worker>>

\* increment_guest_chat_count reads the row ...
ChatCount(r) ==
    /\ req[r].pc = "counting"
    /\ req' = [req EXCEPT ![r].pc = "counted", ![r].count = chats]
    /\ UNCHANGED <<session, chats, row, cache, doc, conv, made, issued, cleaner, failed, worker>>

\* ... and commits one more than what it read.
ChatCounted(r) ==
    /\ req[r].pc = "counted"
    /\ chats' = req[r].count + 1
    /\ Goes(r, "talk")
    /\ UNCHANGED <<session, row, cache, doc, conv, made, issued, cleaner, failed, worker>>

\* save_conversation_state never reassigns an owner or a document.
SaveAllowed(c, j) == conv[c] = NoOne \/ conv[c] = [owner |-> "guest", doc |-> j]
Saved(c, j) == IF SaveAllowed(c, j) THEN [conv EXCEPT ![c] = [owner |-> "guest", doc |-> j]]
               ELSE conv

\* start_conversation returns the guest's own conversation or creates it, and refuses
\* another's; then the answer is generated.
ChatStart(r) ==
    /\ req[r].pc = "talk"
    /\ \E c \in Convs :
        /\ conv' = Saved(c, req[r].job)
        /\ IF SaveAllowed(c, req[r].job)
           THEN req' = [req EXCEPT ![r].pc = "answering", ![r].todo = {c}]
           ELSE Answer(r)
    /\ UNCHANGED <<session, chats, row, cache, doc, made, issued, cleaner, failed, worker>>

\* append_turn reads the conversation again: gone or another's ends the request ...
ChatAppend(r) ==
    /\ req[r].pc = "answering"
    /\ \E c \in req[r].todo :
        IF conv[c] # NoOne /\ SaveAllowed(c, req[r].job) THEN Goes(r, "appending") ELSE Answer(r)
    /\ UNCHANGED <<session, chats, row, cache, doc, conv, made, issued, cleaner, failed, worker>>

\* ... and saves what it read with the turn, creating the row if it has gone since.
ChatSave(r) ==
    /\ req[r].pc = "appending"
    /\ \E c \in req[r].todo : conv' = Saved(c, req[r].job)
    /\ Answer(r)
    /\ UNCHANGED <<session, chats, row, cache, doc, made, issued, cleaner, failed, worker>>

Transferable == session.status = "active"

\* /guest/upgrade does not touch the session and looks at its status only.
Upgrade(r) ==
    /\ req[r].pc = "idle" /\ made < MaxRequests
    /\ session.status = "active" => session.fresh \/ LateUpgrades
    /\ made' = made + 1
    /\ IF Transferable THEN Goes(r, "transfer") ELSE UNCHANGED req
    /\ UNCHANGED <<session, chats, row, cache, doc, conv, issued, cleaner, failed, worker>>

ToUser(owner) == IF owner = "guest" THEN "user" ELSE owner

\* Mutant: the update of the jobs table is forgotten.
JobsForgotten ==
    /\ row' = row
    /\ doc' = [j \in Jobs |-> ToUser(doc[j])]
    /\ conv' = [c \in Convs |-> IF conv[c] = NoOne THEN NoOne
                                ELSE [conv[c] EXCEPT !.owner = ToUser(@)]]
    /\ session' = [session EXCEPT !.status = "upgraded"]

\* What transfer_guest_to_user commits: every row of the guest is the user's.  The
\* process caches still say guest.
Transferred ==
    /\ row' = [j \in Jobs |-> [row[j] EXCEPT !.owner = ToUser(@)]]
    /\ doc' = [j \in Jobs |-> ToUser(doc[j])]
    /\ conv' = [c \in Convs |-> IF conv[c] = NoOne THEN NoOne
                                ELSE [conv[c] EXCEPT !.owner = ToUser(@)]]
    /\ session' = [session EXCEPT !.status = "upgraded"]

\* transfer_guest_to_user reads the session and refuses one that is not active.
Transfer(r) ==
    /\ req[r].pc = "transfer"
    /\ IF Transferable THEN Goes(r, "commit") ELSE Answer(r)
    /\ UNCHANGED <<session, chats, row, cache, doc, conv, made, issued, cleaner, failed, worker>>

\* Its updates find the rows as they are by now; the session is not read again.
TransferCommit(r) ==
    /\ req[r].pc = "commit"
    /\ Transferred
    /\ Answer(r)
    /\ cleaner' = [cleaner EXCEPT !.late = cleaner.pc = "purging"]
    /\ UNCHANGED <<chats, cache, made, issued, failed, worker>>

\* /job-status and the other reads refresh the cache of the process.
Poll(j) ==
    /\ cache' = [cache EXCEPT ![j] = Fetched(j)]
    /\ UNCHANGED <<session, chats, row, doc, conv, req, made, issued, cleaner, failed, worker>>

\* Two hours without a request.
RunsOut ==
    /\ session.status = "active" /\ session.fresh
    /\ \A r \in Requests : req[r].pc = "idle" \/ (LateUpgrades /\ req[r].pc \in {"transfer", "commit"})
    /\ \A j \in Jobs : worker[j].pc # "claimed"
    /\ session' = [session EXCEPT !.fresh = FALSE]
    /\ UNCHANGED <<chats, row, cache, doc, conv, req, made, issued, cleaner, failed, worker>>

-----------------------------------------------------------------------------
(* The worker and the background services of a job. *)

Seen(j) == IF Fetched(j) = Absent THEN [owner |-> "nobody", status |-> "none"] ELSE Fetched(j)
Runs(j, pc) == worker' = [worker EXCEPT ![j].pc = pc]
WorkerOnly == UNCHANGED <<session, chats, conv, req, made, issued, cleaner, failed>>

\* claim_next_job: one job at a time; the record it returns is cached.
Claim(j) ==
    /\ \A k \in Jobs : worker[k].pc \notin {"claimed", "running"}
    /\ worker[j].pc = "idle" /\ row[j].status = "pending"
    /\ row' = [row EXCEPT ![j].status = "processing"]
    /\ cache' = [cache EXCEPT ![j] = row'[j]]
    /\ worker' = [worker EXCEPT ![j] =
                    [pc |-> "claimed", owner |-> row[j].owner, tries |-> @.tries + 1]]
    /\ UNCHANGED doc /\ WorkerOnly

\* process_claimed_job: the status is written from the cache, the document stamped
\* with the owner of the claimed record.
Begin(j) ==
    /\ worker[j].pc = "claimed" /\ doc[j] # "absent"
    /\ Upsert(j, Cached(j), "processing")
    /\ doc' = IF worker[j].owner = "nobody" THEN doc ELSE Stamped(j, worker[j].owner)
    /\ Runs(j, "running") /\ WorkerOnly

\* set_progress and the heartbeat write the cached record back, unless it is finished.
Progress(j) ==
    /\ worker[j].pc = "running"
    /\ Cached(j).status \notin Ended
    /\ Upsert(j, Cached(j), IF cache[j] = Absent THEN "processing" ELSE "none")
    /\ UNCHANGED <<doc, worker>> /\ WorkerOnly

\* Mutant: a last failure leaves the job processing.
FailStuck(j) == IF worker[j].tries < MaxTries THEN "pending" ELSE "processing"

FailTo(j) == IF worker[j].tries < MaxTries THEN "pending" ELSE "error"

\* The document is missing, or the pipeline raises: fail_or_retry_job.
RunFails(j) ==
    /\ worker[j].pc = "running" \/ (worker[j].pc = "claimed" /\ doc[j] = "absent")
    /\ IF Seen(j).status = "cancelled"
       THEN cache' = [cache EXCEPT ![j] = Fetched(j)] /\ UNCHANGED row
       ELSE Upsert(j, Seen(j), FailTo(j))
    /\ UNCHANGED doc
    /\ Runs(j, "idle") /\ WorkerOnly

\* deliver_summary completes the job and starts the background services.
Deliver(j) ==
    /\ worker[j].pc = "running"
    /\ Upsert(j, Cached(j), "complete")
    /\ UNCHANGED doc
    /\ Runs(j, "storing") /\ WorkerOnly

\* store_for_rag: the document takes the owner of the job record, if there is one.
Store(j) ==
    /\ worker[j].pc = "storing"
    /\ cache' = [cache EXCEPT ![j] = Fetched(j)]
    /\ doc' = Stamped(j, Seen(j).owner)
    /\ UNCHANGED row
    /\ Runs(j, "finalizing") /\ WorkerOnly

\* finalize_metrics: the document is patched, or stored again when it has gone; the
\* status is written from what is read.
Finalize(j) ==
    /\ worker[j].pc = "finalizing"
    /\ doc' = IF doc[j] = "absent" THEN Stamped(j, Seen(j).owner) ELSE doc
    /\ Upsert(j, Seen(j), IF Seen(j).status \in Ended THEN "complete" ELSE "processing")
    /\ Runs(j, "patching") /\ WorkerOnly

\* _patch_result_carbon.
Patch(j) ==
    /\ worker[j].pc = "patching"
    /\ Upsert(j, Seen(j), "complete")
    /\ UNCHANGED doc
    /\ Runs(j, "idle") /\ WorkerOnly

-----------------------------------------------------------------------------
(* The clean-up thread, cleanup_expired_guests every half hour. *)

CleanerOnly == UNCHANGED <<chats, req, made, issued, worker>>

\* list_expired_sessions: an overdue session without running jobs is marked expired
\* in the transaction that selects it.
Marked == [session EXCEPT !.status = "expired"]
ListExpired ==
    /\ cleaner.pc = "idle"
    /\ Overdue /\ ~HasRunning
    /\ session' = Marked
    /\ cleaner' = [cleaner EXCEPT !.pc = "listed"]
    /\ UNCHANGED <<row, cache, doc, conv, failed>> /\ CleanerOnly

\* guest_has_running_jobs.
Recheck ==
    /\ cleaner.pc = "listed"
    /\ cleaner' = IF HasRunning THEN Resting ELSE [cleaner EXCEPT !.pc = "collect"]
    /\ UNCHANGED <<session, row, cache, doc, conv, failed>> /\ CleanerOnly

\* purge_guest_resources reads what the guest owns ...
Collect ==
    /\ cleaner.pc = "collect"
    /\ cleaner' = [pc |-> "purging", jobs |-> Guests, docs |-> GuestDocs \cup Guests,
                   convs |-> GuestConvs, late |-> FALSE]
    /\ UNCHANGED <<session, row, cache, doc, conv, failed>> /\ CleanerOnly

\* ... purges the jobs by identifier; a failed delete is logged and passed over ...
PurgeJob(j) ==
    /\ cleaner.pc = "purging" /\ j \in cleaner.jobs
    /\ cleaner' = [cleaner EXCEPT !.jobs = @ \ {j}]
    /\ \/ Purged(j) /\ UNCHANGED failed
       \/ /\ Cardinality(failed) < MaxFaults
          /\ failed' = failed \cup {j}
          /\ cache' = [cache EXCEPT ![j] = Absent]
          /\ doc' = [doc EXCEPT ![j] = "absent"]
          /\ UNCHANGED row
    /\ UNCHANGED <<session, conv>> /\ CleanerOnly

\* ... the documents ...
PurgeDoc(d) ==
    /\ cleaner.pc = "purging" /\ cleaner.jobs = {} /\ d \in cleaner.docs
    /\ doc' = [doc EXCEPT ![d] = "absent"]
    /\ cleaner' = [cleaner EXCEPT !.docs = @ \ {d}]
    /\ UNCHANGED <<session, row, cache, conv, failed>> /\ CleanerOnly

\* ... and the conversations.
PurgeConv(c) ==
    /\ cleaner.pc = "purging" /\ cleaner.jobs = {} /\ cleaner.docs = {} /\ c \in cleaner.convs
    /\ cleaner' = [cleaner EXCEPT !.convs = @ \ {c}]
    /\ \/ conv' = [conv EXCEPT ![c] = NoOne] /\ UNCHANGED failed
       \/ /\ Cardinality(failed) < MaxFaults
          /\ failed' = failed \cup {c}
          /\ UNCHANGED conv
    /\ UNCHANGED <<session, row, cache, doc>> /\ CleanerOnly

\* The session is purged, whatever failed and whatever its status is by now.
Finish ==
    /\ cleaner.pc = "purging" /\ cleaner.jobs = {} /\ cleaner.docs = {} /\ cleaner.convs = {}
    /\ session' = [session EXCEPT !.status = "purged"]
    /\ cleaner' = Resting
    /\ UNCHANGED <<row, cache, doc, conv, failed>> /\ CleanerOnly

-----------------------------------------------------------------------------
RequestStep(r) ==
    \/ Ingest(r) \/ Enqueue(r) \/ RetainList(r) \/ RetainPurge(r) \/ RetainDone(r)
    \/ ChatOpen(r) \/ ChatCount(r) \/ ChatCounted(r) \/ ChatStart(r) \/ ChatAppend(r)
    \/ ChatSave(r) \/ Transfer(r) \/ TransferCommit(r)
WorkerStep(j) ==
    Claim(j) \/ Begin(j) \/ RunFails(j) \/ Deliver(j) \/ Store(j) \/ Finalize(j) \/ Patch(j)
CleanerStep ==
    \/ ListExpired \/ Recheck \/ Collect \/ Finish
    \/ \E j \in Jobs : PurgeJob(j) \/ PurgeDoc(j)
    \/ \E c \in Convs : PurgeConv(c)

Next ==
    \/ \E r \in Requests :
        \/ \E kind \in {"upload", "chat"} : Admit(r, kind)
        \/ Upgrade(r) \/ RequestStep(r)
    \/ \E j \in Jobs : Poll(j) \/ Progress(j) \/ WorkerStep(j)
    \/ RunsOut \/ CleanerStep

Spec == Init /\ [][Next]_vars

\* The threads go on: a started request, the worker and the clean-up loop.
FairSpec ==
    /\ Spec
    /\ \A r \in Requests : WF_vars(RequestStep(r))
    /\ \A j \in Jobs : WF_vars(WorkerStep(j))
    /\ WF_vars(CleanerStep)

-----------------------------------------------------------------------------
SessionOK ==
    /\ session \in [status : {"active", "expired", "purged", "upgraded"}, fresh : BOOLEAN]
    /\ chats \in Nat /\ made \in Nat
    /\ issued \subseteq Jobs /\ failed \subseteq Jobs \cup Convs

TablesOK ==
    /\ row \in [Jobs -> JobRecords] /\ cache \in [Jobs -> JobRecords]
    /\ doc \in [Jobs -> Owners \cup {"absent"}]
    /\ conv \in [Convs -> [owner : Owners, doc : Jobs] \cup {NoOne}]

OnJob == {"enqueue", "retain", "retaining", "counting", "counted", "talk", "answering",
          "appending"}
RequestRecords ==
    [pc : {"idle", "upload", "chat", "transfer", "commit"} \cup OnJob,
     job : Jobs \cup {NoOne}, todo : SUBSET (Jobs \cup Convs), count : Nat]

\* A request at work on a document or a conversation has one.
RequestsOK ==
    /\ req \in [Requests -> RequestRecords]
    /\ \A r \in Requests :
        /\ req[r].pc \in OnJob => req[r].job \in Jobs
        /\ req[r].pc = "retaining" => req[r].todo \subseteq Jobs
        /\ req[r].pc \in {"answering", "appending"} => req[r].todo \subseteq Convs

ThreadsOK ==
    /\ cleaner \in [pc : {"idle", "listed", "collect", "purging"}, jobs : SUBSET Jobs,
                    docs : SUBSET Jobs, convs : SUBSET Convs, late : BOOLEAN]
    /\ worker \in [Jobs -> [pc : {"idle", "claimed", "running", "storing", "finalizing",
                                  "patching"},
                            owner : Owners, tries : Nat]]

\* Every variable holds a value of its kind.
GuestTypeOK == SessionOK /\ TablesOK /\ RequestsOK /\ ThreadsOK

\* Unless an upgrade has committed since the clean-up read what the guest owns, it
\* deletes nothing of a user: an upgrade under way while the session runs out, is
\* listed or is checked again loses nothing (guests.py:208, 284).  (One that has read an
\* active session does commit in the middle of the purge: it does not look again.)
UserDataKept ==
    [][cleaner' # cleaner /\ ~cleaner.late =>
        /\ \A j \in Jobs : row[j].owner = "user" => row'[j] # Absent
        /\ \A j \in Jobs : doc[j] = "user" => doc'[j] # "absent"
        /\ \A c \in Convs : conv[c] # NoOne /\ conv[c].owner = "user" => conv'[c] # NoOne]_vars

\* The clean-up deletes no job that waits or runs, also when an upload was admitted
\* just before the session was listed (guests.py:399).
RunningKept ==
    [][cleaner' # cleaner =>
        \A j \in Jobs : row[j].status \in InFlight => row'[j] # Absent]_vars

\* Once a session is purged nothing is left in its name but what a delete failed on,
\* whatever the worker, its background services and the requests still wrote
\* (guests.py:239).
PurgedOwnsNothing ==
    session.status = "purged" => Guests \cup GuestDocs \cup GuestConvs \subseteq failed

\* An expired session is purged in the end, running jobs and failed deletes or not,
\* unless an upgrade that was under way takes it over.
Cleaned == session.status = "expired" ~> session.status \in {"purged", "upgraded"}

=============================================================================

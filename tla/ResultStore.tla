---------------------------- MODULE ResultStore ----------------------------
(***************************************************************************)
(* The result of one job, shared by several processes: monotonic merge with  *)
(* compare-and-swap (core/result_state_store.py, db/jobs.py), written by the *)
(* pipeline when the summary is ready (core/orchestrator.py) and by the      *)
(* background thread when the carbon report is (core/background_services.py),*)
(* and read by polls that store what they read in the process cache.         *)
(*                                                                           *)
(* An attempt is one run of the pipeline; a retry in another process, or one *)
(* that overlaps a run its worker gave up on, is another attempt.  Writers   *)
(* of a process take turns under its lock of the job; polls do not.          *)
(*                                                                           *)
(* Data.  See ResultRegister.  The phases queued, indexing, ..., done are    *)
(* their rank plus 2, an unknown phase is 1; summaries and lists are their   *)
(* length.  No caller forces keys, so force_keys is left out.                *)
(***************************************************************************)
EXTENDS Naturals, FiniteSets

CONSTANTS
    Procs,       \* processes, each with its own JOB_STATUSES
    Attempts,    \* pipeline runs of the job
    Deployments, \* d.proc[a]: the process attempt a runs in; d.atomic: a transaction's
                 \* read and its commit are one step, FALSE under read committed
    Polls,       \* threads that read the job while it is written
    PollProc,    \* PollProc[r] is the process that r runs in
    Summaries,   \* what a summary delivery may write
    Reports,     \* the carbon reports that finalize_metrics may return
    BgPhases,    \* the phases the background may be in when the report is stored
    MaxRetries,  \* _MAX_CAS_RETRIES
    NoOne        \* the lock is free

Fields == {"summary_ready", "phase", "final_summary", "routing", "total_chunks",
           "operational", "baseline", "modeled", "saved", "region"}
Fill   == {"region"}
Growing == {"phase", "final_summary", "routing"}

VARIABLES
    dep,  \* the deployment, one of Deployments for good
    db,   \* the row's result: its revision and its value
    mem,  \* mem[p]: the result in JOB_STATUSES of process p
    lock, \* lock[p]: who holds the lock of the job in process p
    w,    \* w[a]: attempt a
    poll  \* poll[r]: what poll r has read and not yet stored, at most one result

vars == <<dep, db, mem, lock, w, poll>>

Register == INSTANCE ResultRegister WITH value <- db.val, revision <- db.rev
Results == Register!Results
Nothing == Register!Nothing

Blob == [rev : Nat, val : Results]
NoResult == [rev |-> 0, val |-> Nothing]

ASSUME ResultStoreAssumption ==
    /\ Deployments \subseteq [proc : [Attempts -> Procs], atomic : BOOLEAN]
    /\ PollProc \in [Polls -> Procs]
    /\ Summaries \subseteq Results
    /\ Reports \subseteq Results
    /\ BgPhases \subseteq 1..9
    /\ MaxRetries \in Nat \ {0}
    /\ NoOne \notin Attempts

-----------------------------------------------------------------------------
(* The merge *)

MergeLast(f, cur, new) == IF new = 0 THEN cur ELSE new

\* An empty value changes nothing; a string or list is replaced by one at least
\* as long, a phase by one not earlier, a number by a larger one; a flag sticks.
MergeField(f, cur, new) ==
    IF new = 0 THEN cur
    ELSE IF f \in Fill THEN (IF cur = 0 THEN new ELSE cur)
    ELSE IF f \in Growing THEN (IF new >= cur THEN new ELSE cur)
    ELSE IF new > cur THEN new ELSE cur

Merge(base, patch) == [f \in Fields |-> MergeField(f, base[f], patch[f])]

\* Whatever the merge did, these fields do not fall below what they were.
Sticky == {"summary_ready", "phase", "final_summary", "baseline", "total_chunks"}
Guards(base, merged) ==
    [f \in Fields |->
        IF f \in Sticky /\ merged[f] < base[f] THEN base[f]
        ELSE IF merged[f] = 0 THEN base[f]
        ELSE merged[f]]

Updated(base, patch) == Guards(base, Merge(base, patch))

-----------------------------------------------------------------------------
(* The patch of the background thread: the result it read, with the figures  *)
(* of the report put over it.                                                *)

WinKeys == {"baseline", "modeled", "saved", "region", "total_chunks"}

\* Overlay wins on its keys, and fills what is empty elsewhere.
AdditiveMerge(base, overlay) ==
    [f \in Fields |-> IF overlay[f] > 0 /\ (f \in WinKeys \/ base[f] = 0)
                      THEN overlay[f] ELSE base[f]]

FinalPatch(read, report, phase) ==
    [AdditiveMerge(read, report) EXCEPT !["summary_ready"] = 1, !["phase"] = phase]

-----------------------------------------------------------------------------
(* update_result, one step per access to what other threads share *)

\* stage: which of its two writes the attempt is about to do;
\* pc: where it is in update_result, or before it.
Idle(stage) == [stage |-> stage, pc |-> "idle", base |-> NoResult,
                patch |-> Nothing, tries |-> 0]

Init == /\ dep \in Deployments
        /\ db = NoResult
        /\ mem = [p \in Procs |-> NoResult]
        /\ lock = [p \in Procs |-> NoOne]
        /\ w = [a \in Attempts |-> Idle("summary")]
        /\ poll = [r \in Polls |-> {}]

At(a, stage, pc) == w[a].stage = stage /\ w[a].pc = pc
Goto(a, pc) == w' = [w EXCEPT ![a].pc = pc]

\* get_job: the row's result or a newer one of the cache; none if the row has none.
Chosen(p) == IF db.rev > 0 /\ mem[p].rev > db.rev THEN mem[p] ELSE db

DeliverSummary(a) ==
    /\ At(a, "summary", "idle")
    /\ \E s \in Summaries :
          w' = [w EXCEPT ![a] = [@ EXCEPT !.pc = "lock", !.patch = s]]
    /\ UNCHANGED <<dep, db, mem, lock, poll>>

\* _patch_result_carbon reads the job, then builds its patch from what it read.
PatchRead(a) ==
    /\ At(a, "finalize", "idle")
    /\ w' = [w EXCEPT ![a] = [@ EXCEPT !.pc = "build", !.base = Chosen(dep.proc[a])]]
    /\ UNCHANGED <<dep, db, mem, lock, poll>>

PatchBuild(a) ==
    /\ w[a].pc = "build"
    /\ mem' = [mem EXCEPT ![dep.proc[a]] = w[a].base]
    /\ \E c \in Reports, ph \in BgPhases :
          w' = [w EXCEPT ![a] = [@ EXCEPT !.pc = "lock",
                                          !.patch = FinalPatch(w[a].base.val, c, ph)]]
    /\ UNCHANGED <<dep, db, lock, poll>>

Acquire(a) ==
    /\ w[a].pc = "lock"
    /\ lock[dep.proc[a]] = NoOne
    /\ lock' = [lock EXCEPT ![dep.proc[a]] = a]
    /\ Goto(a, "read")
    /\ UNCHANGED <<dep, db, mem, poll>>

\* get_job of the loop; when the read fails it returns the cache.
Read(a) ==
    /\ w[a].pc = "read"
    /\ \/ w' = [w EXCEPT ![a] = [@ EXCEPT !.pc = "store", !.base = Chosen(dep.proc[a])]]
       \/ w' = [w EXCEPT ![a] = [@ EXCEPT !.pc = "check", !.base = mem[dep.proc[a]]]]
    /\ UNCHANGED <<dep, db, mem, lock, poll>>

Store(a) ==
    /\ w[a].pc = "store"
    /\ mem' = [mem EXCEPT ![dep.proc[a]] = w[a].base]
    /\ Goto(a, "check")
    /\ UNCHANGED <<dep, db, lock, poll>>

\* The next stage: after the summary the background thread starts; a summary that
\* could not be stored fails the attempt.
After(a, stored) ==
    IF w[a].stage = "summary" /\ stored THEN Idle("finalize") ELSE Idle("over")

Again(x) == [x EXCEPT !.pc = "read", !.tries = @ + 1]

\* The swap did not take: once more, or give up with an exception.
Retry(a) ==
    IF w[a].tries + 1 < MaxRetries
    THEN /\ w' = [w EXCEPT ![a] = Again(@)]
         /\ UNCHANGED lock
    ELSE /\ w' = [w EXCEPT ![a] = After(a, FALSE)]
         /\ lock' = [lock EXCEPT ![dep.proc[a]] = NoOne]

NewBlob(a) == [rev |-> w[a].base.rev + 1, val |-> Updated(w[a].base.val, w[a].patch)]

\* cas_persist_result: the cached revision first, then the row's.
Check(a) ==
    /\ w[a].pc = "check"
    /\ IF mem[dep.proc[a]].rev = w[a].base.rev
       THEN Goto(a, "row") /\ UNCHANGED lock
       ELSE Retry(a)
    /\ UNCHANGED <<dep, db, mem, poll>>

AnyRevision(a) == TRUE
SameRevision(a) == db.rev = w[a].base.rev

ReadRow(a) ==
    /\ w[a].pc = "row"
    /\ ~dep.atomic
    /\ IF SameRevision(a)
       THEN Goto(a, "commit") /\ UNCHANGED lock
       ELSE Retry(a)
    /\ UNCHANGED <<dep, db, mem, poll>>

Commit(a) ==
    /\ \/ w[a].pc = "commit"
       \/ w[a].pc = "row" /\ dep.atomic /\ SameRevision(a)
    /\ db' = NewBlob(a)
    /\ Goto(a, "keep")
    /\ UNCHANGED <<dep, mem, lock, poll>>

\* The row has another revision, or the transaction fails and is rolled back.
NotCommitted(a) ==
    /\ \/ w[a].pc = "commit"
       \/ w[a].pc = "row" /\ dep.atomic
    /\ Retry(a)
    /\ UNCHANGED <<dep, db, mem, poll>>

\* The cache takes the new result, and the lock is released.
Keep(a) ==
    /\ w[a].pc = "keep"
    /\ mem' = [mem EXCEPT ![dep.proc[a]] = NewBlob(a)]
    /\ lock' = [lock EXCEPT ![dep.proc[a]] = NoOne]
    /\ w' = [w EXCEPT ![a] = After(a, TRUE)]
    /\ UNCHANGED <<dep, db, poll>>

\* A poll of the job: read, then store what was read.  A poll that skips the
\* result and finds none in the cache stores a status without one.
PollRead(r) ==
    /\ poll[r] = {}
    /\ \/ poll' = [poll EXCEPT ![r] = {Chosen(PollProc[r])}]
       \/ mem[PollProc[r]] = NoResult /\ poll' = [poll EXCEPT ![r] = {NoResult}]
    /\ UNCHANGED <<dep, db, mem, lock, w>>

PollStore(r) ==
    /\ \E b \in poll[r] : mem' = [mem EXCEPT ![PollProc[r]] = b]
    /\ poll' = [poll EXCEPT ![r] = {}]
    /\ UNCHANGED <<dep, db, lock, w>>

UpdateStep(a) == Acquire(a) \/ Read(a) \/ Store(a) \/ Check(a) \/ ReadRow(a)
                 \/ Commit(a) \/ NotCommitted(a) \/ Keep(a)
AttemptStep(a) == DeliverSummary(a) \/ PatchRead(a) \/ PatchBuild(a) \/ UpdateStep(a)
PollStep(r) == PollRead(r) \/ PollStore(r)

Next == \/ \E a \in Attempts : AttemptStep(a)
        \/ \E r \in Polls : PollStep(r)

Spec == Init /\ [][Next]_vars

-----------------------------------------------------------------------------
(* Properties *)

\* Type invariant of the row, the caches, the locks and the writers.
ResTypeOK ==
    /\ dep \in Deployments
    /\ db \in Blob
    /\ mem \in [Procs -> Blob]
    /\ lock \in [Procs -> Attempts \cup {NoOne}]
    /\ w \in [Attempts -> [stage : {"summary", "finalize", "over"},
                           pc : {"idle", "build", "lock", "read", "store", "check",
                                 "row", "commit", "keep"},
                           base : Blob, patch : Results, tries : 0..(MaxRetries - 1)]]
    /\ poll \in [Polls -> SUBSET Blob]

\* A cached result (JOB_STATUSES) is one the row has or had: a cache is never ahead
\* of the row, and with the same revision it has the same result.
CacheBacked ==
    \A p \in Procs : mem[p].rev <= db.rev /\ (mem[p].rev = db.rev => mem[p] = db)

\* When update_result returns, and from its commit on, the row has everything the
\* caller's patch had, or something better, whoever else wrote in between.
AckedKept ==
    \A a \in Attempts : w[a].pc = "keep" =>
        \A f \in Fields : w[a].patch[f] > 0 =>
            IF f \in Fill THEN db.val[f] > 0 ELSE db.val[f] >= w[a].patch[f]

\* The row's result implements the register that only grows (result_state_store.py:2).
ImplementsRegister == Register!RSpec

=============================================================================
